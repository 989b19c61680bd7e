--------------------------- MODULE MoneyServiceProofs ---------------------------
(****************************************************************************)
(* Proofs about MoneyService, for every set of users, wallets and requests, *)
(* every configuration and every bound.                                     *)
(****************************************************************************)
EXTENDS MoneyService, RulesProofs

-----------------------------------------------------------------------------
(* The rules.                                                               *)

\* What a request names has its type.
LEMMA RequestTypes ==
    ASSUME NEW r \in Requests
    PROVE  /\ Req[r] \in Request
           /\ Touched(Req[r]) \subseteq Wallets
           /\ IdemKey(r) \in UsedKeys
           /\ Fingerprint(Req[r]) \in Nat \X Nat \X Int \X (Currencies \cup {NoCurrency})
           /\ \A w : Delta(Req[r], w) \in Int
           /\ SourceOf(Req[r]) \in Wallets \cup {NoWallet}
           /\ DestinationOf(Req[r]) \in Wallets \cup {NoWallet}
BY RequestParts DEF IdemKey

\* The rows a commit writes have their types.
LEMMA RowTypes ==
    ASSUME TypeOK, HandlersAreCleared, NEW r \in Requests, EarlyError(Req[r]) = Accepted
    PROVE  /\ \A status \in {"COMPLETED", "FAILED"} :
                TransactionRow(Req[r], ref[r], status, today) \in TransactionRows
           /\ \A i \in Nat, b \in 0..MaxBalance : \A w :
                b + Delta(Req[r], w) \in 0..MaxBalance =>
                   LedgerRow(Req[r], w, i, b) \in LedgerRows
           /\ \A i \in Nat, a \in Answers :
                [fingerprint |-> Fingerprint(Req[r]), transaction |-> i, answer |-> a] \in IdemRecords
BY RowsFit DEF TypeOK, TablesOK

-----------------------------------------------------------------------------
(* Row locks.                                                               *)

\* The three kinds of lockable rows, and the rows of one kind, are kept apart.
LEMMA RowsAreDistinct ==
    /\ \A r \in Requests : KeyLock(r) \in Rows
    /\ \A w \in Wallets : WalletLock(w) \in Rows
    /\ \A d \in Days : SequenceLock(d) \in Rows
    /\ \A r, s \in Requests : KeyLock(r) = KeyLock(s) <=> IdemKey(r) = IdemKey(s)
    /\ \A v, w : WalletLock(v) = WalletLock(w) <=> v = w
    /\ \A d, e : SequenceLock(d) = SequenceLock(e) <=> d = e
    /\ \A r \in Requests : \A w, d : /\ KeyLock(r) # WalletLock(w)
                                    /\ KeyLock(r) # SequenceLock(d)
                                    /\ WalletLock(w) # SequenceLock(d)
BY RequestTypes DEF KeyLock, WalletLock, SequenceLock, Rows

-----------------------------------------------------------------------------
(* Isolation.                                                               *)

\* A step leaves a request isolated and cleared if it changes neither the
\* request's own state nor a row the request has locked, and grants nobody a
\* lock on such a row.
LEMMA Bystander ==
    ASSUME NEW s \in Requests, Isolated(s), Cleared(s),
           exclusive'[s] = exclusive[s], seen'[s] = seen[s], ref'[s] = ref[s],
           pc'[s] = pc[s], err'[s] = err[s],
           \A t \in Requests \ {s} : exclusive[s] \cap (exclusive'[t] \cup shared'[t]) = {},
           \A w \in Wallets : WalletLock(w) \in exclusive[s] => wallet'[w] = wallet[w],
           KeyLock(s) \in exclusive[s] => idem'[IdemKey(s)] = idem[IdemKey(s)],
           ref[s].day \in Days,
           \A d \in Days : SequenceLock(d) \in exclusive[s] => sequence'[d] = sequence[d]
    PROVE  Isolated(s)' /\ Cleared(s)'
<1>1. Cleared(s)'
  BY DEF Cleared
<1>2. \A t \in Requests \ {s} : exclusive'[s] \cap (exclusive'[t] \cup shared'[t]) = {}
  OBVIOUS
<1>3. \A w \in Wallets : WalletLock(w)' \in exclusive'[s] => seen'[s][w] = wallet'[w]
  BY DEF Isolated, WalletLock
<1>4. pc'[s] \in {"lock", "stamp", "sequence", "write", "parents"} =>
         KeyLock(s)' \in exclusive'[s] /\ ~Stored(IdemKey(s))'
  BY DEF Isolated, KeyLock, IdemKey, Stored
<1>5. pc'[s] \in {"stamp", "sequence", "write"} /\ err'[s] = Accepted =>
         \A w \in Touched(Req[s]) : WalletLock(w)' \in exclusive'[s]
  BY DEF Isolated, WalletLock
<1>6. pc'[s] \in {"write", "parents"} =>
         /\ SequenceLock(ref[s].day)' \in exclusive'[s]
         /\ sequence'[ref'[s].day] = 0 \/ ref'[s].n = sequence'[ref'[s].day] + 1
  BY DEF Isolated, SequenceLock
<1> QED
  BY <1>1, <1>2, <1>3, <1>4, <1>5, <1>6 DEF Isolated

\* The same for a step of request r that leaves the tables alone: it may take
\* locks nobody holds against it, give up its own, and change its own state.
LEMMA StepOfOne ==
    ASSUME TypeOK, HandlersAreIsolated, HandlersAreCleared,
           NEW r \in Requests,
           \A s \in Requests \ {r} :
              /\ exclusive'[s] = exclusive[s] /\ shared'[s] = shared[s]
              /\ seen'[s] = seen[s] /\ ref'[s] = ref[s]
              /\ pc'[s] = pc[s] /\ err'[s] = err[s]
              /\ exclusive[s] \cap (exclusive'[r] \cup shared'[r]) = {},
           UNCHANGED <<wallet, idem, sequence>>,
           Isolated(r)', Cleared(r)'
    PROVE  HandlersAreIsolated' /\ HandlersAreCleared'
<1>1. ASSUME NEW s \in Requests, s # r PROVE Isolated(s)' /\ Cleared(s)'
  <2>1. Isolated(s) /\ Cleared(s) /\ ref[s].day \in Days
    BY DEF HandlersAreIsolated, HandlersAreCleared, TypeOK, Refs
  <2>2. \A t \in Requests \ {s} : exclusive[s] \cap (exclusive'[t] \cup shared'[t]) = {}
    BY <1>1, <2>1 DEF Isolated
  <2> QED
    BY <1>1, <2>1, <2>2, Bystander
<1> QED
  BY <1>1 DEF HandlersAreIsolated, HandlersAreCleared

\* Ending a transaction without writing, by Refuse, Abort, a crash or a replay.
LEMMA EndOfOne ==
    ASSUME TypeOK, HandlersAreIsolated, HandlersAreCleared,
           NEW r \in Requests, EndTransaction(r), UNCHANGED tables,
           \A s \in Requests \ {r} : pc'[s] = pc[s] /\ err'[s] = err[s],
           pc'[r] \in {"insert", "reply", "dead"},
           pc'[r] = "insert" => EarlyError(Req[r]) = Accepted
    PROVE  HandlersAreIsolated' /\ HandlersAreCleared'
<1>1. exclusive'[r] = {} /\ shared'[r] = {}
  BY DEF EndTransaction, ReleaseAll, TypeOK
<1>2. \A s \in Requests \ {r} :
        /\ exclusive'[s] = exclusive[s] /\ shared'[s] = shared[s]
        /\ seen'[s] = seen[s] /\ ref'[s] = ref[s]
        /\ exclusive[s] \cap (exclusive'[r] \cup shared'[r]) = {}
  BY <1>1 DEF EndTransaction, ReleaseAll, TypeOK
<1>3. UNCHANGED <<wallet, idem, sequence>>
  BY DEF tables
<1>4. Isolated(r)'
  BY <1>1 DEF Isolated
<1>5. Cleared(r)'
  BY DEF Cleared, InTransaction
<1> QED
  BY <1>2, <1>3, <1>4, <1>5, StepOfOne

\* A refusal ends a transaction without writing.
LEMMA RefuseOfOne ==
    ASSUME TypeOK, HandlersAreIsolated, HandlersAreCleared,
           NEW r \in Requests, NEW code, Refuse(r, code), UNCHANGED tables,
           pc[r] \in InTransaction
    PROVE  HandlersAreIsolated' /\ HandlersAreCleared'
<1>1. EarlyError(Req[r]) = Accepted
  BY DEF HandlersAreCleared, Cleared
<1>2. /\ EndTransaction(r)
      /\ \A s \in Requests \ {r} : pc'[s] = pc[s] /\ err'[s] = err[s]
      /\ pc'[r] \in {"insert", "reply"}
  BY DEF Refuse, Answer, GoTo, TypeOK
<1> QED
  BY <1>1, <1>2, EndOfOne

\* So does an exception.
LEMMA AbortOfOne ==
    ASSUME TypeOK, HandlersAreIsolated, HandlersAreCleared,
           NEW r \in Requests, Abort(r), UNCHANGED tables
    PROVE  HandlersAreIsolated' /\ HandlersAreCleared'
<1>1. /\ EndTransaction(r)
      /\ \A s \in Requests \ {r} : pc'[s] = pc[s] /\ err'[s] = err[s]
      /\ pc'[r] = "reply"
  BY DEF Abort, Answer, GoTo, TypeOK
<1> QED
  BY <1>1, EndOfOne

\* The claim of the key.
LEMMA ClaimIsolated ==
    ASSUME TypeOK, HandlersAreIsolated, HandlersAreCleared,
           NEW r \in Requests, Claim(r)
    PROVE  HandlersAreIsolated' /\ HandlersAreCleared'
<1>1. Isolated(r) /\ Cleared(r)
  BY DEF HandlersAreIsolated, HandlersAreCleared
<1>2. CASE Begin(r)
  <2>1. Isolated(r)' /\ Cleared(r)'
    BY <1>1, <1>2 DEF Begin, GoTo, Isolated, Cleared, TypeOK, InTransaction, locks, locals, tables,
        Stored
  <2> QED
    BY <1>2, <2>1, StepOfOne DEF Begin, GoTo, HandlersAreIsolated, Isolated, TypeOK, locks, locals, tables
<1>3. CASE RefuseEarly(r)
  <2>1. Isolated(r)' /\ Cleared(r)'
    BY <1>1, <1>3 DEF RefuseEarly, Answer, GoTo, Isolated, Cleared, TypeOK, InTransaction, locks, tables,
        Stored
  <2> QED
    BY <1>3, <2>1, StepOfOne DEF RefuseEarly, Answer, GoTo, HandlersAreIsolated, Isolated, TypeOK, locks, tables
<1>4. CASE InsertKey(r)
  <2>1. /\ exclusive' = [exclusive EXCEPT ![r] = @ \cup {KeyLock(r)}]
        /\ exclusive'[r] = exclusive[r] \cup {KeyLock(r)}
        /\ pc' = [pc EXCEPT ![r] = IF err[r] = Accepted THEN "lock" ELSE "stamp"]
        /\ pc'[r] = IF err[r] = Accepted THEN "lock" ELSE "stamp"
        /\ UNCHANGED <<wallet, idem, sequence, shared, seen, ref, err>>
        /\ ~Stored(IdemKey(r)) /\ pc[r] = "insert"
        /\ \A s \in Requests \ {r} : KeyLock(r) \notin exclusive[s] \cup shared[s]
    BY <1>4 DEF InsertKey, Lock, CanLock, GoTo, TypeOK, locals, tables
  <2>2. \A w \in Wallets : WalletLock(w) \in exclusive'[r] => WalletLock(w) \in exclusive[r]
    BY <2>1, RowsAreDistinct
  <2>3. Isolated(r)'
    BY <1>1, <2>1, <2>2 DEF Isolated, KeyLock, WalletLock, IdemKey, Stored
  <2>4. Cleared(r)'
    BY <1>1, <2>1 DEF Cleared, InTransaction
  <2> QED
    BY <2>1, <2>3, <2>4, StepOfOne DEF HandlersAreIsolated, Isolated
<1>5. CASE MeetInsert(r)
  <2>1. Isolated(r)' /\ Cleared(r)'
    BY <1>1, <1>5 DEF MeetInsert, GoTo, Isolated, Cleared, TypeOK, InTransaction, locks, locals, tables, Stored
  <2> QED
    BY <1>5, <2>1, StepOfOne DEF MeetInsert, GoTo, HandlersAreIsolated, Isolated, TypeOK, locks, locals, tables
<1>6. CASE ShareKey(r)
  <2>1. Isolated(r)' /\ Cleared(r)'
    BY <1>1, <1>6 DEF ShareKey, Share, CanShare, GoTo, Isolated, Cleared, TypeOK, InTransaction, locals, tables, Stored
  <2> QED
    BY <1>6, <2>1, StepOfOne DEF ShareKey, Share, CanShare, GoTo, HandlersAreIsolated, Isolated, TypeOK, locals, tables
<1>7. CASE Replay(r)
  <2>1. CASE idem[IdemKey(r)].answer.code = Accepted
    BY <1>7, <2>1, EndOfOne DEF Replay, Answer, GoTo, TypeOK
  <2>2. CASE idem[IdemKey(r)].answer.code # Accepted
    BY <1>7, <2>2, RefuseOfOne DEF Replay, ReadRecord, InTransaction
  <2> QED
    BY <2>1, <2>2
<1>8. CASE RefuseReusedKey(r)
  BY <1>8, RefuseOfOne DEF RefuseReusedKey, ReadRecord, InTransaction
<1>9. CASE SkipAudit(r)
  BY <1>9, EndOfOne DEF SkipAudit, Answer, GoTo, TypeOK
<1> QED
  BY <1>2, <1>3, <1>4, <1>5, <1>6, <1>7, <1>8, <1>9 DEF Claim

\* A wallet is read as its lock is granted, so the copy is the current row.
LEMMA LockWalletIsolated ==
    ASSUME TypeOK, HandlersAreIsolated, HandlersAreCleared,
           NEW r \in Requests, LockWallet(r)
    PROVE  HandlersAreIsolated' /\ HandlersAreCleared'
<1>1. Isolated(r) /\ Cleared(r)
  BY DEF HandlersAreIsolated, HandlersAreCleared
<1>2. PICK w \in NextToLock(r) :
        /\ CanLock(r, WalletLock(w))
        /\ exclusive' = [exclusive EXCEPT ![r] = @ \cup {WalletLock(w)}]
        /\ seen' = [seen EXCEPT ![r][w] = wallet[w]]
  BY DEF LockWallet, Lock
<1>3. w \in Wallets
  BY RequestTypes DEF NextToLock, ToLock
<1>4. /\ exclusive'[r] = exclusive[r] \cup {WalletLock(w)}
      /\ seen'[r] = [seen[r] EXCEPT ![w] = wallet[w]]
      /\ pc[r] = "lock"
      /\ UNCHANGED <<wallet, idem, sequence, shared, ref, err, pc>>
      /\ \A s \in Requests \ {r} : WalletLock(w) \notin exclusive[s] \cup shared[s]
      /\ \A s \in Requests \ {r} : exclusive'[s] = exclusive[s] /\ seen'[s] = seen[s]
  BY <1>2 DEF LockWallet, CanLock, TypeOK, tables
<1>5. \A v \in Wallets : WalletLock(v) \in exclusive'[r] => seen'[r][v] = wallet[v]
  <2> SUFFICES ASSUME NEW v \in Wallets, WalletLock(v) \in exclusive'[r]
               PROVE  seen'[r][v] = wallet[v]
    OBVIOUS
  <2>1. CASE v = w
    BY <1>3, <1>4, <2>1 DEF TypeOK
  <2>2. CASE v # w
    BY <1>1, <1>3, <1>4, <2>2, RowsAreDistinct DEF Isolated, TypeOK
  <2> QED
    BY <2>1, <2>2
<1>6. Isolated(r)'
  BY <1>1, <1>4, <1>5 DEF Isolated, KeyLock, WalletLock, IdemKey, Stored
<1>7. Cleared(r)'
  BY <1>1, <1>4 DEF Cleared
<1>8. \A s \in Requests \ {r} : exclusive[s] \cap (exclusive'[r] \cup shared'[r]) = {}
  BY <1>4 DEF HandlersAreIsolated, Isolated
<1> QED
  BY <1>4, <1>6, <1>7, <1>8, StepOfOne

\* The checks pass on locked rows, which makes the request cleared.
LEMMA AcceptIsolated ==
    ASSUME TypeOK, HandlersAreIsolated, HandlersAreCleared,
           NEW r \in Requests, Accept(r)
    PROVE  HandlersAreIsolated' /\ HandlersAreCleared'
<1>1. Isolated(r) /\ Cleared(r)
  BY DEF HandlersAreIsolated, HandlersAreCleared
<1>2. /\ pc[r] = "lock" /\ pc'[r] = "stamp"
      /\ \A s \in Requests \ {r} : pc'[s] = pc[s]
      /\ UNCHANGED <<wallet, idem, sequence, exclusive, shared, seen, ref, err>>
  BY DEF Accept, Checking, GoTo, TypeOK, locks, locals, tables
<1>3. EarlyError(Req[r]) = Accepted /\ err[r] = Accepted /\ seen[r] \in [Wallets -> WalletRow]
  BY <1>1, <1>2 DEF Cleared, InTransaction, TypeOK
<1>4. BusinessError(Req[r], seen[r], SpentToday(r), config) = Accepted /\ ~Overflows(Req[r], seen[r])
  BY DEF Accept, Verdict
<1>5. /\ {Req[r].wallet, Req[r].peer} \subseteq Wallets
      /\ ~(Req[r].op = "TRANSFER" /\ Req[r].wallet = Req[r].peer)
      /\ \A w \in Touched(Req[r]) :
           /\ seen[r][w].balance + Delta(Req[r], w) \in 0..MaxBalance
           /\ Req[r].op \in Audited => seen[r][w].status = "ACTIVE"
  BY <1>3, <1>4, AcceptedRequest
<1>6. \A w \in Touched(Req[r]) : WalletLock(w) \in exclusive[r]
  <2>1. ToLock(r) = {w \in Touched(Req[r]) : WalletLock(w) \notin exclusive[r]}
    BY <1>5, Zenon DEF ToLock
  <2> QED
    BY <2>1 DEF Accept, Checking
<1>7. Isolated(r)'
  BY <1>1, <1>2, <1>6 DEF Isolated, KeyLock, WalletLock, IdemKey, Stored
<1>8. Cleared(r)'
  BY <1>2, <1>3, <1>5 DEF Cleared
<1> QED
  BY <1>2, <1>7, <1>8, StepOfOne DEF HandlersAreIsolated, Isolated

\* The counter's lock makes the number taken the next one until the commit.
LEMMA ReferenceIsolated ==
    ASSUME TypeOK, HandlersAreIsolated, HandlersAreCleared,
           NEW r \in Requests, StampReference(r) \/ TakeReference(r)
    PROVE  HandlersAreIsolated' /\ HandlersAreCleared'
<1>1. Isolated(r) /\ Cleared(r)
  BY DEF HandlersAreIsolated, HandlersAreCleared
<1>2. CASE StampReference(r)
  <2>1. /\ pc[r] = "stamp" /\ pc'[r] = "sequence"
        /\ \A s \in Requests \ {r} : pc'[s] = pc[s] /\ ref'[s] = ref[s]
        /\ UNCHANGED <<wallet, idem, sequence, exclusive, shared, seen, err>>
    BY <1>2 DEF StampReference, GoTo, TypeOK, locks, tables
  <2>2. Isolated(r)'
    BY <1>1, <2>1 DEF Isolated, KeyLock, WalletLock, IdemKey, Stored
  <2>3. Cleared(r)'
    BY <1>1, <2>1 DEF Cleared, InTransaction
  <2> QED
    BY <2>1, <2>2, <2>3, StepOfOne DEF HandlersAreIsolated, Isolated
<1>3. CASE TakeReference(r)
  <2> DEFINE row == SequenceLock(ref[r].day)
  <2>1. /\ pc[r] = "sequence"
        /\ pc'[r] = IF err[r] = Accepted THEN "write" ELSE "parents"
        /\ exclusive'[r] = exclusive[r] \cup {row}
        /\ ref'[r].day = ref[r].day 
        /\ sequence[ref[r].day] = 0 \/ ref'[r].n = sequence[ref[r].day] + 1
        /\ \A s \in Requests \ {r} :
             /\ pc'[s] = pc[s] /\ ref'[s] = ref[s] /\ exclusive'[s] = exclusive[s]
             /\ row \notin exclusive[s] \cup shared[s]
        /\ UNCHANGED <<wallet, idem, sequence, shared, seen, err>>
    BY <1>3 DEF TakeReference, NextNumber, Lock, CanLock, GoTo, TypeOK, tables, Refs
  <2>2. \A w \in Wallets : WalletLock(w) \in exclusive'[r] => WalletLock(w) \in exclusive[r]
    BY <2>1, RowsAreDistinct DEF WalletLock, SequenceLock
  <2> HIDE DEF row
  <2>3. row \in exclusive'[r] /\ row = SequenceLock(ref'[r].day)
    BY <2>1 DEF row
  <2>4. Isolated(r)'
    BY <1>1, <2>1, <2>2, <2>3 DEF Isolated, KeyLock, WalletLock, SequenceLock, IdemKey, Stored
  <2>5. Cleared(r)'
    BY <1>1, <2>1 DEF Cleared, InTransaction
  <2> QED
    BY <2>1, <2>4, <2>5, StepOfOne DEF HandlersAreIsolated, Isolated
<1> QED
  BY <1>2, <1>3

\* A commit writes only rows that its own transaction has locked.
LEMMA CommitIsolated ==
    ASSUME TypeOK, HandlersAreIsolated, HandlersAreCleared,
           NEW r \in Requests, CommitMoney(r) \/ CommitFailure(r)
    PROVE  HandlersAreIsolated' /\ HandlersAreCleared'
<1>1. Isolated(r) /\ Cleared(r) /\ IdemKey(r) \in UsedKeys /\ ref[r].day \in Days
  BY RequestTypes DEF HandlersAreIsolated, HandlersAreCleared, TypeOK, Refs
<1>2. /\ EndTransaction(r)
      /\ pc'[r] = "reply"
      /\ \A s \in Requests \ {r} : pc'[s] = pc[s]
      /\ err' = err
  BY DEF CommitMoney, CommitFailure, Answer, GoTo, TypeOK
<1>3. /\ exclusive'[r] = {} /\ shared'[r] = {}
      /\ \A s \in Requests \ {r} :
           /\ exclusive'[s] = exclusive[s] /\ shared'[s] = shared[s]
           /\ seen'[s] = seen[s] /\ ref'[s] = ref[s]
  BY <1>2 DEF EndTransaction, ReleaseAll, TypeOK
<1>4. /\ KeyLock(r) \in exclusive[r]
      /\ SequenceLock(ref[r].day) \in exclusive[r]
  <2>1. pc[r] \in {"write", "parents"}
    BY DEF CommitMoney, CommitFailure
  <2> QED
    BY <1>1, <2>1 DEF Isolated
<1>5. \A w \in Wallets : wallet'[w] # wallet[w] => WalletLock(w) \in exclusive[r]
  <2>1. CASE CommitMoney(r)
    <3>1. pc[r] = "write" /\ err[r] = Accepted
      BY <1>1, <2>1 DEF CommitMoney, Cleared
    <3>2. \A w \in Wallets : wallet'[w] # wallet[w] => w \in Touched(Req[r])
      BY <2>1 DEF CommitMoney, PostMoney
    <3> QED
      BY <1>1, <3>1, <3>2 DEF Isolated
  <2>2. CASE CommitFailure(r)
    BY <2>2 DEF CommitFailure, PostFailure
  <2> QED
    BY <2>1, <2>2
<1>6. /\ \A k \in UsedKeys : k # IdemKey(r) => idem'[k] = idem[k]
      /\ \A d \in Days : d # ref[r].day => sequence'[d] = sequence[d]
  BY DEF CommitMoney, CommitFailure, PostMoney, PostFailure, TypeOK, TablesOK, IdemKey
<1>7. ASSUME NEW s \in Requests PROVE Isolated(s)' /\ Cleared(s)'
  <2>1. CASE s = r
    BY <1>2, <1>3, <2>1 DEF Isolated, Cleared, InTransaction
  <2>2. CASE s # r
    <3>1. Isolated(s) /\ Cleared(s) /\ IdemKey(s) \in UsedKeys /\ ref[s].day \in Days
      BY RequestTypes DEF HandlersAreIsolated, HandlersAreCleared, TypeOK, Refs
    <3>2. \A t \in Requests \ {s} : exclusive[s] \cap (exclusive'[t] \cup shared'[t]) = {}
      BY <1>3, <2>2, <3>1 DEF Isolated
    <3>3. exclusive[s] \cap exclusive[r] = {}
      BY <2>2, <3>1 DEF Isolated
    <3>4. \A w \in Wallets : WalletLock(w) \in exclusive[s] => wallet'[w] = wallet[w]
      BY <1>5, <3>3
    <3>5. KeyLock(s) \in exclusive[s] => idem'[IdemKey(s)] = idem[IdemKey(s)]
      BY <1>4, <1>6, <3>1, <3>3, RowsAreDistinct
    <3>6. \A d \in Days : SequenceLock(d) \in exclusive[s] => sequence'[d] = sequence[d]
      BY <1>4, <1>6, <3>3
    <3> QED
      BY <1>2, <1>3, <2>2, <3>1, <3>2, <3>4, <3>5, <3>6, Bystander
  <2> QED
    BY <2>1, <2>2
<1> QED
  BY <1>7 DEF HandlersAreIsolated, HandlersAreCleared

\* Every statement of a money or an audit transaction preserves isolation.
LEMMA ExecuteIsolated ==
    ASSUME TypeOK, HandlersAreIsolated, HandlersAreCleared,
           NEW r \in Requests, Execute(r)
    PROVE  HandlersAreIsolated' /\ HandlersAreCleared'
<1>1. Isolated(r) /\ Cleared(r)
  BY DEF HandlersAreIsolated, HandlersAreCleared
<1>2. CASE Reject(r)
  BY <1>2, RefuseOfOne DEF Reject, Checking, InTransaction
<1>3. CASE Overflow(r)
  BY <1>3, AbortOfOne DEF Overflow
<1>9. CASE Collide(r)
  BY <1>9, AbortOfOne DEF Collide
<1>4. CASE LockParent(r)
  <2>1. PICK w \in MissingParents(r) : CanShare(r, WalletLock(w)) /\ Share(r, WalletLock(w))
    BY <1>4 DEF LockParent
  <2>2. /\ shared'[r] = shared[r] \cup {WalletLock(w)}
        /\ \A s \in Requests \ {r} : shared'[s] = shared[s] /\ WalletLock(w) \notin exclusive[s]
        /\ UNCHANGED <<wallet, idem, sequence, exclusive, seen, ref, err, pc>>
    BY <1>4, <2>1 DEF LockParent, Share, CanShare, TypeOK, locals, tables
  <2>3. Isolated(r)' /\ Cleared(r)'
    BY <1>1, <2>2 DEF Isolated, Cleared, KeyLock, WalletLock, SequenceLock, IdemKey, Stored
  <2>4. \A s \in Requests \ {r} : exclusive[s] \cap (exclusive'[r] \cup shared'[r]) = {}
    BY <2>2 DEF HandlersAreIsolated, Isolated
  <2> QED
    BY <2>2, <2>3, <2>4, StepOfOne
<1>5. CASE Reply(r)
  <2>1. /\ pc'[r] = "done" /\ pc[r] = "reply"
        /\ \A s \in Requests \ {r} : pc'[s] = pc[s]
        /\ UNCHANGED <<wallet, idem, sequence, exclusive, shared, seen, ref, err>>
    BY <1>5 DEF Reply, GoTo, TypeOK, locks, locals, tables
  <2>2. Isolated(r)' /\ Cleared(r)'
    BY <1>1, <2>1 DEF Isolated, Cleared, InTransaction
  <2> QED
    BY <2>1, <2>2, StepOfOne DEF HandlersAreIsolated, Isolated
<1> QED
  BY <1>2, <1>3, <1>4, <1>5, <1>9, LockWalletIsolated, AcceptIsolated, ReferenceIsolated, CommitIsolated
  DEF Execute

\* A step of an administrator or of time leaves every request alone.
LEMMA IdleIsolated ==
    ASSUME TypeOK, HandlersAreIsolated, HandlersAreCleared, Idle,
           UNCHANGED <<idem, sequence>>,
           \A w \in Wallets, r \in Requests :
              WalletLock(w) \in exclusive[r] => wallet'[w] = wallet[w]
    PROVE  HandlersAreIsolated' /\ HandlersAreCleared'
<1>1. ASSUME NEW s \in Requests PROVE Isolated(s)' /\ Cleared(s)'
  BY Bystander DEF Idle, locks, locals, HandlersAreIsolated, HandlersAreCleared, Isolated, TypeOK, Refs
<1> QED
  BY <1>1 DEF HandlersAreIsolated, HandlersAreCleared

\* A freeze waits for the row lock, so no handler's copy of the row goes stale.
LEMMA FreezeIsolated ==
    ASSUME TypeOK, HandlersAreIsolated, HandlersAreCleared,
           NEW w \in Wallets, NEW freeze \in BOOLEAN, FreezeOrUnfreeze(w, freeze)
    PROVE  HandlersAreIsolated' /\ HandlersAreCleared'
<1>1. \A v \in Wallets, r \in Requests : WalletLock(v) \in exclusive[r] => wallet'[v] = wallet[v]
  BY DEF FreezeOrUnfreeze, SetFrozen, TypeOK, TablesOK
<1> QED
  BY <1>1, IdleIsolated DEF FreezeOrUnfreeze, SetFrozen

\* Every step of the service preserves isolation and clearance.
LEMMA NextIsolated ==
    ASSUME TypeOK, HandlersAreIsolated, HandlersAreCleared, [Next]_vars
    PROVE  HandlersAreIsolated' /\ HandlersAreCleared'
<1>1. ASSUME NEW r \in Requests, Handle(r) PROVE HandlersAreIsolated' /\ HandlersAreCleared'
  BY <1>1, ClaimIsolated, ExecuteIsolated DEF Handle
<1>2. ASSUME NEW r \in Requests, DeadlockVictim(r) \/ Fault(r)
      PROVE  HandlersAreIsolated' /\ HandlersAreCleared'
  BY <1>2, AbortOfOne DEF DeadlockVictim, Fault
<1>3. ASSUME NEW r \in Requests, Crash(r) PROVE HandlersAreIsolated' /\ HandlersAreCleared'
  BY <1>3, EndOfOne DEF Crash, GoTo, TypeOK
<1>4. ASSUME NEW w \in Wallets, NEW freeze \in BOOLEAN, FreezeOrUnfreeze(w, freeze)
      PROVE  HandlersAreIsolated' /\ HandlersAreCleared'
  BY <1>4, FreezeIsolated
<1>5. CASE (ChangeConfig \/ NextDay) /\ Idle
  BY <1>5, IdleIsolated DEF ChangeConfig, NextDay, tables
<1>6. CASE UNCHANGED vars
  BY <1>6, IdleIsolated DEF vars, tables, Idle
<1> QED
  BY <1>1, <1>2, <1>3, <1>4, <1>5, <1>6 DEF Next, Finished

-----------------------------------------------------------------------------
(* Types.                                                                   *)

\* The variables have their types at the start.
LEMMA InitTypeOK == Init => TypeOK
<1> SUFFICES ASSUME Init PROVE TypeOK
  OBVIOUS
<1>1. TablesOK
  BY TablesInitTypes DEF Init
<1> QED
  <2>1. NoRef \in Refs /\ NoAnswer \in Answers /\ "ready" \in Places /\ Accepted \in Codes
    BY AnswerTypes DEF NoAnswer, NoCode, Codes, Places, Accepted
  <2>2. Opening \in [Wallets -> WalletRow] /\ 0 \in 0..MaxFaults
    BY RulesAssumption, FaultsAssumption
  <2> QED
    BY <1>1, <2>1, <2>2 DEF Init, TypeOK

\* The answers and local values after the end of a transaction.
LEMMA EndTypes ==
    ASSUME TypeOK, NEW r \in Requests, EndTransaction(r)
    PROVE  /\ exclusive' \in [Requests -> SUBSET Rows]
           /\ shared' \in [Requests -> SUBSET Rows]
           /\ seen' \in [Requests -> [Wallets -> WalletRow]]
           /\ ref' \in [Requests -> Refs]
BY RulesAssumption, AnswerTypes DEF TypeOK, EndTransaction, ReleaseAll

\* A refusal preserves the types.
LEMMA RefuseTypes ==
    ASSUME TypeOK, NEW r \in Requests, NEW code \in Codes, Refuse(r, code),
           UNCHANGED <<tables, context, faults>>
    PROVE  TypeOK'
<1>1. TablesOK'
  BY DEF TypeOK, TablesOK, tables, context
<1> QED
  BY <1>1, EndTypes, AnswerTypes DEF Refuse, Answer, GoTo, TypeOK, Places, InTransaction

\* An exception preserves the types.
LEMMA AbortTypes ==
    ASSUME TypeOK, NEW r \in Requests, Abort(r), UNCHANGED <<tables, context>>,
           faults' \in 0..MaxFaults
    PROVE  TypeOK'
<1>1. TablesOK'
  BY DEF TypeOK, TablesOK, tables, context
<1>2. ErrorAnswer(IF err[r] = Accepted THEN "server_error" ELSE err[r]) \in Answers
  <2>1. (IF err[r] = Accepted THEN "server_error" ELSE err[r]) \in Codes
    BY DEF TypeOK, Codes
  <2> QED
    BY <2>1, AnswerTypes
<1> QED
  <2>1. /\ answer' \in [Requests -> Answers]
        /\ pc' \in [Requests -> Places]
        /\ err' \in [Requests -> Codes]
    BY <1>2 DEF Abort, Answer, GoTo, TypeOK, Places
  <2>2. EndTransaction(r)
    BY DEF Abort
  <2> QED
    BY <1>1, <2>1, <2>2, EndTypes DEF TypeOK

\* The claim of the key preserves the types.
LEMMA ClaimTypes ==
    ASSUME TypeOK, NEW r \in Requests, Claim(r)
    PROVE  TypeOK'
<1>1. TablesOK'
  BY DEF Claim, Begin, RefuseEarly, InsertKey, MeetInsert, ShareKey, Replay, RefuseReusedKey,
     SkipAudit, TypeOK, TablesOK, tables, context
<1>2. idem[IdemKey(r)] \in IdemRecords
  BY RequestTypes DEF TypeOK, TablesOK
<1>3. CASE Begin(r) \/ InsertKey(r) \/ MeetInsert(r) \/ ShareKey(r)
  BY <1>1, <1>3, RowsAreDistinct DEF Begin, InsertKey, MeetInsert, ShareKey, Lock, Share, GoTo,
     TypeOK, locks, locals, Places, InTransaction
<1>4. CASE RefuseEarly(r)
  BY <1>1, <1>4, ErrorTypes, AnswerTypes DEF RefuseEarly, Answer, GoTo, TypeOK, locks, Places
<1>5. CASE Replay(r)
  <2>1. idem[IdemKey(r)].answer \in Answers /\ idem[IdemKey(r)].answer.code \in Codes
    BY <1>2 DEF IdemRecords, Answers
  <2>2. CASE idem[IdemKey(r)].answer.code = Accepted
    BY <1>1, <1>5, <2>1, <2>2, EndTypes DEF Replay, Answer, GoTo, TypeOK, Places
  <2>3. CASE idem[IdemKey(r)].answer.code # Accepted
    BY <1>5, <2>1, <2>3, RefuseTypes DEF Replay
  <2> QED
    BY <2>2, <2>3
<1>6. CASE RefuseReusedKey(r)
  <2>1. "conflict" \in Codes
    BY DEF Codes
  <2> QED
    BY <1>6, <2>1, RefuseTypes DEF RefuseReusedKey
<1>7. CASE SkipAudit(r)
  <2>1. ErrorAnswer(err[r]) \in Answers
    BY AnswerTypes DEF TypeOK
  <2>2. /\ answer' \in [Requests -> Answers]
        /\ pc' \in [Requests -> Places]
        /\ err' \in [Requests -> Codes]
        /\ faults' \in 0..MaxFaults
    BY <1>7, <2>1 DEF SkipAudit, Answer, GoTo, TypeOK, Places
  <2> QED
    BY <1>1, <1>7, <2>2, EndTypes DEF SkipAudit, TypeOK
<1> QED
  BY <1>3, <1>4, <1>5, <1>6, <1>7 DEF Claim

\* A commit of money keeps every balance between zero and MaxBalance.
LEMMA CommitMoneyTypes ==
    ASSUME IInv, NEW r \in Requests, CommitMoney(r)
    PROVE  TypeOK'
<1>1. /\ TypeOK /\ TablesOK
      /\ Cleared(r)
      /\ pc[r] = "write"
      /\ PostMoney(Req[r], seen[r], ref[r]) /\ EndTransaction(r)
      /\ Answer(r, Receipt(ref[r], seen[r][Req[r].wallet].balance + Delta(Req[r], Req[r].wallet)))
      /\ UNCHANGED <<context, err, faults>>
  BY DEF IInv, TypeOK, HandlersAreCleared, CommitMoney
<1>2. /\ EarlyError(Req[r]) = Accepted
      /\ Req[r].wallet \in Wallets /\ Req[r].wallet \in Touched(Req[r])
      /\ \A w \in Touched(Req[r]) : seen[r][w].balance + Delta(Req[r], w) \in 0..MaxBalance
      /\ seen[r] \in [Wallets -> WalletRow] /\ ref[r] \in Refs
  BY <1>1 DEF Cleared, InTransaction, Touched, TypeOK
<1>3. TablesOK'
  BY <1>1, <1>2, PostMoneyTypes
<1>4. /\ answer' \in [Requests -> Answers] /\ pc' \in [Requests -> Places]
      /\ err' \in [Requests -> Codes] /\ faults' \in 0..MaxFaults
  BY <1>1, <1>2, AnswerTypes DEF TypeOK, Answer, GoTo, Places
<1> QED
  BY <1>1, <1>3, <1>4, EndTypes DEF TypeOK

\* A failure record preserves the types.
LEMMA CommitFailureTypes ==
    ASSUME IInv, NEW r \in Requests, CommitFailure(r)
    PROVE  TypeOK'
<1>1. /\ TypeOK /\ TablesOK
      /\ Cleared(r)
      /\ pc[r] = "parents"
      /\ PostFailure(Req[r], err[r], ref[r]) /\ EndTransaction(r)
      /\ Answer(r, ErrorAnswer(err[r]))
      /\ UNCHANGED <<context, err, faults>>
  BY DEF IInv, TypeOK, HandlersAreCleared, CommitFailure
<1>2. EarlyError(Req[r]) = Accepted /\ ref[r] \in Refs /\ err[r] \in Codes
  BY <1>1 DEF Cleared, InTransaction, TypeOK
<1>3. TablesOK'
  BY <1>1, <1>2, PostFailureTypes
<1>4. /\ answer' \in [Requests -> Answers] /\ pc' \in [Requests -> Places]
      /\ err' \in [Requests -> Codes] /\ faults' \in 0..MaxFaults
  BY <1>1, <1>2, AnswerTypes DEF TypeOK, Answer, GoTo, Places
<1> QED
  BY <1>1, <1>3, <1>4, EndTypes DEF TypeOK

\* Every statement preserves the types.
LEMMA ExecuteTypes ==
    ASSUME IInv, NEW r \in Requests, Execute(r)
    PROVE  TypeOK'
<1>1. TypeOK /\ HandlersAreCleared
  BY DEF IInv
<1>2. CASE LockWallet(r)
  <2>1. PICK w \in NextToLock(r) :
          /\ exclusive' = [exclusive EXCEPT ![r] = @ \cup {WalletLock(w)}]
          /\ seen' = [seen EXCEPT ![r][w] = wallet[w]]
    BY <1>2 DEF LockWallet, Lock
  <2>2. w \in Wallets /\ WalletLock(w) \in Rows /\ wallet[w] \in WalletRow
    BY <1>1, RequestTypes, RowsAreDistinct DEF NextToLock, ToLock, TypeOK, TablesOK
  <2>3. exclusive' \in [Requests -> SUBSET Rows] /\ seen' \in [Requests -> [Wallets -> WalletRow]]
    BY <1>1, <2>1, <2>2 DEF TypeOK
  <2> QED
    BY <1>1, <1>2, <2>3 DEF LockWallet, TypeOK, TablesOK, tables, context
<1>3. CASE Reject(r)
  BY <1>1, <1>3, ErrorTypes, RefuseTypes DEF Reject, Verdict
<1>4. CASE Accept(r) \/ Reply(r)
  BY <1>1, <1>4 DEF Accept, Reply, GoTo, TypeOK, TablesOK, tables, context, locks, locals, Places,
     InTransaction
<1>5. CASE Overflow(r)
  BY <1>1, <1>5, AbortTypes DEF Overflow, TypeOK
<1>9. CASE Collide(r)
  BY <1>1, <1>9, AbortTypes DEF Collide, TypeOK
<1>6. CASE StampReference(r)
  <2>1. ref' \in [Requests -> Refs]
    BY <1>1, <1>6 DEF StampReference, TypeOK, TablesOK, Refs
  <2> QED
    BY <1>1, <1>6, <2>1 DEF StampReference, GoTo, TypeOK, TablesOK, tables, context, locks, Places,
       InTransaction
<1>7. CASE TakeReference(r)
  <2>1. ref' \in [Requests -> Refs] /\ ref[r].day \in Days
    <3>1. ref[r] \in Refs /\ ref[r].day \in Days
      BY <1>1 DEF TypeOK, Refs
    <3> DEFINE number == NextNumber(ref[r].day, ref[r].n)
    <3>2. number \in Nat
      BY <1>1, <3>1 DEF TypeOK, TablesOK, Refs, NextNumber
    <3>4. ref' = [ref EXCEPT ![r] = [ref[r] EXCEPT !.n = number]]
      BY <1>1, <1>7 DEF TakeReference, TypeOK
    <3> HIDE DEF number
    <3>3. [ref[r] EXCEPT !.n = number] \in Refs
      BY <3>1, <3>2 DEF Refs
    <3> QED
      BY <1>1, <3>1, <3>3, <3>4 DEF TypeOK
  <2>2. exclusive' \in [Requests -> SUBSET Rows]
    BY <1>1, <1>7, <2>1, RowsAreDistinct DEF TakeReference, Lock, TypeOK
  <2> QED
    BY <1>1, <1>7, <2>1, <2>2 DEF TakeReference, GoTo, TypeOK, TablesOK, tables, context, Places,
       InTransaction
<1>8. CASE LockParent(r)
  <2>1. PICK w \in MissingParents(r) : shared' = [shared EXCEPT ![r] = @ \cup {WalletLock(w)}]
    BY <1>8 DEF LockParent, Share
  <2>2. w \in Wallets
    BY RequestTypes DEF MissingParents, Parents
  <2>3. shared' \in [Requests -> SUBSET Rows]
    BY <1>1, <2>1, <2>2, RowsAreDistinct DEF TypeOK
  <2> QED
    BY <1>1, <1>8, <2>3 DEF LockParent, TypeOK, TablesOK, tables, context, locals
<1> QED
  BY <1>2, <1>3, <1>4, <1>5, <1>6, <1>7, <1>8, <1>9, CommitMoneyTypes, CommitFailureTypes
  DEF Execute

\* Every step of the service preserves the types.
LEMMA NextTypes ==
    ASSUME IInv, [Next]_vars
    PROVE  TypeOK'
<1>1. TypeOK
  BY DEF IInv
<1>2. ASSUME NEW r \in Requests, Handle(r) PROVE TypeOK'
  BY <1>1, <1>2, ClaimTypes, ExecuteTypes DEF Handle
<1>3. ASSUME NEW r \in Requests, DeadlockVictim(r) \/ Fault(r) PROVE TypeOK'
  <2>1. faults' \in 0..MaxFaults
    BY <1>1, <1>3, FaultsAssumption DEF DeadlockVictim, Fault, TypeOK
  <2> QED
    BY <1>1, <1>3, <2>1, AbortTypes DEF DeadlockVictim, Fault
<1>4. ASSUME NEW r \in Requests, Crash(r) PROVE TypeOK'
  <2>1. /\ faults' \in 0..MaxFaults
        /\ answer' \in [Requests -> Answers] /\ pc' \in [Requests -> Places]
        /\ TablesOK' /\ err' \in [Requests -> Codes]
        /\ EndTransaction(r)
    <3>1. NoAnswer \in Answers
      BY AnswerTypes DEF NoAnswer, NoCode, Codes
    <3>2. TablesOK'
      BY <1>1, <1>4 DEF Crash, TypeOK, TablesOK, tables, context
    <3>3. faults' \in 0..MaxFaults
      BY <1>1, <1>4, FaultsAssumption DEF Crash, TypeOK
    <3> QED
      BY <1>1, <1>4, <3>1, <3>2, <3>3 DEF Crash, GoTo, TypeOK, Places
  <2> QED
    BY <1>1, <2>1, EndTypes DEF TypeOK
<1>5. ASSUME NEW w \in Wallets, NEW freeze \in BOOLEAN, FreezeOrUnfreeze(w, freeze) PROVE TypeOK'
  BY <1>1, <1>5, FreezeTypes DEF FreezeOrUnfreeze, Idle, TypeOK, locks, locals
<1>6. CASE ChangeConfig /\ Idle
  BY <1>1, <1>6 DEF ChangeConfig, Idle, TypeOK, TablesOK, tables, locks, locals
<1>7. CASE NextDay /\ Idle
  BY <1>1, <1>7, RulesAssumption DEF NextDay, Idle, TypeOK, TablesOK, Days, tables, locks, locals
<1>8. CASE UNCHANGED vars
  BY <1>1, <1>8 DEF vars, tables, context, locks, locals, TypeOK, TablesOK
<1> QED
  BY <1>2, <1>3, <1>4, <1>5, <1>6, <1>7, <1>8 DEF Next, Finished

-----------------------------------------------------------------------------
(* The inductive invariant.                                                 *)

\* The inductive invariant holds at the start.
LEMMA InitInvariant == Init => IInv
<1>1. ASSUME Init PROVE HandlersAreIsolated /\ HandlersAreCleared
  BY <1>1 DEF Init, HandlersAreIsolated, Isolated, HandlersAreCleared, Cleared, InTransaction
<1> QED
  BY <1>1, InitTypeOK DEF IInv

\* Every step preserves the inductive invariant.
LEMMA InductiveInvariant == IInv /\ [Next]_vars => IInv'
BY NextTypes, NextIsolated DEF IInv

\* The types of every variable, balances between zero and MaxBalance included,
\* hold of every behaviour of any set of requests.
THEOREM TypesHold == Spec => []TypeOK
<1>1. IInv => TypeOK
  BY DEF IInv
<1> QED
  BY InitInvariant, InductiveInvariant, <1>1, PTL DEF Spec

\* Row locks isolate the handlers: what a request has read stays true, its key
\* its own and its number the next one, until it commits.
THEOREM IsolationHolds == Spec => []HandlersAreIsolated
<1>1. IInv => HandlersAreIsolated
  BY DEF IInv
<1> QED
  BY InitInvariant, InductiveInvariant, <1>1, PTL DEF Spec

\* No request writes without having passed every check on what it writes from.
THEOREM ClearanceHolds == Spec => []HandlersAreCleared
<1>1. IInv => HandlersAreCleared
  BY DEF IInv
<1> QED
  BY InitInvariant, InductiveInvariant, <1>1, PTL DEF Spec

-----------------------------------------------------------------------------
(* The ledger and the stored answers.                                       *)

\* A commit of money starts from balances that are still the current ones.
LEMMA CommitFromCurrentRows ==
    ASSUME IInv, NEW r \in Requests, CommitMoney(r)
    PROVE  \A w \in Touched(Req[r]) : w \in Wallets /\ seen[r][w] = wallet[w]
<1>1. pc[r] = "write" /\ err[r] = Accepted /\ Isolated(r)
  BY DEF IInv, HandlersAreIsolated, HandlersAreCleared, Cleared, CommitMoney
<1> QED
  BY <1>1, RequestTypes DEF Isolated

\* The steps other than the two commits and a freeze leave the tables alone.
LEMMA OnlyCommitsWrite ==
    ASSUME [Next]_vars
    PROVE  \/ \E r \in Requests : CommitMoney(r) \/ CommitFailure(r)
           \/ \E w \in Wallets, freeze \in BOOLEAN : FreezeOrUnfreeze(w, freeze)
           \/ UNCHANGED tables
BY DEF Next, Handle, Claim, Execute, Begin, RefuseEarly, InsertKey, MeetInsert, ShareKey, Replay,
   RefuseReusedKey, SkipAudit, LockWallet, Reject, Accept, Overflow, Collide, StampReference, TakeReference,
   LockParent, Reply, DeadlockVictim, Fault, Crash, ChangeConfig, NextDay, Finished, vars

\* Every step preserves the chains of the ledger.
LEMMA LedgerStep == IInv /\ LedgerChain /\ [Next]_vars => LedgerChain'
<1> SUFFICES ASSUME IInv, LedgerChain, [Next]_vars
             PROVE  LedgerChain'
  OBVIOUS
<1>1. wallet \in [Wallets -> WalletRow] /\ ledger \in [Wallets -> Seq(LedgerRows)]
  BY DEF IInv, TypeOK, TablesOK
<1>2. ASSUME NEW r \in Requests, CommitMoney(r) PROVE LedgerChain'
  <2> DEFINE q == Req[r]
             i == Len(transactions) + 1
             leg(w) == LedgerRow(q, w, i, wallet[w].balance)
  <2>1. \A w \in Touched(q) : w \in Wallets /\ seen[r][w] = wallet[w]
    BY <1>2, CommitFromCurrentRows
  <2>2. \A w \in Wallets : w \in Touched(q) =>
           /\ ledger'[w] = Append(ledger[w], leg(w))
           /\ wallet'[w].balance = leg(w).after
           /\ leg(w).before = wallet[w].balance
    BY <1>1, <1>2, <2>1 DEF CommitMoney, PostMoney, LedgerRow, WalletRow
  <2>3. \A w \in Wallets : w \notin Touched(q) => ledger'[w] = ledger[w] /\ wallet'[w] = wallet[w]
    BY <1>2 DEF CommitMoney, PostMoney
  <2> HIDE DEF leg
  <2>4. ASSUME NEW w \in Wallets, w \in Touched(q)
        PROVE  /\ \A j \in DOMAIN ledger'[w] :
                     ledger'[w][j].before =
                        IF j - 1 = 0 THEN Opening[w].balance ELSE ledger'[w][j - 1].after
               /\ wallet'[w].balance =
                     IF Len(ledger'[w]) = 0 THEN Opening[w].balance
                     ELSE ledger'[w][Len(ledger'[w])].after
    <3>1. ledger[w] \in Seq(LedgerRows)
      BY <1>1
    <3>2. /\ \A j \in DOMAIN ledger[w] :
                ledger[w][j].before =
                   IF j - 1 = 0 THEN Opening[w].balance ELSE ledger[w][j - 1].after
          /\ wallet[w].balance = IF Len(ledger[w]) = 0 THEN Opening[w].balance
                                ELSE ledger[w][Len(ledger[w])].after
      BY DEF LedgerChain
    <3>3. /\ Len(ledger'[w]) = Len(ledger[w]) + 1
          /\ ledger'[w][Len(ledger[w]) + 1] = leg(w)
          /\ \A j \in 1..Len(ledger[w]) : ledger'[w][j] = ledger[w][j]
          /\ DOMAIN ledger'[w] = 1..(Len(ledger[w]) + 1)
          /\ DOMAIN ledger[w] = 1..Len(ledger[w])
          /\ Len(ledger[w]) \in Nat
      BY <2>2, <2>4, <3>1
    <3> DEFINE n == Len(ledger[w])
    <3>4. leg(w).before = IF n = 0 THEN Opening[w].balance ELSE ledger[w][n].after
      BY <2>2, <2>4, <3>2
    <3> HIDE DEF n
    <3>5. ASSUME NEW j \in 1..n
          PROVE  ledger'[w][j].before =
                    IF j - 1 = 0 THEN Opening[w].balance ELSE ledger'[w][j - 1].after
      <4>1. j - 1 # 0 => j - 1 \in 1..n
        BY <3>3 DEF n
      <4> QED
        BY <3>2, <3>3, <4>1 DEF n
    <3>6. ledger'[w][n + 1].before =
             IF n = 0 THEN Opening[w].balance ELSE ledger'[w][n].after
      <4>1. n # 0 => n \in 1..n
        BY <3>3 DEF n
      <4> QED
        BY <3>3, <3>4, <4>1 DEF n
    <3>7. \A j \in DOMAIN ledger'[w] : j \in 1..n \/ j = n + 1
      BY <3>3 DEF n
    <3>8. wallet'[w].balance = ledger'[w][Len(ledger'[w])].after /\ Len(ledger'[w]) # 0
      BY <2>2, <2>4, <3>3
    <3>9. ASSUME NEW j \in DOMAIN ledger'[w]
          PROVE  ledger'[w][j].before =
                    IF j - 1 = 0 THEN Opening[w].balance ELSE ledger'[w][j - 1].after
      <4>1. CASE j \in 1..n
        BY <3>5, <4>1
      <4>2. CASE j = n + 1
        <5>1. j - 1 = n
          BY <3>3, <4>2 DEF n
        <5> QED
          BY <3>6, <4>2, <5>1
      <4> QED
        BY <3>7, <4>1, <4>2
    <3> QED
      BY <3>8, <3>9
  <2> QED
    BY <2>3, <2>4 DEF LedgerChain
<1>3. ASSUME NEW r \in Requests, CommitFailure(r) PROVE LedgerChain'
  BY <1>3 DEF CommitFailure, PostFailure, LedgerChain
<1>4. ASSUME NEW w \in Wallets, NEW freeze \in BOOLEAN, FreezeOrUnfreeze(w, freeze)
      PROVE  LedgerChain'
  <2>1. \A v \in Wallets : wallet'[v].balance = wallet[v].balance
    BY <1>1, <1>4 DEF FreezeOrUnfreeze, SetFrozen, WalletRow
  <2> QED
    BY <1>4, <2>1 DEF FreezeOrUnfreeze, SetFrozen, LedgerChain
<1>5. CASE UNCHANGED tables
  BY <1>5 DEF tables, LedgerChain
<1> QED
  BY <1>2, <1>3, <1>4, <1>5, OnlyCommitsWrite

\* No update of a balance is lost: every wallet's ledger is an unbroken chain
\* from its opening balance to its present one.
THEOREM LedgerHolds == Spec => []LedgerChain
<1>1. Init => LedgerChain
  BY RulesAssumption DEF Init, TablesInit, LedgerChain
<1> QED
  BY InitInvariant, InductiveInvariant, <1>1, LedgerStep, PTL DEF Spec

\* A stored answer stays: both commits hold the lock of their key and have seen
\* that it has none.
LEMMA StoredStays ==
    ASSUME IInv, [Next]_vars, NEW k \in UsedKeys, Stored(k)
    PROVE  idem'[k] = idem[k]
<1>1. ASSUME NEW r \in Requests, CommitMoney(r) \/ CommitFailure(r)
      PROVE  idem'[k] = idem[k]
  <2>1. ~Stored(IdemKey(r))
    BY <1>1 DEF IInv, HandlersAreIsolated, Isolated, CommitMoney, CommitFailure
  <2>2. IdemKey(r) # k
    BY <2>1
  <2>3. idem \in [UsedKeys -> IdemRecords]
    BY DEF IInv, TypeOK, TablesOK
  <2> QED
    BY <1>1, <2>2, <2>3 DEF CommitMoney, CommitFailure, PostMoney, PostFailure, IdemKey
<1>2. ASSUME NEW w \in Wallets, NEW freeze \in BOOLEAN, FreezeOrUnfreeze(w, freeze)
      PROVE  idem'[k] = idem[k]
  BY <1>2 DEF FreezeOrUnfreeze, SetFrozen
<1> QED
  BY <1>1, <1>2, OnlyCommitsWrite DEF tables

\* Once a key has an answer it keeps it, whatever retries follow: both commits
\* hold the key's lock and have seen that it has none.
THEOREM StoredAnswersHold == Spec => StoredAnswersNeverChange
<1>1. IInv /\ [Next]_vars => [\A k \in UsedKeys : Stored(k) => idem'[k] = idem[k]]_tables
  BY StoredStays
<1> QED
  BY InitInvariant, InductiveInvariant, <1>1, PTL DEF Spec, StoredAnswersNeverChange

\* A wallet that is not active keeps its balance, except for an administrator's
\* adjustment, however long ago the customer's request was checked.
THEOREM FrozenMoneyHolds == Spec => FrozenMoneyStays
<1> DEFINE Stays == \A w \in Wallets :
                      wallet'[w].balance # wallet[w].balance =>
                         \/ wallet[w].status = "ACTIVE"
                         \/ transactions'[Len(transactions')].type = "BALANCE_ADJUSTMENT"
<1>1. ASSUME IInv, [Next]_vars, NEW w \in Wallets, wallet'[w].balance # wallet[w].balance
      PROVE  \/ wallet[w].status = "ACTIVE"
             \/ transactions'[Len(transactions')].type = "BALANCE_ADJUSTMENT"
  <2>1. wallet \in [Wallets -> WalletRow] /\ transactions \in Seq(TransactionRows)
    BY <1>1 DEF IInv, TypeOK, TablesOK
  <2>2. ASSUME NEW r \in Requests, CommitMoney(r)
        PROVE  \/ wallet[w].status = "ACTIVE"
               \/ transactions'[Len(transactions')].type = "BALANCE_ADJUSTMENT"
    <3>1. w \in Touched(Req[r])
      BY <1>1, <2>2 DEF CommitMoney, PostMoney
    <3>2. seen[r][w] = wallet[w]
      BY <1>1, <2>2, <3>1, CommitFromCurrentRows
    <3>3. Req[r].op \in Audited => seen[r][w].status = "ACTIVE"
      BY <1>1, <2>2, <3>1 DEF IInv, HandlersAreCleared, Cleared, CommitMoney
    <3>4. transactions' = Append(transactions, TransactionRow(Req[r], ref[r], "COMPLETED", today))
      BY <2>2 DEF CommitMoney, PostMoney
    <3>5. Len(transactions') = Len(transactions) + 1
          /\ transactions'[Len(transactions) + 1] = TransactionRow(Req[r], ref[r], "COMPLETED", today)
      BY <2>1, <3>4 DEF TransactionRow
    <3>6. transactions'[Len(transactions')].type = Req[r].op
      BY <3>5 DEF TransactionRow
    <3> QED
      BY <3>2, <3>3, <3>6, RequestTypes DEF Request, Ops, Audited
  <2>3. ASSUME NEW r \in Requests, CommitFailure(r) PROVE FALSE
    BY <1>1, <2>3 DEF CommitFailure, PostFailure
  <2>4. ASSUME NEW v \in Wallets, NEW freeze \in BOOLEAN, FreezeOrUnfreeze(v, freeze) PROVE FALSE
    BY <1>1, <2>1, <2>4 DEF FreezeOrUnfreeze, SetFrozen, WalletRow
  <2> QED
    BY <1>1, <2>2, <2>3, <2>4, OnlyCommitsWrite DEF tables
<1>2. IInv /\ [Next]_vars => [Stays]_tables
  BY <1>1
<1> QED
  BY InitInvariant, InductiveInvariant, <1>2, PTL DEF Spec, FrozenMoneyStays

-----------------------------------------------------------------------------
(* Deadlocks.                                                               *)

\* Before it locks its wallets, a transaction holds at most its key.
Unlocked == {"ready", "insert", "duplicate", "record"}

\* The order a transaction takes its locks in: no key but its own, then the
\* wallets, the least first, then a counter.  Only the audit transaction takes
\* S locks of wallets.
Orderly(r) ==
    /\ \A s \in Requests : KeyLock(s) \in exclusive[r] \cup shared[r] => IdemKey(s) = IdemKey(r)
    /\ \A w \in Wallets :
          /\ WalletLock(w) \in shared[r] => err[r] # Accepted
          /\ WalletLock(w) \in exclusive[r] =>
                /\ pc[r] \notin Unlocked
                /\ pc[r] = "lock" => \A v \in ToLock(r) : w < v
    /\ \A d \in Days : /\ SequenceLock(d) \in exclusive[r] => pc[r] \in {"write", "parents"}
                       /\ SequenceLock(d) \notin shared[r]

LocksAreOrderly == \A r \in Requests : Orderly(r)

\* A request is as orderly as it was while its locks, its place and its error
\* stay as they are.
LEMMA StaysOrderly ==
    ASSUME NEW s \in Requests, Orderly(s),
           exclusive'[s] = exclusive[s], shared'[s] = shared[s],
           pc'[s] = pc[s], err'[s] = err[s]
    PROVE  Orderly(s)'
<1>1. ToLock(s)' = ToLock(s)
  BY DEF ToLock, WalletLock
<1> QED
  BY <1>1 DEF Orderly, KeyLock, IdemKey, WalletLock, SequenceLock, Unlocked

\* A step of one request keeps the order if that request does.
LEMMA OrderOfOne ==
    ASSUME LocksAreOrderly, NEW r \in Requests, Orderly(r)',
           \A s \in Requests \ {r} :
              /\ exclusive'[s] = exclusive[s] /\ shared'[s] = shared[s]
              /\ pc'[s] = pc[s] /\ err'[s] = err[s]
    PROVE  LocksAreOrderly'
BY StaysOrderly DEF LocksAreOrderly

\* A transaction that ends gives everything up.
LEMMA EndKeepsOrder ==
    ASSUME TypeOK, LocksAreOrderly, NEW r \in Requests, EndTransaction(r),
           \A s \in Requests \ {r} : pc'[s] = pc[s] /\ err'[s] = err[s]
    PROVE  LocksAreOrderly'
<1>1. exclusive'[r] = {} /\ shared'[r] = {}
  BY DEF EndTransaction, ReleaseAll, TypeOK
<1>2. Orderly(r)'
  BY <1>1 DEF Orderly
<1>3. \A s \in Requests \ {r} : exclusive'[s] = exclusive[s] /\ shared'[s] = shared[s]
  BY DEF EndTransaction, ReleaseAll, TypeOK
<1> QED
  BY <1>2, <1>3, OrderOfOne

\* A request that only goes on to a later statement keeps the order.
LEMMA MoveKeepsOrder ==
    ASSUME TypeOK, LocksAreOrderly, NEW r \in Requests, NEW place, GoTo(r, place),
           UNCHANGED <<exclusive, shared, err>>,
           place \in Unlocked => pc[r] \in Unlocked,
           place = "lock" => pc[r] \in Unlocked,
           pc[r] \notin {"write", "parents"}
    PROVE  LocksAreOrderly'
<1>1. pc'[r] = place /\ \A s \in Requests \ {r} : pc'[s] = pc[s]
  BY DEF GoTo, TypeOK
<1>2. Orderly(r)'
  BY <1>1 DEF LocksAreOrderly, Orderly, KeyLock, IdemKey, WalletLock, SequenceLock, Unlocked
<1> QED
  BY <1>1, <1>2, OrderOfOne

\* The key is claimed before any wallet is locked.
LEMMA ClaimKeepsOrder ==
    ASSUME IInv, LocksAreOrderly, NEW r \in Requests, Claim(r)
    PROVE  LocksAreOrderly'
<1> USE DEF IInv
<1>0. Orderly(r)
  BY DEF LocksAreOrderly
<1>1. CASE Begin(r)
  BY <1>1, MoveKeepsOrder DEF Begin, locks, locals, Unlocked
<1>2. CASE RefuseEarly(r)
  BY <1>2, MoveKeepsOrder DEF RefuseEarly, Answer, locks, Unlocked
<1>3. CASE InsertKey(r)
  <2>1. /\ exclusive'[r] = exclusive[r] \cup {KeyLock(r)} /\ UNCHANGED <<shared, err>>
        /\ pc[r] = "insert" /\ pc'[r] \in {"lock", "stamp"}
        /\ \A s \in Requests \ {r} : exclusive'[s] = exclusive[s] /\ pc'[s] = pc[s]
    BY <1>3 DEF InsertKey, Lock, GoTo, TypeOK, locals
  <2>2. Orderly(r)'
    BY <1>0, <2>1, RowsAreDistinct
    DEF Orderly, KeyLock, IdemKey, WalletLock, SequenceLock, Unlocked
  <2> QED
    BY <2>1, <2>2, OrderOfOne
<1>4. CASE MeetInsert(r)
  BY <1>4, MoveKeepsOrder DEF MeetInsert, locks, locals, Unlocked
<1>5. CASE ShareKey(r)
  <2>1. /\ shared'[r] = shared[r] \cup {KeyLock(r)} /\ UNCHANGED <<exclusive, err>>
        /\ pc[r] \in Unlocked /\ pc'[r] \in {"record", "insert"}
        /\ \A s \in Requests \ {r} : shared'[s] = shared[s] /\ pc'[s] = pc[s]
    BY <1>5 DEF ShareKey, Share, GoTo, TypeOK, locals, Unlocked
  <2>2. Orderly(r)'
    BY <1>0, <2>1, RowsAreDistinct
    DEF Orderly, KeyLock, IdemKey, WalletLock, SequenceLock, Unlocked
  <2> QED
    BY <2>1, <2>2, OrderOfOne
<1>6. CASE Replay(r) \/ RefuseReusedKey(r) \/ SkipAudit(r)
  <2>1. /\ EndTransaction(r)
        /\ \A s \in Requests \ {r} : pc'[s] = pc[s] /\ err'[s] = err[s]
    BY <1>6 DEF Replay, RefuseReusedKey, SkipAudit, Refuse, Answer, GoTo, TypeOK
  <2> QED
    BY <2>1, EndKeepsOrder
<1> QED
  BY <1>1, <1>2, <1>3, <1>4, <1>5, <1>6 DEF Claim

\* The wallet that is locked next is greater than those locked before.
LEMMA LockWalletKeepsOrder ==
    ASSUME IInv, LocksAreOrderly, NEW r \in Requests, LockWallet(r)
    PROVE  LocksAreOrderly'
<1> USE DEF IInv
<1>1. PICK w \in NextToLock(r) : Lock(r, WalletLock(w))
  BY DEF LockWallet
<1>2. /\ exclusive'[r] = exclusive[r] \cup {WalletLock(w)} /\ UNCHANGED <<shared, pc, err>>
      /\ \A s \in Requests \ {r} : exclusive'[s] = exclusive[s]
      /\ pc[r] = "lock"
  BY <1>1 DEF LockWallet, Lock, TypeOK
<1>3. /\ w \in ToLock(r) /\ \A v \in ToLock(r) : w <= v
      /\ ToLock(r) \subseteq Nat /\ w \in Wallets
  BY RequestTypes, RulesAssumption DEF NextToLock, ToLock
<1>4. ToLock(r)' \subseteq ToLock(r) \ {w}
  BY <1>2 DEF ToLock, WalletLock
<1>5. Orderly(r)
  BY DEF LocksAreOrderly
<1>6. \A v \in ToLock(r)' : w < v
  BY <1>3, <1>4
<1>7. \A u \in Wallets : WalletLock(u) \in exclusive'[r] =>
          u = w \/ WalletLock(u) \in exclusive[r]
  BY <1>2, RowsAreDistinct
<1>8. \A u \in Wallets : WalletLock(u) \in exclusive'[r] => \A v \in ToLock(r)' : u < v
  BY <1>2, <1>4, <1>5, <1>6, <1>7 DEF Orderly
<1>9. Orderly(r)'
  BY <1>2, <1>5, <1>8, RowsAreDistinct
  DEF Orderly, KeyLock, IdemKey, WalletLock, SequenceLock, Unlocked
<1> QED
  BY <1>2, <1>9, OrderOfOne

\* The counter is the last lock a money transaction takes, and an audit
\* transaction takes the wallets after it.
LEMMA ExecuteKeepsOrder ==
    ASSUME IInv, LocksAreOrderly, NEW r \in Requests, Execute(r)
    PROVE  LocksAreOrderly'
<1> USE DEF IInv
<1>0. Orderly(r) /\ Cleared(r)
  BY DEF LocksAreOrderly, HandlersAreCleared
<1>1. CASE Accept(r)
  BY <1>1, MoveKeepsOrder DEF Accept, Checking, locks, locals, Unlocked
<1>2. CASE StampReference(r)
  BY <1>2, MoveKeepsOrder DEF StampReference, locks, Unlocked
<1>3. CASE Reply(r)
  BY <1>3, MoveKeepsOrder DEF Reply, locks, locals, Unlocked
<1>4. CASE TakeReference(r)
  <2>1. /\ exclusive'[r] = exclusive[r] \cup {SequenceLock(ref[r].day)}
        /\ UNCHANGED <<shared, err>>
        /\ pc[r] = "sequence" /\ pc'[r] \in {"write", "parents"}
        /\ \A s \in Requests \ {r} : exclusive'[s] = exclusive[s] /\ pc'[s] = pc[s]
    BY <1>4 DEF TakeReference, Lock, GoTo, TypeOK
  <2>2. Orderly(r)'
    BY <1>0, <2>1, RowsAreDistinct
    DEF Orderly, KeyLock, IdemKey, WalletLock, SequenceLock, Unlocked
  <2> QED
    BY <2>1, <2>2, OrderOfOne
<1>5. CASE LockParent(r)
  <2>1. PICK w \in MissingParents(r) : Share(r, WalletLock(w))
    BY <1>5 DEF LockParent
  <2>2. /\ shared'[r] = shared[r] \cup {WalletLock(w)} /\ UNCHANGED <<exclusive, pc, err>>
        /\ \A s \in Requests \ {r} : shared'[s] = shared[s]
        /\ pc[r] = "parents" /\ err[r] # Accepted
    BY <1>0, <1>5, <2>1 DEF LockParent, Share, TypeOK, locals, Cleared
  <2>3. Orderly(r)'
    BY <1>0, <2>2, RowsAreDistinct
    DEF Orderly, KeyLock, IdemKey, WalletLock, SequenceLock, Unlocked
  <2> QED
    BY <2>2, <2>3, OrderOfOne
<1>6. CASE \/ Reject(r) \/ Overflow(r) \/ Collide(r) \/ CommitMoney(r) \/ CommitFailure(r)
  <2>1. /\ EndTransaction(r)
        /\ \A s \in Requests \ {r} : pc'[s] = pc[s] /\ err'[s] = err[s]
    BY <1>6 DEF Reject, Overflow, Collide, CommitMoney, CommitFailure, Refuse, Abort, Answer,
       GoTo, TypeOK
  <2> QED
    BY <2>1, EndKeepsOrder
<1> QED
  BY <1>1, <1>2, <1>3, <1>4, <1>5, <1>6, LockWalletKeepsOrder DEF Execute

\* Every step keeps the order.
LEMMA NextKeepsOrder == IInv /\ LocksAreOrderly /\ [Next]_vars => LocksAreOrderly'
<1> SUFFICES ASSUME IInv, LocksAreOrderly, [Next]_vars PROVE LocksAreOrderly'
  OBVIOUS
<1> USE DEF IInv
<1>1. ASSUME NEW r \in Requests, Handle(r) PROVE LocksAreOrderly'
  BY <1>1, ClaimKeepsOrder, ExecuteKeepsOrder DEF Handle
<1>2. ASSUME NEW r \in Requests, DeadlockVictim(r) \/ Fault(r) \/ Crash(r)
      PROVE  LocksAreOrderly'
  <2>1. /\ EndTransaction(r)
        /\ \A s \in Requests \ {r} : pc'[s] = pc[s] /\ err'[s] = err[s]
    BY <1>2 DEF DeadlockVictim, Fault, Crash, Abort, Answer, GoTo, TypeOK
  <2> QED
    BY <2>1, EndKeepsOrder
<1>3. CASE UNCHANGED <<exclusive, shared, pc, err>>
  BY <1>3, StaysOrderly DEF LocksAreOrderly
<1> QED
  BY <1>1, <1>2, <1>3 DEF Next, FreezeOrUnfreeze, Idle, Finished, vars, locks, locals

\* The members of a deadlock of money transactions with different keys are all
\* waiting for a wallet, which another of them has locked.
LEMMA WaitingForWallets ==
    ASSUME IInv, LocksAreOrderly, NEW S \in SUBSET Requests, Stuck(S),
           \A r \in S : err[r] = Accepted,
           \A r, s \in S : IdemKey(r) = IdemKey(s) => r = s,
           NEW r \in S
    PROVE  /\ pc[r] = "lock"
           /\ \A s \in Blockers(r) \cap S :
                \E w \in NextToLock(r) : WalletLock(w) \in exclusive[s]
<1> USE DEF IInv
<1>1. ASSUME NEW t \in S
      PROVE  /\ pc[t] \notin {"write", "parents"}
             /\ \A w \in Wallets : WalletLock(w) \notin shared[t]
             /\ \A d \in Days : SequenceLock(d) \notin exclusive[t] \cup shared[t]
             /\ \A s \in S \ {t} : KeyLock(s) \notin exclusive[t] \cup shared[t]
  <2>1. t \in Requests /\ Orderly(t) /\ Cleared(t) /\ err[t] = Accepted
    BY DEF LocksAreOrderly, HandlersAreCleared
  <2>2. pc[t] # "parents"
    BY <2>1 DEF Cleared
  <2>3. pc[t] # "write"
    <3>1. SUFFICES ASSUME pc[t] = "write" PROVE FALSE
      OBVIOUS
    <3>2. WantsExclusive(t) = {} /\ WantsShared(t) = {}
      BY <3>1 DEF WantsExclusive, WantsShared
    <3> QED
      BY <3>2 DEF Stuck, Blockers
  <2> QED
    BY <2>1, <2>2, <2>3 DEF Orderly
<1>2. ASSUME NEW s \in S, s # r
      PROVE  /\ WantsShared(r) \cap exclusive[s] = {}
             /\ pc[r] # "lock" => WantsExclusive(r) \cap (exclusive[s] \cup shared[s]) = {}
  <2>1. /\ KeyLock(r) \notin exclusive[s] \cup shared[s]
        /\ SequenceLock(ref[r].day) \notin exclusive[s] \cup shared[s]
    BY <1>1, <1>2 DEF TypeOK, Refs
  <2>2. pc[r] # "parents"
    BY <1>1
  <2>3. WantsShared(r) \subseteq {KeyLock(r)}
    BY <2>2 DEF WantsShared
  <2>4. pc[r] # "lock" => WantsExclusive(r) \subseteq {KeyLock(r), SequenceLock(ref[r].day)}
    BY DEF WantsExclusive
  <2> QED
    BY <2>1, <2>3, <2>4
<1>3. pc[r] = "lock"
  BY <1>2 DEF Stuck, Blockers
<1>4. ASSUME NEW s \in Blockers(r) \cap S
      PROVE  \E w \in NextToLock(r) : WalletLock(w) \in exclusive[s]
  <2>1. s # r /\ WantsExclusive(r) \cap (exclusive[s] \cup shared[s]) # {}
    BY <1>2 DEF Blockers
  <2>2. WantsExclusive(r) = {WalletLock(w) : w \in NextToLock(r)}
    BY <1>3 DEF WantsExclusive
  <2>3. NextToLock(r) \subseteq Wallets
    BY RequestTypes DEF NextToLock, ToLock
  <2> QED
    BY <1>1, <2>1, <2>2, <2>3
<1> QED
  BY <1>3, <1>4

\* Whoever blocks a member is itself waiting for a greater wallet, so those that
\* wait for a greater wallet than one member does are a smaller deadlock.
LEMMA OrderExplains == IInv /\ LocksAreOrderly => DeadlocksAreExplained
<1> SUFFICES ASSUME IInv, LocksAreOrderly, NEW S \in SUBSET Requests, Cycle(S),
                    \A r \in S : err[r] = Accepted,
                    \A r, s \in S : IdemKey(r) = IdemKey(s) => r = s
             PROVE  FALSE
  BY DEF DeadlocksAreExplained
<1>1. Stuck(S) /\ \A T \in SUBSET S : Stuck(T) => T = S
  BY DEF Cycle
<1> DEFINE Ahead(r) == {t \in S : \E w \in NextToLock(r), v \in NextToLock(t) : w < v}
<1>2. ASSUME NEW r \in S, NEW s \in Blockers(r) \cap S
      PROVE  \E w \in NextToLock(r), v \in NextToLock(s) : w < v
  <2>1. PICK w \in NextToLock(r) : WalletLock(w) \in exclusive[s]
    BY <1>1, <1>2, WaitingForWallets
  <2>2. w \in Wallets /\ w \in ToLock(r)
    BY RequestTypes DEF NextToLock, ToLock
  <2>3. pc[s] = "lock" /\ Orderly(s)
    BY <1>1, WaitingForWallets DEF LocksAreOrderly
  <2>4. \A v \in ToLock(s) : w < v
    BY <2>1, <2>2, <2>3 DEF Orderly
  <2>5. PICK t \in Blockers(s) \cap S : TRUE
    BY <1>1 DEF Stuck
  <2>6. PICK v \in NextToLock(s) : WalletLock(v) \in exclusive[t]
    BY <1>1, <2>5, WaitingForWallets
  <2> QED
    BY <2>4, <2>6 DEF NextToLock
<1>3. ASSUME NEW r \in S, NEW w \in NextToLock(r), NEW v \in NextToLock(r)
      PROVE  w = v /\ w \in Nat
  <2>1. ToLock(r) \subseteq Nat
    BY RequestTypes, RulesAssumption DEF ToLock
  <2> QED
    BY <2>1 DEF NextToLock
<1>4. PICK r \in S : TRUE
  BY <1>1 DEF Stuck
<1>5. r \notin Ahead(r)
  BY <1>3, <1>4
<1>6. Ahead(r) # {}
  <2>1. PICK s \in Blockers(r) \cap S : TRUE
    BY <1>1, <1>4 DEF Stuck
  <2> QED
    BY <1>2, <1>4, <2>1
<1>7. ASSUME NEW t \in Ahead(r) PROVE Blockers(t) \cap Ahead(r) # {}
  <2>1. PICK w \in NextToLock(r), v \in NextToLock(t) : w < v
    OBVIOUS
  <2>2. PICK s \in Blockers(t) \cap S : TRUE
    BY <1>1, <1>7 DEF Stuck
  <2>3. PICK u \in NextToLock(t), x \in NextToLock(s) : u < x
    BY <1>2, <1>7, <2>2
  <2>4. u = v /\ w \in Nat /\ v \in Nat /\ x \in Nat
    BY <1>3, <1>4, <1>7, <2>1, <2>2, <2>3
  <2>5. w < x
    BY <2>1, <2>3, <2>4
  <2> QED
    BY <2>2, <2>3, <2>5
<1>8. Stuck(Ahead(r))
  BY <1>6, <1>7 DEF Stuck
<1> QED
  BY <1>1, <1>4, <1>5, <1>8

\* However many requests touch however many wallets, every deadlock has an audit
\* transaction in it, or two requests with one key: locking wallets in the order
\* of their ids keeps all others apart.
THEOREM DeadlocksHold == Spec => []DeadlocksAreExplained
<1>1. Init => LocksAreOrderly
  BY DEF Init, LocksAreOrderly, Orderly
<1> QED
  BY <1>1, InitInvariant, InductiveInvariant, NextKeepsOrder, OrderExplains, PTL DEF Spec
=============================================================================
