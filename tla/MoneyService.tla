------------------------------ MODULE MoneyService ------------------------------
(****************************************************************************)
(* The money operations of src/wallets/services.py as they run: one process *)
(* per HTTP request, one step per SQL statement that can wait for or take a *)
(* row lock, against InnoDB at READ COMMITTED (Django's default for MySQL). *)
(*                                                                          *)
(* A request runs up to two database transactions.  The first is the        *)
(* decorated function: claim the idempotency key, lock the wallets in id    *)
(* order, check, take a reference, write.  If it raises a DomainError it is *)
(* rolled back, which also gives the key up, and the decorator starts the   *)
(* second one, which claims the key again and records the failure.  err[r]  *)
(* tells the two apart: it is "ok" until the request has been refused.      *)
(*                                                                          *)
(* Uncommitted writes are invisible to everyone else, and every row written *)
(* stays locked until the commit, so the writes of a transaction take place *)
(* in its commit step; seen[r] and ref[r] are the handler's local values.   *)
(****************************************************************************)
EXTENDS WalletTables

CONSTANT
    MaxFaults    \* bound: database faults and worker crashes in a behaviour

ASSUME FaultsAssumption == MaxFaults \in Nat

VARIABLES
    exclusive,     \* exclusive[r]: rows whose X lock r's transaction holds
    shared,        \* shared[r]: rows whose S lock r's transaction holds
    pc,            \* pc[r]: the statement request r is about to execute
    err,           \* err[r]: code of the DomainError being handled, or "ok"
    seen,          \* seen[r][w]: wallet row as r's handler read it
    ref,           \* ref[r]: reference r's transaction has allocated
    answer,        \* answer[r]: what r's client is told
    faults         \* faults and crashes so far

locks    == <<exclusive, shared>>
locals   == <<err, seen, ref, answer>>
vars     == <<tables, context, locks, locals, pc, faults>>

\* Statements at which a database transaction is open.
InTransaction == {"insert", "duplicate", "record", "lock", "stamp", "sequence",
                  "write", "parents"}
Places == InTransaction \cup {"ready", "reply", "done", "dead"}

IdemKey(r) == KeyOf(Req[r])

-----------------------------------------------------------------------------
(* Row locks.                                                               *)

KeyLockPerRequest(r) == <<"key", r>>
KeyLock(r)      == <<"key", IdemKey(r)>>
WalletLock(w)   == <<"wallet", w>>
SequenceLock(d) == <<"sequence", d>>

CanLock(r, row)  == \A s \in Requests \ {r} : row \notin exclusive[s] \cup shared[s]
CanShare(r, row) == \A s \in Requests \ {r} : row \notin exclusive[s]

Lock(r, row)  == exclusive' = [exclusive EXCEPT ![r] = @ \cup {row}]
Share(r, row) == shared' = [shared EXCEPT ![r] = @ \cup {row}]

\* Commit and rollback both release every lock of the transaction.
ReleaseAll(r) == /\ exclusive' = [exclusive EXCEPT ![r] = {}]
                 /\ shared' = [shared EXCEPT ![r] = {}]

LockPeersOnly(r) ==
    {w \in Touched(Req[r]) \ {Req[r].wallet} : WalletLock(w) \notin exclusive[r]}
LockSourceOnly(r) ==
    {w \in Touched(Req[r]) \cap {Req[r].wallet} : WalletLock(w) \notin exclusive[r]}

\* Wallets lock_many has yet to lock for r.  A transfer to the same wallet is
\* refused before it locks any.
ToLock(r) ==
    IF Req[r].op = "TRANSFER" /\ Req[r].wallet = Req[r].peer THEN {}
    ELSE {w \in Touched(Req[r]) : WalletLock(w) \notin exclusive[r]}

NextSourceFirst(r) ==
    IF Req[r].wallet \in ToLock(r) THEN {Req[r].wallet} ELSE ToLock(r)

\* SELECT ... FOR UPDATE ORDER BY id: the least of them.
NextToLock(r) == {w \in ToLock(r) : \A v \in ToLock(r) : w <= v}

\* Wallet rows an inserted FAILED transaction refers to: InnoDB checks a
\* foreign key by taking the parent row's S lock.
Parents(r) == {SourceOf(Req[r]), DestinationOf(Req[r])} \ {NoWallet}
MissingParents(r) == {w \in Parents(r) : WalletLock(w) \notin shared[r]}

\* What r's current statement has to lock before it can finish.
WantsExclusive(r) ==
    CASE pc[r] = "insert"   -> IF Stored(IdemKey(r)) THEN {} ELSE {KeyLock(r)}
      [] pc[r] = "record"   -> {KeyLock(r)}
      [] pc[r] = "lock"     -> {WalletLock(w) : w \in NextToLock(r)}
      [] pc[r] = "sequence" -> {SequenceLock(ref[r].day)}
      [] OTHER              -> {}
WantsShared(r) ==
    CASE pc[r] = "insert"    -> IF Stored(IdemKey(r)) THEN {KeyLock(r)} ELSE {}
      [] pc[r] = "duplicate" -> {KeyLock(r)}
      [] pc[r] = "parents"   -> {WalletLock(w) : w \in MissingParents(r)}
      [] OTHER               -> {}

Blockers(r) == {s \in Requests \ {r} :
                  \/ WantsExclusive(r) \cap (exclusive[s] \cup shared[s]) # {}
                  \/ WantsShared(r) \cap exclusive[s] # {}}

Stuck(S) == S # {} /\ \A r \in S : Blockers(r) \cap S # {}

\* A cycle of the waits-for graph is a least set in which everyone is blocked
\* by another member.
Cycle(S) == Stuck(S) /\ \A T \in SUBSET S : Stuck(T) => T = S

-----------------------------------------------------------------------------
Init ==
    /\ TablesInit
    /\ exclusive = [r \in Requests |-> {}]
    /\ shared = [r \in Requests |-> {}]
    /\ pc = [r \in Requests |-> "ready"]
    /\ err = [r \in Requests |-> Accepted]
    /\ seen = [r \in Requests |-> Opening]
    /\ ref = [r \in Requests |-> NoRef]
    /\ answer = [r \in Requests |-> NoAnswer]
    /\ faults = 0

GoTo(r, place)  == pc' = [pc EXCEPT ![r] = place]
Answer(r, a)    == answer' = [answer EXCEPT ![r] = a] /\ GoTo(r, "reply")

\* The transaction ends and the handler's local values with it.
EndTransaction(r) ==
    /\ ReleaseAll(r)
    /\ seen' = [seen EXCEPT ![r] = Opening]
    /\ ref' = [ref EXCEPT ![r] = NoRef]

\* A DomainError leaves the money transaction: it is rolled back, and an
\* audited operation goes on to the failure record before it answers.
Refuse(r, code) ==
    /\ EndTransaction(r)
    /\ IF Req[r].op \in Audited
       THEN /\ err' = [err EXCEPT ![r] = code]
            /\ GoTo(r, "insert")
            /\ UNCHANGED answer
       ELSE /\ Answer(r, ErrorAnswer(code))
            /\ UNCHANGED err

\* Any other exception: the money transaction is rolled back and the client
\* gets a 500, or the failure record is given up and the refusal stands.
Abort(r) ==
    /\ EndTransaction(r)
    /\ Answer(r, ErrorAnswer(IF err[r] = Accepted THEN "server_error" ELSE err[r]))
    /\ UNCHANGED err

-----------------------------------------------------------------------------
(* Claiming the idempotency key: INSERT IGNORE, then SELECT ... FOR UPDATE. *)

Begin(r) ==
    /\ pc[r] = "ready"
    /\ EarlyError(Req[r]) = Accepted
    /\ GoTo(r, "insert")
    /\ UNCHANGED <<tables, context, locks, locals, faults>>

RefuseEarly(r) ==
    /\ pc[r] = "ready"
    /\ EarlyError(Req[r]) # Accepted
    /\ Answer(r, ErrorAnswer(EarlyError(Req[r])))
    /\ UNCHANGED <<tables, context, locks, err, seen, ref, faults>>

\* The row is inserted, so created is true and its X lock is held.
InsertKey(r) ==
    /\ pc[r] = "insert"
    /\ ~Stored(IdemKey(r))
    /\ CanLock(r, KeyLock(r))
    /\ Lock(r, KeyLock(r))
    /\ GoTo(r, IF err[r] = Accepted THEN "lock" ELSE "stamp")
    /\ UNCHANGED <<tables, context, shared, locals, faults>>

\* The key is in another transaction's uncommitted insert: wait for an S lock.
MeetInsert(r) ==
    /\ pc[r] = "insert"
    /\ ~Stored(IdemKey(r))
    /\ ~CanShare(r, KeyLock(r))
    /\ GoTo(r, "duplicate")
    /\ UNCHANGED <<tables, context, locks, locals, faults>>

\* The S lock of a duplicate key is granted.  If the row has gone because its
\* inserter rolled back, the insert is tried again with that lock in hand.
ShareKey(r) ==
    /\ pc[r] = "duplicate" \/ (pc[r] = "insert" /\ Stored(IdemKey(r)))
    /\ CanShare(r, KeyLock(r))
    /\ Share(r, KeyLock(r))
    /\ GoTo(r, IF Stored(IdemKey(r)) THEN "record" ELSE "insert")
    /\ UNCHANGED <<tables, context, exclusive, locals, faults>>

\* The stored record is locked and read by the money transaction.
ReadRecord(r) ==
    /\ pc[r] = "record"
    /\ CanLock(r, KeyLock(r))
    /\ err[r] = Accepted

\* Same payload: the stored answer is returned, a stored error raised again.
Replay(r) ==
    LET record == idem[IdemKey(r)] IN
    /\ ReadRecord(r)
    /\ record.fingerprint = Fingerprint(Req[r])
    /\ IF record.answer.code = Accepted
       THEN EndTransaction(r) /\ Answer(r, record.answer) /\ UNCHANGED err
       ELSE Refuse(r, record.answer.code)
    /\ UNCHANGED <<tables, context, faults>>

RefuseReusedKey(r) ==
    /\ ReadRecord(r)
    /\ idem[IdemKey(r)].fingerprint # Fingerprint(Req[r])
    /\ Refuse(r, "conflict")
    /\ UNCHANGED <<tables, context, faults>>

OverwriteAnswer(r) ==
    /\ pc[r] = "record"
    /\ CanLock(r, KeyLock(r))
    /\ err[r] # Accepted
    /\ Lock(r, KeyLock(r))
    /\ GoTo(r, "stamp")
    /\ UNCHANGED <<tables, context, shared, locals, faults>>
RetryAudit(r) ==
    /\ pc[r] = "record"
    /\ CanLock(r, KeyLock(r))
    /\ err[r] # Accepted
    /\ Refuse(r, err[r])
    /\ UNCHANGED <<tables, context, faults>>

\* The audit transaction finds the key answered or used by another payload.
SkipAudit(r) ==
    /\ pc[r] = "record"
    /\ CanLock(r, KeyLock(r))
    /\ err[r] # Accepted
    /\ EndTransaction(r)
    /\ Answer(r, ErrorAnswer(err[r]))
    /\ UNCHANGED <<tables, context, err, faults>>

-----------------------------------------------------------------------------
(* The money transaction, once the key is inserted.                         *)

ReadThenLock(r) ==
    /\ pc[r] = "lock"
    /\ \E w \in NextToLock(r) :
         /\ CanLock(r, WalletLock(w))
         /\ Lock(r, WalletLock(w))
         /\ seen' = IF \E v \in Wallets : WalletLock(v) \in exclusive[r] THEN seen
                    ELSE [seen EXCEPT ![r] = wallet]
    /\ UNCHANGED <<tables, context, shared, err, ref, answer, pc, faults>>
LockWallet(r) ==
    /\ pc[r] = "lock"
    /\ \E w \in NextToLock(r) :
         /\ CanLock(r, WalletLock(w))
         /\ Lock(r, WalletLock(w))
         /\ seen' = [seen EXCEPT ![r][w] = wallet[w]]
    /\ UNCHANGED <<tables, context, shared, err, ref, answer, pc, faults>>

SpentToday(r) == DailyCompletedTotal(transactions, Req[r].wallet, Req[r].op, today)
Verdict(r)    == BusinessError(Req[r], seen[r], SpentToday(r), config)

Checking(r) == pc[r] = "lock" /\ ToLock(r) = {}

Reject(r) ==
    /\ Checking(r)
    /\ Verdict(r) # Accepted
    /\ Refuse(r, Verdict(r))
    /\ UNCHANGED <<tables, context, faults>>

Accept(r) ==
    /\ Checking(r)
    /\ Verdict(r) = Accepted
    /\ ~Overflows(Req[r], seen[r])
    /\ GoTo(r, "stamp")
    /\ UNCHANGED <<tables, context, locks, locals, faults>>

\* Saving the balance raises decimal.InvalidOperation.
Overflow(r) ==
    /\ Checking(r)
    /\ Verdict(r) = Accepted
    /\ Overflows(Req[r], seen[r])
    /\ Abort(r)
    /\ UNCHANGED <<tables, context, faults>>

\* What LAST_INSERT_ID() returns after the upsert of day d's row.  An upsert that
\* finds the row leaves LAST_INSERT_ID(last_value + 1).  One that inserts it
\* generates the row's id, and a generated AUTO_INCREMENT value takes precedence
\* over the LAST_INSERT_ID(1) of the same statement.
NextNumber(d, id) == IF sequence[d] = 0 THEN id ELSE sequence[d] + 1

ReadCounter(r) ==
    /\ pc[r] = "stamp"
    /\ ids' = ids + 1
    /\ ref' = [ref EXCEPT ![r] = [day |-> today, n |-> NextNumber(today, ids')]]
    /\ GoTo(r, IF err[r] = Accepted THEN "write" ELSE "parents")
    /\ UNCHANGED <<tables, config, inForce, today, locks, err, seen, answer, faults>>

\* next_reference reads the date once, then waits for that day's counter.  The
\* upsert reserves a row id before it knows whether it will need one; ref[r].n
\* holds it meanwhile.
StampReference(r) ==
    /\ pc[r] = "stamp"
    /\ ids' = ids + 1
    /\ ref' = [ref EXCEPT ![r] = [day |-> today, n |-> ids']]
    /\ GoTo(r, "sequence")
    /\ UNCHANGED <<tables, config, inForce, today, locks, err, seen, answer, faults>>

TakeReference(r) ==
    /\ pc[r] = "sequence"
    /\ CanLock(r, SequenceLock(ref[r].day))
    /\ Lock(r, SequenceLock(ref[r].day))
    /\ ref' = [ref EXCEPT ![r].n = NextNumber(ref[r].day, @)]
    /\ GoTo(r, IF err[r] = Accepted THEN "write" ELSE "parents")
    /\ UNCHANGED <<tables, context, shared, err, seen, answer, faults>>

\* UNIQUE(reference) refuses the transaction row: IntegrityError.
Collides(r) == \E i \in DOMAIN transactions : transactions[i].reference = ref[r]
Collide(r) ==
    /\ pc[r] \in {"write", "parents"}
    /\ Collides(r)
    /\ Abort(r)
    /\ UNCHANGED <<tables, context, faults>>

\* The writes of an accepted request, and its commit.
CommitMoney(r) ==
    /\ pc[r] = "write"
    /\ ~Collides(r)
    /\ PostMoney(Req[r], seen[r], ref[r])
    /\ EndTransaction(r)
    /\ Answer(r, Receipt(ref[r], seen[r][Req[r].wallet].balance + Delta(Req[r], Req[r].wallet)))
    /\ UNCHANGED <<context, err, faults>>

-----------------------------------------------------------------------------
(* The audit transaction of a refused request.                              *)

LockParent(r) ==
    /\ pc[r] = "parents"
    /\ ~Collides(r)
    /\ \E w \in MissingParents(r) :
         /\ CanShare(r, WalletLock(w))
         /\ Share(r, WalletLock(w))
    /\ UNCHANGED <<tables, context, exclusive, locals, pc, faults>>

CommitFailure(r) ==
    /\ pc[r] = "parents"
    /\ ~Collides(r)
    /\ MissingParents(r) = {}
    /\ PostFailure(Req[r], err[r], ref[r])
    /\ EndTransaction(r)
    /\ Answer(r, ErrorAnswer(err[r]))
    /\ UNCHANGED <<context, err, faults>>

-----------------------------------------------------------------------------
(* Answers, and what can go wrong under a request.                          *)

Reply(r) ==
    /\ pc[r] = "reply"
    /\ GoTo(r, "done")
    /\ UNCHANGED <<tables, context, locks, locals, faults>>

\* InnoDB finds a cycle as soon as it closes and rolls one member back.
DeadlockVictim(r) ==
    /\ \E S \in SUBSET Requests : r \in S /\ Cycle(S)
    /\ Abort(r)
    /\ UNCHANGED <<tables, context, faults>>

\* A lost connection, a lock wait timeout: the statement raises.
Fault(r) ==
    /\ faults < MaxFaults
    /\ pc[r] \in InTransaction
    /\ faults' = faults + 1
    /\ Abort(r)
    /\ UNCHANGED <<tables, context>>

\* The worker dies: the server rolls back what it had open, and the client
\* never gets its answer.
Crash(r) ==
    /\ faults < MaxFaults
    /\ pc[r] \in InTransaction \cup {"reply"}
    /\ faults' = faults + 1
    /\ EndTransaction(r)
    /\ answer' = [answer EXCEPT ![r] = NoAnswer]
    /\ GoTo(r, "dead")
    /\ UNCHANGED <<tables, context, err>>

-----------------------------------------------------------------------------
(* Administrators and time.                                                 *)

Idle == UNCHANGED <<locks, locals, pc, faults>>

\* set_wallet_frozen takes one row lock and then waits for nothing more, so it
\* is a single step, possible when no request holds the row.
FreezeOrUnfreeze(w, freeze) ==
    /\ \A r \in Requests : WalletLock(w) \notin exclusive[r] \cup shared[r]
    /\ SetFrozen(w, freeze)
    /\ Idle

Finished ==
    /\ \A r \in Requests : pc[r] \in {"done", "dead"}
    /\ UNCHANGED vars

-----------------------------------------------------------------------------
Claim(r) == \/ Begin(r) \/ RefuseEarly(r) \/ InsertKey(r) \/ MeetInsert(r)
            \/ ShareKey(r) \/ Replay(r) \/ RefuseReusedKey(r) \/ SkipAudit(r)

Execute(r) == \/ LockWallet(r) \/ Reject(r) \/ Accept(r) \/ Overflow(r)
              \/ StampReference(r) \/ TakeReference(r) \/ Collide(r) \/ CommitMoney(r)
              \/ LockParent(r) \/ CommitFailure(r) \/ Reply(r)

Handle(r) == Claim(r) \/ Execute(r)

Next ==
    \/ \E r \in Requests : \/ Handle(r)
                           \/ DeadlockVictim(r) \/ Fault(r) \/ Crash(r)
    \/ \E w \in Wallets, freeze \in BOOLEAN : FreezeOrUnfreeze(w, freeze)
    \/ ChangeConfig /\ Idle
    \/ NextDay /\ Idle
    \/ Finished

Spec == Init /\ [][Next]_vars

\* A worker thread that can run its next statement does so, and InnoDB breaks
\* every deadlock.  Faults, administrators and time are under no obligation.
Fairness == /\ \A r \in Requests : WF_vars(Handle(r))
            /\ WF_vars(\E r \in Requests : DeadlockVictim(r))

FairSpec == Spec /\ Fairness

-----------------------------------------------------------------------------
(* Types.                                                                   *)

Rows == ({"key"} \X UsedKeys) \cup ({"wallet"} \X Wallets) \cup ({"sequence"} \X Days)

\* Every variable has its type; see TablesOK for what that says of balances.
TypeOK ==
    /\ TablesOK
    /\ exclusive \in [Requests -> SUBSET Rows]
    /\ shared \in [Requests -> SUBSET Rows]
    /\ pc \in [Requests -> Places]
    /\ err \in [Requests -> Codes]
    /\ seen \in [Requests -> [Wallets -> WalletRow]]
    /\ ref \in [Requests -> Refs]
    /\ answer \in [Requests -> Answers]
    /\ faults \in 0..MaxFaults

-----------------------------------------------------------------------------
(* Idempotency.                                                             *)

\* A client that is told its money moved can rely on it: the receipt is the
\* stored answer of its key, and it names a completed transaction that did what
\* this client asked for, not what another request with the same key did.
ReceiptsAreDurable ==
    \A r \in Requests :
        answer[r].code = Accepted =>
            LET record == idem[IdemKey(r)]
                done   == transactions[record.transaction]
            IN  /\ record.answer = answer[r]
                /\ done = TransactionRow(Req[r], answer[r].reference, "COMPLETED", done.created)

\* Without faults, a refusal an audited operation has answered is the stored
\* answer of its key (README.md:162).  A reused key is not a refusal of the
\* stored request, and early refusals are never recorded.
FailuresAreRecorded ==
    \A r \in Requests :
        pc[r] = "done" /\ err[r] \in BusinessCodes /\ faults = 0 =>
            Stored(IdemKey(r))

\* Identical requests that were both given a final answer got the same one
\* (tests/integration/test_concurrency_expanded.py:49).
IdenticalRequestsAgree ==
    \A r, s \in Requests :
        /\ IdemKey(r) = IdemKey(s) /\ Fingerprint(Req[r]) = Fingerprint(Req[s])
        /\ pc[r] = "done" /\ pc[s] = "done"
        /\ {answer[r].code, answer[s].code} \subseteq BusinessCodes \cup {Accepted}
        => answer[r] = answer[s]

\* The atomic daily counter never hands out a reference of that day that a
\* committed transaction already carries (README.md:160).
AllocatedReferencesAreNew ==
    \A r \in Requests : pc[r] \in {"write", "parents"} => ~Collides(r)

-----------------------------------------------------------------------------
(* Locks.                                                                   *)

\* Locking wallets in id order, after the key and before the counter, is
\* enough for the money transactions among themselves: every deadlock has an
\* audit transaction in it, or two requests with one key (README.md:158).
DeadlocksAreExplained ==
    \A S \in SUBSET Requests :
        Cycle(S) => \/ \E r \in S : err[r] # Accepted
                    \/ \E r, s \in S : r # s /\ IdemKey(r) = IdemKey(s)

Isolated(r) ==
    /\ \A s \in Requests \ {r} : exclusive[r] \cap (exclusive[s] \cup shared[s]) = {}
    /\ \A w \in Wallets : WalletLock(w) \in exclusive[r] => seen[r][w] = wallet[w]
    /\ pc[r] \in {"lock", "stamp", "sequence", "write", "parents"} =>
          KeyLock(r) \in exclusive[r] /\ ~Stored(IdemKey(r))
    /\ pc[r] \in {"stamp", "sequence", "write"} /\ err[r] = Accepted =>
          \A w \in Touched(Req[r]) : WalletLock(w) \in exclusive[r]
    /\ pc[r] \in {"write", "parents"} =>
          /\ SequenceLock(ref[r].day) \in exclusive[r]
          /\ sequence[ref[r].day] = 0 \/ ref[r].n = sequence[ref[r].day] + 1

\* What a handler relies on between its statements stays true until it commits:
\* a wallet row it has locked is still the row it read; its key stays unanswered
\* and its own; all its wallets are locked from the checks to the commit; and the
\* number it was given is the next one of that day, if the day has one yet.
HandlersAreIsolated == \A r \in Requests : Isolated(r)

Cleared(r) ==
    /\ pc[r] \in InTransaction => EarlyError(Req[r]) = Accepted
    /\ pc[r] \in {"lock", "write"} => err[r] = Accepted
    /\ pc[r] = "parents" => err[r] # Accepted
    /\ pc[r] \in {"stamp", "sequence", "write"} /\ err[r] = Accepted =>
          /\ {Req[r].wallet, Req[r].peer} \subseteq Wallets
          /\ \A w \in Touched(Req[r]) :
                /\ seen[r][w].balance + Delta(Req[r], w) \in 0..MaxBalance
                /\ Req[r].op \in Audited => seen[r][w].status = "ACTIVE"

\* A request reaches its commit only with its checks behind it, and they are
\* true of the values it is about to write from: nothing is debited below zero
\* or credited past the largest balance, and a customer's wallets are active.
\* The branch it is on agrees with whether it has been refused.
HandlersAreCleared == \A r \in Requests : Cleared(r)

Decided(r) ==
    pc[r] \in {"stamp", "sequence", "write"} /\ err[r] = Accepted =>
        /\ \E c \in inForce : BusinessError(Req[r], wallet, SpentToday(r), c) = Accepted
        /\ ~Overflows(Req[r], wallet)

\* A decision stands until its commit: the committed rows, the day's total and
\* a limit that is or was in force would let the request pass once more, although
\* others have committed, wallets were frozen and midnight has gone by since.
DecisionsStand == \A r \in Requests : Decided(r)

\* The inductive invariant.
IInv == TypeOK /\ HandlersAreIsolated /\ HandlersAreCleared

\* Every request is answered, or its worker has died.
EveryRequestEnds == \A r \in Requests : <>(pc[r] \in {"done", "dead"})

-----------------------------------------------------------------------------
(* Refinement.                                                              *)

Atomic == INSTANCE AtomicWallet

\* Seen through its committed tables, the concurrent service behaves as if it
\* served one request at a time: what a request checked under its locks still
\* holds of the tables it commits to.
ServesAtomically == Atomic!Spec
=============================================================================
