--------------------------- MODULE WalletActivation ---------------------------
(****************************************************************************)
(* create_wallet and set_wallet_frozen (src/wallets/services.py) as they    *)
(* run: one process per call, one step per statement that can wait for or   *)
(* take a lock, against InnoDB at READ COMMITTED.                           *)
(*                                                                          *)
(* The slot of a call is the (owner, active_currency) pair it inserts into  *)
(* or deletes from the unique index.  A call that fills a slot scans the    *)
(* index for duplicates first.  If the index holds an entry for the slot,   *)
(* be it live, uncommitted or marked deleted by a freeze, the scan takes a  *)
(* shared lock on it, which the insertion then has to upgrade.              *)
(****************************************************************************)
EXTENDS WalletDirectory

CONSTANT
    MaxFaults    \* bound: database faults and worker crashes in a behaviour

ASSUME FaultsAssumption == MaxFaults \in Nat

VARIABLES
    pc,          \* pc[r]: the statement call r is about to execute
    rowLocks,    \* calls whose transaction holds the X lock of its wallet row
    shared,      \* calls whose transaction holds the S lock of its slot
    exclusive,   \* calls whose transaction holds the X lock of its slot
    faults       \* faults and crashes so far

locks == <<rowLocks, shared, exclusive>>
vars  == <<directory, pc, locks, faults>>

\* Statements at which a database transaction is open.
InTransaction == {"lock", "check", "claim", "scan", "write"}
Places == InTransaction \cup {"refused", "lookup", "done", "dead"}

Fills(r) == Req[r].op # "FREEZE"

SlotOf(r) ==
    IF Req[r].op = "CREATE" THEN <<Req[r].actor, Req[r].currency>>
    ELSE <<wallets[Req[r].wallet].owner, wallets[Req[r].wallet].currency>>

SlotTaken(r) == Occupied(SlotOf(r)[1], SlotOf(r)[2])

\* The other calls of S that are after the same slot, or the same row.
SameSlot(S, r) == {s \in S \ {r} : SlotOf(s) = SlotOf(r)}
SameRow(S, r)  == {s \in S \ {r} : Req[s].wallet = Req[r].wallet}

\* The unique index has an entry for the slot: some wallet is or was active in
\* it, or an uncommitted one is.
HasEntry(r) ==
    \/ SameSlot(exclusive, r) # {}
    \/ \E i \in DOMAIN wallets : <<wallets[i].owner, wallets[i].currency>> = SlotOf(r)

\* Whose locks r's current statement waits for.
Blockers(r) ==
    CASE pc[r] = "lock"  -> SameRow(rowLocks, r)
      [] pc[r] = "scan"  -> SameSlot(exclusive, r)
      [] pc[r] = "claim" -> SameSlot(exclusive \cup shared, r)
      [] OTHER           -> {}

Stuck(S) == S # {} /\ \A r \in S : Blockers(r) \cap S # {}
Cycle(S) == Stuck(S) /\ \A T \in SUBSET S : Stuck(T) => T = S

-----------------------------------------------------------------------------
\* A call starts with the checks that read no row.  It shares nothing with the
\* others before its first statement, so it is there from the start.
Start(r) == IF EarlyRefusal(Req[r]) # Done THEN "refused"
            ELSE IF Req[r].op = "CREATE" THEN "claim" ELSE "lock"

ActivationInit ==
    /\ Init
    /\ pc = [r \in Requests |-> Start(r)]
    /\ rowLocks = {}
    /\ shared = {}
    /\ exclusive = {}
    /\ faults = 0

GoTo(r, place) == pc' = [pc EXCEPT ![r] = place]

\* Commit and rollback both release every lock of the transaction.
ReleaseAll(r) == /\ rowLocks' = rowLocks \ {r}
                 /\ shared' = shared \ {r}
                 /\ exclusive' = exclusive \ {r}

\* The transaction ends without a trace and the caller is told a.
End(r, a) ==
    /\ ReleaseAll(r)
    /\ Answer(r, a)
    /\ GoTo(r, "done")
    /\ UNCHANGED <<wallets, audits>>

\* An exception from the database.  create_wallet catches any exception of its
\* insert and looks for the reason once that has been rolled back.
Abort(r) ==
    IF Req[r].op = "CREATE" /\ pc[r] # "lookup"
    THEN ReleaseAll(r) /\ GoTo(r, "lookup") /\ UNCHANGED directory
    ELSE End(r, "server_error")

-----------------------------------------------------------------------------
RefuseEarly(r) ==
    /\ pc[r] = "refused"
    /\ End(r, EarlyRefusal(Req[r]))
    /\ UNCHANGED faults

\* lock_many of the one wallet, and the same without FOR UPDATE.
ReadRow(r) ==
    /\ pc[r] = "lock"
    /\ Req[r].wallet \in DOMAIN wallets
    /\ GoTo(r, "check")
    /\ UNCHANGED <<directory, locks, faults>>
LockRow(r) ==
    /\ pc[r] = "lock"
    /\ Req[r].wallet \in DOMAIN wallets
    /\ SameRow(rowLocks, r) = {}
    /\ rowLocks' = rowLocks \cup {r}
    /\ GoTo(r, "check")
    /\ UNCHANGED <<directory, shared, exclusive, faults>>

NotFound(r) ==
    /\ pc[r] = "lock"
    /\ Req[r].wallet \notin DOMAIN wallets
    /\ End(r, "not_found")
    /\ UNCHANGED faults

\* The status is that of the locked row; the other active wallet is looked for
\* by a plain query, which sees committed rows and locks nothing.
Check(r) ==
    /\ pc[r] = "check"
    /\ IF StatusConflict(Req[r]) THEN End(r, "conflict")
       ELSE GoTo(r, "claim") /\ UNCHANGED <<directory, locks>>
    /\ UNCHANGED faults

-----------------------------------------------------------------------------
(* The unique index.                                                        *)

\* The duplicate scan meets an entry and asks for its S lock.
Scan(r) ==
    /\ pc[r] = "claim"
    /\ Fills(r) /\ r \notin shared
    /\ HasEntry(r)
    /\ GoTo(r, "scan")
    /\ UNCHANGED <<directory, locks, faults>>

\* The entry turns out to be marked deleted, or to have been rolled back.
ShareSlot(r) ==
    /\ pc[r] = "scan"
    /\ SameSlot(exclusive, r) = {}
    /\ ~SlotTaken(r)
    /\ shared' = shared \cup {r}
    /\ GoTo(r, "claim")
    /\ UNCHANGED <<directory, rowLocks, exclusive, faults>>

\* The entry is live: IntegrityError, or another attempt.
InsertAgain(r) ==
    /\ pc[r] = "scan"
    /\ SameSlot(exclusive, r) = {}
    /\ SlotTaken(r)
    /\ GoTo(r, "claim")
    /\ UNCHANGED <<directory, locks, faults>>
Duplicate(r) ==
    /\ pc[r] = "scan"
    /\ SameSlot(exclusive, r) = {}
    /\ SlotTaken(r)
    /\ Abort(r)
    /\ UNCHANGED faults

\* The entry is inserted, or marked deleted by a freeze; and the same without the
\* unique constraint.
InsertEntry(r) ==
    /\ pc[r] = "claim"
    /\ exclusive' = exclusive \cup {r}
    /\ GoTo(r, "write")
    /\ UNCHANGED <<directory, rowLocks, shared, faults>>
ClaimSlot(r) ==
    /\ pc[r] = "claim"
    /\ SameSlot(exclusive \cup shared, r) = {}
    /\ Fills(r) => ~SlotTaken(r)
    /\ exclusive' = exclusive \cup {r}
    /\ GoTo(r, "write")
    /\ UNCHANGED <<directory, rowLocks, shared, faults>>

\* The row, the audit row of a change of status, and the commit.
Commit(r) ==
    /\ pc[r] = "write"
    /\ Write(Req[r])
    /\ ReleaseAll(r)
    /\ Answer(r, Done)
    /\ GoTo(r, "done")
    /\ UNCHANGED faults

\* create_wallet's query after its insert has failed, in autocommit.
Lookup(r) ==
    /\ pc[r] = "lookup"
    /\ End(r, IF SlotTaken(r) THEN "conflict" ELSE "server_error")
    /\ UNCHANGED faults

-----------------------------------------------------------------------------
DeadlockVictim(r) ==
    /\ \E S \in SUBSET Requests : r \in S /\ Cycle(S)
    /\ Abort(r)
    /\ UNCHANGED faults

\* A lost connection or a lock wait timeout.
Fault(r) ==
    /\ faults < MaxFaults
    /\ pc[r] \in InTransaction \cup {"lookup"}
    /\ faults' = faults + 1
    /\ Abort(r)

\* The worker dies and never answers; its transaction is rolled back.
Crash(r) ==
    /\ faults < MaxFaults
    /\ pc[r] \in InTransaction \cup {"lookup"}
    /\ faults' = faults + 1
    /\ ReleaseAll(r)
    /\ GoTo(r, "dead")
    /\ UNCHANGED directory

Finished ==
    /\ \A r \in Requests : pc[r] \in {"done", "dead"}
    /\ UNCHANGED vars

Handle(r) == \/ RefuseEarly(r) \/ LockRow(r) \/ NotFound(r) \/ Check(r)
             \/ Scan(r) \/ ShareSlot(r) \/ Duplicate(r) \/ ClaimSlot(r)
             \/ Commit(r) \/ Lookup(r)

ActivationNext ==
    \/ \E r \in Requests : Handle(r) \/ DeadlockVictim(r) \/ Fault(r) \/ Crash(r)
    \/ Finished

ActivationSpec == ActivationInit /\ [][ActivationNext]_vars

\* As in MoneyService: threads run, free locks are granted, deadlocks broken.
Fairness == /\ \A r \in Requests : WF_vars(Handle(r))
            /\ WF_vars(\E r \in Requests : DeadlockVictim(r))

FairActivationSpec == ActivationSpec /\ Fairness

-----------------------------------------------------------------------------
\* Every variable has its type, and active_currency is that of the status.
TypeOK ==
    /\ wallets \in Seq(Row)
    /\ \A i \in DOMAIN wallets :
          wallets[i].active = ActiveCurrency(wallets[i].currency, wallets[i].status)
    /\ audits \in Seq([wallet : Nat \ {0}, action : {"FREEZE", "UNFREEZE"},
                       administrator : Admins])
    /\ answer \in [Requests -> Answers]
    /\ pc \in [Requests -> Places]
    /\ {rowLocks, shared, exclusive} \subseteq SUBSET Requests
    /\ faults \in 0..MaxFaults

Claimed(r) ==
    /\ pc[r] \in {"refused", "lookup", "dead"} \cup InTransaction => answer[r] = NoAnswer
    /\ pc[r] \in InTransaction \cup {"lookup"} => EarlyRefusal(Req[r]) = Done
    /\ pc[r] = "refused" => EarlyRefusal(Req[r]) # Done
    /\ pc[r] \in {"lock", "check"} => Req[r].op # "CREATE"
    /\ pc[r] = "lookup" => Req[r].op = "CREATE"
    /\ pc[r] \in {"scan", "claim", "write"} /\ Req[r].op # "CREATE" =>
          wallets[Req[r].wallet].status = Expected(Req[r])
    /\ pc[r] \in {"check", "scan", "claim", "write"} /\ Req[r].op # "CREATE" =>
          r \in rowLocks /\ Req[r].wallet \in DOMAIN wallets
    /\ pc[r] = "write" <=> r \in exclusive
    /\ pc[r] = "write" /\ Fills(r) => ~SlotTaken(r)

\* Between the check and the commit of a call nobody else changes the status
\* of its wallet or takes the slot it has claimed, although the query for
\* another active wallet locks nothing.
ClaimsHold ==
    /\ \A r \in Requests : Claimed(r)
    /\ \A r, s \in rowLocks : Req[r].wallet = Req[s].wallet => r = s
    /\ \A r, s \in exclusive : SlotOf(r) = SlotOf(s) => r = s

\* Concurrent calls take effect, and are refused, as if served one at a time.
Directory == INSTANCE WalletDirectory
ActivatesAtomically == Directory!Spec

\* Every call ends.
EveryCallEnds == \A r \in Requests : <>(pc[r] \in {"done", "dead"})

\* Without faults, an unfreeze that fails beside another active wallet is told
\* so by a ConflictError, never by an IntegrityError
\* (tests/integration/test_admin_and_states_expanded.py:60).
DuplicatesAreConflicts ==
    \A r \in Requests :
        Req[r].op = "UNFREEZE" /\ faults = 0 /\ OccupiedByOther(Req[r].wallet)
        => answer[r] # "server_error"
=============================================================================
