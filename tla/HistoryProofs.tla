----------------------------- MODULE HistoryProofs -----------------------------
(****************************************************************************)
(* Proofs about History: what the reader of a list is shown, and what the   *)
(* histories tell, whatever AtomicWallet does to the tables meanwhile.      *)
(****************************************************************************)
EXTENDS History, RulesProofs

-----------------------------------------------------------------------------
(* The tables.                                                              *)

\* References are drawn from their type.
LEMMA NextReferencesAreRefs == TablesOK => NextReferences \subseteq Refs
<1> SUFFICES ASSUME TablesOK, NEW x \in NextReferences PROVE x \in Refs
  OBVIOUS
<1>1. /\ today \in Nat /\ today <= LastDay /\ LastDay \in Nat /\ ids \in Nat
      /\ \A d \in 0..today : d \in Days /\ sequence[d] \in Nat
  BY RulesAssumption DEF TablesOK, Days
<1>2. CASE \E d \in 0..today : x = [day |-> d, n |-> sequence[d] + 1]
  BY <1>1, <1>2 DEF Refs
<1>3. CASE \E d \in 0..today, n \in 1..ids : x = [day |-> d, n |-> n]
  <2>1. PICK d \in 0..today, n \in 1..ids : x = [day |-> d, n |-> n]
    BY <1>3
  <2>2. d \in Days /\ n \in Nat
    BY <1>1
  <2> QED
    BY <2>1, <2>2 DEF Refs
<1> QED
  BY <1>2, <1>3 DEF NextReferences

\* A performed request is applied to the wallets as they are.
LEMMA PerformedRequest ==
    ASSUME TablesOK, NEW r \in Requests, Perform(Req[r])
    PROVE  /\ EarlyError(Req[r]) = Accepted /\ ~Stored(KeyOf(Req[r]))
           /\ \E reference \in Refs : PostMoney(Req[r], wallet, reference)
           /\ UNCHANGED context
           /\ {Req[r].wallet, Req[r].peer} \subseteq Wallets
           /\ ~(Req[r].op = "TRANSFER" /\ Req[r].wallet = Req[r].peer)
           /\ \A w \in Touched(Req[r]) : wallet[w].balance + Delta(Req[r], w) \in 0..MaxBalance
<1>1. /\ EarlyError(Req[r]) = Accepted /\ ~Stored(KeyOf(Req[r]))
      /\ \E reference \in Refs : PostMoney(Req[r], wallet, reference)
      /\ UNCHANGED context
  BY NextReferencesAreRefs DEF Perform
<1>2. PICK c \in inForce :
        BusinessError(Req[r], wallet,
                      DailyCompletedTotal(transactions, Req[r].wallet, Req[r].op, today), c) = Accepted
  BY DEF Perform
<1>3. ~Overflows(Req[r], wallet) /\ wallet \in [Wallets -> WalletRow]
  BY DEF Perform, TablesOK
<1> QED
  BY <1>1, <1>2, <1>3, AcceptedRequest

\* A refusal on record has the payload of its request and no balance.
LEMMA RecordedRequest ==
    ASSUME TablesOK, NEW r \in Requests, Record(Req[r])
    PROVE  /\ EarlyError(Req[r]) = Accepted /\ ~Stored(KeyOf(Req[r]))
           /\ \E code \in BusinessCodes, reference \in Refs : PostFailure(Req[r], code, reference)
           /\ UNCHANGED context
BY NextReferencesAreRefs DEF Record

\* Every step of AtomicWallet keeps the types of the tables.
LEMMA NextTypes ==
    ASSUME TablesOK, [Next]_<<tables, context>>
    PROVE  TablesOK'
<1>1. ASSUME NEW r \in Requests, Perform(Req[r]) PROVE TablesOK'
  <2>1. PICK reference \in Refs : PostMoney(Req[r], wallet, reference)
    BY <1>1, PerformedRequest
  <2>2. wallet \in [Wallets -> WalletRow]
    BY DEF TablesOK
  <2> QED
    BY <1>1, <2>1, <2>2, PerformedRequest, PostMoneyTypes
<1>2. ASSUME NEW r \in Requests, Record(Req[r]) PROVE TablesOK'
  <2>1. PICK code \in BusinessCodes, reference \in Refs : PostFailure(Req[r], code, reference)
    BY <1>2, RecordedRequest
  <2>2. code \in Codes
    BY DEF Codes
  <2> QED
    BY <1>2, <2>1, <2>2, RecordedRequest, PostFailureTypes
<1>3. CASE UNCHANGED <<tables, context>>
  BY <1>3 DEF tables, context, TablesOK
<1>4. CASE GiveOutId
  BY <1>4 DEF GiveOutId, tables, TablesOK
<1>5. CASE ChangeConfig
  BY <1>5 DEF ChangeConfig, tables, TablesOK
<1>6. CASE NextDay
  BY <1>6, RulesAssumption DEF NextDay, tables, TablesOK, Days
<1> QED
  BY <1>1, <1>2, <1>3, <1>4, <1>5, <1>6, FreezeTypes DEF Next, Stutter

\* A request that is put on record appends one transaction and files one answer.
Filed(r, status, a) ==
    /\ \E reference \in Refs :
          transactions' = Append(transactions, TransactionRow(Req[r], reference, status, today))
    /\ idem' = [idem EXCEPT ![KeyOf(Req[r])] =
                  [fingerprint |-> Fingerprint(Req[r]), transaction |-> Len(transactions) + 1,
                   answer |-> a]]

\* What is done to a request, filing it or recording its refusal, puts on record
\* an answer of its kind, under a key that was free.
LEMMA OnRecord ==
    ASSUME TablesOK, NEW r \in Requests, Perform(Req[r]) \/ Record(Req[r])
    PROVE  /\ EarlyError(Req[r]) = Accepted /\ ~Stored(KeyOf(Req[r]))
           /\ \E status \in {"COMPLETED", "FAILED"}, a \in Answers :
                 /\ Filed(r, status, a)
                 /\ (status = "COMPLETED") <=> (a.code = Accepted)
                 /\ a.code # Accepted => a = ErrorAnswer(a.code)
<1>1. CASE Perform(Req[r])
  <2>1. PICK reference \in Refs : PostMoney(Req[r], wallet, reference)
    BY <1>1, PerformedRequest
  <2> DEFINE a == Receipt(reference, wallet[Req[r].wallet].balance + Delta(Req[r], Req[r].wallet))
  <2>2. a \in Answers /\ a.code = Accepted
    <3>1. Req[r].wallet \in Touched(Req[r])
      BY <1>1, PerformedRequest DEF Touched
    <3> QED
      BY <1>1, <3>1, PerformedRequest, AnswerTypes DEF Receipt
  <2>3. Filed(r, "COMPLETED", a)
    BY <2>1 DEF PostMoney, Filed
  <2> HIDE DEF a
  <2> QED
    BY <1>1, <2>2, <2>3, PerformedRequest
<1>2. CASE Record(Req[r])
  <2>1. PICK code \in BusinessCodes, reference \in Refs : PostFailure(Req[r], code, reference)
    BY <1>2, RecordedRequest
  <2>2. /\ ErrorAnswer(code) \in Answers /\ ErrorAnswer(code).code = code /\ code # Accepted
    BY AnswerTypes DEF Codes, ErrorAnswer, BusinessCodes, Accepted
  <2>3. Filed(r, "FAILED", ErrorAnswer(code))
    BY <2>1 DEF PostFailure, Filed
  <2> QED
    BY <1>2, <2>2, <2>3, RecordedRequest
<1> QED
  BY <1>1, <1>2

-----------------------------------------------------------------------------
(* The reader.                                                              *)

ReaderRecords ==
    [place : {"closed", "count", "fetch", "shown"}, reading : Readings,
     query : {x.filter : x \in Readings} \cup {Everything}, page : Nat \ {0},
     count : Nat, gap : Nat, shown : SUBSET Nat, wanted : SUBSET Nat]

\* The rows of the pages before this one.
Past == (reader.page - 1) * PageSize

\* As long as the filter is kept, every row wanted is still listed, and it has
\* been shown if it stands before the page that is to come, or on the one shown
\* and within its count.
ReaderFits ==
    /\ reader \in ReaderRecords
    /\ reader.place = "closed" => reader.wanted = {}
    /\ reader.place = "fetch" => reader.count <= Cardinality(Found)
    /\ reader.query = reader.reading.filter =>
         /\ reader.wanted \subseteq Found
         /\ reader.place \in {"count", "fetch"} =>
               \A i \in reader.wanted : Position(Found, i) <= Past => i \in reader.shown
         /\ reader.place = "shown" =>
               \A i \in reader.wanted :
                  /\ Position(Found, i) <= reader.page * PageSize
                  /\ Position(Found, i) <= reader.count
                  => i \in reader.shown

\* The inductive invariant of a reading.
ReadingInv == TablesOK /\ ReaderOK /\ ReaderFits /\ MissesAreCounted

\* Rows of a list are finitely many places in the table.
LEMMA RowsAreFinite ==
    ASSUME NEW t, t \in Seq(TransactionRows), NEW S, S \subseteq DOMAIN t
    PROVE  S \in SUBSET Nat /\ IsFiniteSet(S) /\ Cardinality(S) \in Nat
<1>1. DOMAIN t = 1..Len(t) /\ Len(t) \in Nat /\ IsFiniteSet(1..Len(t))
  BY FS_Interval
<1> QED
  BY <1>1, FS_Subset, FS_CardinalityType

\* A row stands at the first place or further on.
LEMMA PositionType ==
    ASSUME NEW S \in SUBSET Nat, IsFiniteSet(S), NEW i \in S
    PROVE  Position(S, i) \in Nat \ {0} /\ Position(S, i) <= Cardinality(S)
<1> DEFINE above == {j \in S : j >= i}
<1>1. IsFiniteSet(above) /\ Cardinality(above) <= Cardinality(S)
  BY FS_Subset
<1>2. i \in above
  OBVIOUS
<1>3. Cardinality(above) \in Nat /\ Cardinality(above) # 0
  BY <1>1, <1>2, FS_CardinalityType, FS_EmptySet
<1> QED
  BY <1>1, <1>3 DEF Position

\* Additions only push rows towards the pages to come.
LEMMA PositionsGrow ==
    ASSUME NEW S, NEW T \in SUBSET Nat, IsFiniteSet(T), S \subseteq T, NEW i \in S
    PROVE  Position(S, i) <= Position(T, i)
<1> DEFINE above == {j \in T : j >= i}
<1>1. IsFiniteSet(above) /\ {j \in S : j >= i} \in SUBSET above
  BY FS_Subset
<1> QED
  BY <1>1, FS_Subset DEF Position

\* At most as many rows stand behind a place as the list is longer.
LEMMA RowsBehind ==
    ASSUME NEW S \in SUBSET Nat, IsFiniteSet(S), NEW n \in Nat, n <= Cardinality(S)
    PROVE  Cardinality({i \in S : Position(S, i) > n}) <= Cardinality(S) - n
<1> DEFINE behind == {i \in S : Position(S, i) > n}
<1>1. IsFiniteSet(behind) /\ behind \in SUBSET Nat /\ Cardinality(S) \in Nat
  BY FS_Subset, FS_CardinalityType
<1>2. CASE behind = {}
  BY <1>1, <1>2, FS_EmptySet
<1>3. CASE behind # {}
  <2> DEFINE m == Max(behind)
             from == {j \in S : j >= m}
             after == from \ {m}
  <2>1. m \in S /\ m \in Nat /\ Position(S, m) > n /\ \A y \in behind : m >= y
    BY <1>1, <1>3, MaxIsIn
  <2> HIDE DEF m
  <2>2. /\ IsFiniteSet(from) /\ m \in from
        /\ Cardinality(from) \in Nat /\ Cardinality(from) > n
    BY <2>1, FS_Subset, FS_CardinalityType DEF Position
  <2>3. IsFiniteSet(after) /\ Cardinality(after) = Cardinality(from) - 1
    BY <2>2, FS_RemoveElement
  <2>4. Cardinality(S \ after) = Cardinality(S) - Cardinality(S \cap after)
        /\ IsFiniteSet(S \ after)
    BY FS_Difference
  <2>5. S \cap after = after
    OBVIOUS
  <2>6. behind \subseteq S \ after
    <3> SUFFICES ASSUME NEW y \in behind, y \in after PROVE FALSE
      OBVIOUS
    <3>1. y \in Nat /\ y >= m /\ y # m /\ m >= y
      BY <1>1, <2>1
    <3> QED
      BY <2>1, <3>1
  <2>7. Cardinality(behind) <= Cardinality(S \ after)
    BY <2>4, <2>6, FS_Subset
  <2>8. Cardinality(behind) \in Nat /\ Cardinality(S \ after) \in Nat
    BY <1>1, <2>4, FS_CardinalityType
  <2> HIDE DEF behind, from, after
  <2>9. Cardinality(behind) <= Cardinality(S) - n
    BY <1>1, <2>2, <2>3, <2>4, <2>5, <2>7, <2>8
  <2> QED
    BY <2>9 DEF behind
<1> QED
  BY <1>2, <1>3

\* There is a next page exactly if the count goes beyond this one.
LEMMA LastPage ==
    ASSUME NEW page \in Nat \ {0}, NEW count \in Nat
    PROVE  page < NumPages(count) <=> page * PageSize < count
<1> DEFINE n == count + PageSize - 1
           q == n \div PageSize
<1>1. PageSize \in Nat \ {0}
  BY HistoryAssumption
<1>2. n \in Nat /\ q \in Int /\ q * PageSize <= n /\ n < (q + 1) * PageSize
  BY <1>1
<1>3. NumPages(count) = IF q >= 1 THEN q ELSE 1
  <2>1. q >= 1 => Max({1, q}) = q
    BY <1>2 DEF Max
  <2>2. ~(q >= 1) => Max({1, q}) = 1
    BY <1>2 DEF Max
  <2> QED
    BY <2>1, <2>2 DEF NumPages
<1> HIDE DEF q
<1>4. page < NumPages(count) <=> page + 1 <= q
  BY <1>2, <1>3
<1>5. ASSUME page + 1 <= q PROVE page * PageSize < count
  <2>1. (page + 1) * PageSize <= q * PageSize
    BY <1>1, <1>2, <1>5
  <2>2. (page + 1) * PageSize = page * PageSize + PageSize /\ page * PageSize \in Nat
    BY <1>1
  <2> QED
    BY <1>1, <1>2, <2>1, <2>2
<1>6. ASSUME ~(page + 1 <= q) PROVE ~(page * PageSize < count)
  <2>1. (q + 1) * PageSize <= (page + 1) * PageSize
    BY <1>1, <1>2, <1>6
  <2>2. (page + 1) * PageSize = page * PageSize + PageSize /\ page * PageSize \in Nat
    BY <1>1
  <2> QED
    BY <1>1, <1>2, <2>1, <2>2
<1> QED
  BY <1>4, <1>5, <1>6

-----------------------------------------------------------------------------
(* Reading while rows are added.                                            *)

\* Whatever AtomicWallet does, someone is reading.
ReadingNext ==
    \/ Next /\ UNCHANGED reader
    \/ HistoryNext

ReadingSpec ==
    TablesInit /\ HistoryInit /\ [][ReadingNext]_<<tables, context, reader>>

\* Rows are only added to the transactions, and at their end.
LEMMA TransactionsGrow ==
    ASSUME TablesOK, [Next]_<<tables, context>>
    PROVE  /\ DOMAIN transactions \subseteq DOMAIN transactions'
           /\ \A i \in DOMAIN transactions : transactions'[i] = transactions[i]
<1>1. CASE \E r \in Requests : Perform(Req[r]) \/ Record(Req[r])
  <2>1. PICK r \in Requests : Perform(Req[r]) \/ Record(Req[r])
    BY <1>1
  <2>2. \E row : transactions' = Append(transactions, row)
    BY <2>1, OnRecord DEF Filed
  <2> QED
    BY <2>2 DEF TablesOK
<1>2. CASE transactions' = transactions
  BY <1>2
<1> QED
  BY <1>1, <1>2 DEF Next, Stutter, GiveOutId, ChangeConfig, NextDay, SetFrozen, tables

\* So a list only grows while its reader does nothing.
LEMMA FoundGrows ==
    ASSUME TablesOK, [Next]_<<tables, context>>, UNCHANGED reader
    PROVE  Found \subseteq Found'
BY TransactionsGrow DEF Found, Rows

\* Additions to the tables leave the reading as it should be.
LEMMA TablesReading ==
    ASSUME ReadingInv, [Next]_<<tables, context>>, UNCHANGED reader
    PROVE  ReadingInv'
<1>1. TablesOK /\ TablesOK'
  BY NextTypes DEF ReadingInv
<1>2. /\ Found \subseteq Found' /\ Found \in SUBSET Nat /\ Found' \in SUBSET Nat
      /\ IsFiniteSet(Found) /\ IsFiniteSet(Found')
      /\ Cardinality(Found) \in Nat /\ Cardinality(Found') \in Nat
  <2>1. Found \subseteq DOMAIN transactions /\ Found' \subseteq DOMAIN transactions'
    BY DEF Found, Rows
  <2>2. transactions \in Seq(TransactionRows) /\ transactions' \in Seq(TransactionRows)
    BY <1>1 DEF TablesOK
  <2> QED
    BY <1>1, <2>1, <2>2, FoundGrows, RowsAreFinite
<1>3. Cardinality(Found) <= Cardinality(Found')
  BY <1>2, FS_Subset
<1>4. ASSUME NEW i \in Found
      PROVE  /\ Position(Found, i) \in Nat /\ Position(Found', i) \in Nat
             /\ Position(Found, i) <= Position(Found', i)
  BY <1>2, <1>4, PositionType, PositionsGrow
<1>5. /\ reader \in ReaderRecords /\ reader' = reader /\ Past' = Past
      /\ Past \in Int /\ reader.page * PageSize \in Int
  BY HistoryAssumption DEF ReadingInv, ReaderFits, ReaderRecords, Past
<1>6. ReaderOK'
  BY <1>1, <1>5, TransactionsGrow DEF ReadingInv, ReaderOK
<1>7. MissesAreCounted'
  BY <1>5 DEF ReadingInv, MissesAreCounted, HasNext
<1>8. ReaderFits'
  <2>1. ReaderFits /\ reader.count \in Nat
    BY <1>5 DEF ReadingInv, ReaderRecords
  <2>2. reader.place = "fetch" => reader.count <= Cardinality(Found')
    BY <1>2, <1>3, <2>1 DEF ReaderFits
  <2>3. ASSUME reader.query = reader.reading.filter
        PROVE  /\ reader.wanted \subseteq Found'
               /\ reader.place \in {"count", "fetch"} =>
                     \A i \in reader.wanted : Position(Found', i) <= Past => i \in reader.shown
               /\ reader.place = "shown" =>
                     \A i \in reader.wanted :
                        /\ Position(Found', i) <= reader.page * PageSize
                        /\ Position(Found', i) <= reader.count
                        => i \in reader.shown
    <3>1. reader.wanted \subseteq Found
      BY <2>1, <2>3 DEF ReaderFits
    <3>2. ASSUME NEW i \in reader.wanted, NEW n \in Int, Position(Found', i) <= n
          PROVE  Position(Found, i) <= n
      BY <1>4, <3>1, <3>2
    <3>3. ASSUME reader.place \in {"count", "fetch"}, NEW i \in reader.wanted,
                 Position(Found', i) <= Past
          PROVE  i \in reader.shown
      <4>1. Position(Found, i) <= Past
        BY <1>5, <3>2, <3>3
      <4> QED
        BY <2>1, <2>3, <3>3, <4>1 DEF ReaderFits
    <3>4. ASSUME reader.place = "shown", NEW i \in reader.wanted,
                 Position(Found', i) <= reader.page * PageSize,
                 Position(Found', i) <= reader.count
          PROVE  i \in reader.shown
      <4>1. Position(Found, i) <= reader.page * PageSize /\ Position(Found, i) <= reader.count
        BY <1>5, <2>1, <3>2, <3>4
      <4> QED
        BY <2>1, <2>3, <3>4, <4>1 DEF ReaderFits
    <3> QED
      BY <1>2, <3>1, <3>3, <3>4
  <2> QED
    BY <1>5, <2>1, <2>2, <2>3 DEF ReaderFits
<1> QED
  BY <1>1, <1>6, <1>7, <1>8 DEF ReadingInv

\* What stays the same while the reader acts.
LEMMA QuietTables ==
    ASSUME TablesOK, Quiet
    PROVE  /\ TablesOK' /\ transactions' = transactions
           /\ Found \in SUBSET Nat /\ IsFiniteSet(Found) /\ Cardinality(Found) \in Nat
           /\ \A x, f : Rows(x, f) \subseteq DOMAIN transactions
<1>1. [Next]_<<tables, context>> /\ transactions' = transactions
  BY DEF Quiet, Next, Stutter, tables
<1>2. transactions \in Seq(TransactionRows) /\ Found \subseteq DOMAIN transactions
  BY DEF TablesOK, Found, Rows
<1> QED
  BY <1>1, <1>2, NextTypes, RowsAreFinite DEF Rows

\* A reading begins on the first page, with nothing shown yet.
LEMMA OpenListReading ==
    ASSUME ReadingInv, NEW x \in Readings, OpenList(x)
    PROVE  ReadingInv'
<1>1. TablesOK /\ Quiet /\ x.filter \in {y.filter : y \in Readings}
  BY DEF ReadingInv, OpenList
<1>2. /\ TablesOK' /\ transactions' = transactions
      /\ Rows(x, x.filter) \subseteq DOMAIN transactions
  BY <1>1, QuietTables
<1>3. DOMAIN transactions \subseteq Nat
  BY <1>1 DEF TablesOK
<1>4. reader' = [place |-> "count", reading |-> x, query |-> x.filter, page |-> 1, count |-> 0,
                 gap |-> 0, shown |-> {}, wanted |-> Rows(x, x.filter)]
  BY DEF OpenList, NotReading
<1>5. reader' \in ReaderRecords
  BY <1>1, <1>2, <1>3, <1>4 DEF ReaderRecords
<1>6. Found' = Rows(x, x.filter)
  BY <1>2, <1>4 DEF Found, Rows
<1>7. Past' = 0
  BY <1>4, HistoryAssumption DEF Past
<1>8. ASSUME NEW i \in Rows(x, x.filter) PROVE ~(Position(Found', i) <= 0)
  <2>1. Found' \in SUBSET Nat /\ IsFiniteSet(Found')
    BY <1>1, <1>2, <1>6, RowsAreFinite DEF TablesOK
  <2>2. Position(Found', i) \in Nat \ {0}
    BY <1>6, <1>8, <2>1, PositionType
  <2> QED
    BY <2>2
<1>9. ReaderFits'
  BY <1>4, <1>5, <1>6, <1>7, <1>8 DEF ReaderFits
<1>10. ReaderOK'
  BY <1>2, <1>4 DEF ReaderOK
<1>11. MissesAreCounted'
  BY <1>4 DEF MissesAreCounted
<1> QED
  BY <1>2, <1>9, <1>10, <1>11 DEF ReadingInv

\* Counting the rows.
LEMMA CountRowsReading ==
    ASSUME ReadingInv, CountRows
    PROVE  ReadingInv'
<1>1. TablesOK /\ Quiet /\ ReaderOK /\ ReaderFits /\ reader \in ReaderRecords
  BY DEF ReadingInv, CountRows, ReaderFits
<1>2. TablesOK' /\ transactions' = transactions /\ Cardinality(Found) \in Nat
  BY <1>1, QuietTables
<1>3. /\ reader.place = "count" /\ reader'.place = "fetch" /\ reader'.count = Cardinality(Found)
      /\ reader' \in ReaderRecords
      /\ reader'.reading = reader.reading /\ reader'.query = reader.query
      /\ reader'.page = reader.page /\ reader'.gap = reader.gap
      /\ reader'.shown = reader.shown /\ reader'.wanted = reader.wanted
  BY <1>1, <1>2 DEF CountRows, ReaderRecords
<1>4. Found' = Found /\ Past' = Past
  BY <1>2, <1>3 DEF Found, Rows, Past
<1>5. ReaderFits'
  BY <1>1, <1>2, <1>3, <1>4 DEF ReaderFits
<1>6. ReaderOK'
  BY <1>1, <1>2, <1>3 DEF ReaderOK
<1>7. MissesAreCounted'
  BY <1>3 DEF MissesAreCounted
<1> QED
  BY <1>2, <1>5, <1>6, <1>7 DEF ReadingInv

\* On the last page, what has not been shown stands behind the count.
LEMMA FetchPageReading ==
    ASSUME ReadingInv, FetchPage
    PROVE  ReadingInv'
<1> DEFINE slice == PageSlice(Found, reader.page, reader.count)
<1>1. TablesOK /\ Quiet /\ ReaderOK /\ ReaderFits /\ reader \in ReaderRecords
  BY DEF ReadingInv, FetchPage, ReaderFits
<1>2. /\ TablesOK' /\ transactions' = transactions /\ Cardinality(Found) \in Nat
      /\ Found \in SUBSET Nat /\ IsFiniteSet(Found) /\ Found \subseteq DOMAIN transactions
  BY <1>1, QuietTables DEF Found
<1>3. /\ reader.place = "fetch" /\ reader.page \in Nat \ {0} /\ reader.count \in Nat
      /\ reader.count <= Cardinality(Found) /\ slice \subseteq Found
      /\ reader.shown \in SUBSET Nat
  BY <1>1 DEF FetchPage, ReaderFits, ReaderRecords, PageSlice
<1>4. /\ reader'.place = "shown" /\ reader'.shown = reader.shown \cup slice
      /\ reader'.gap = Cardinality(Found) - reader.count
      /\ reader'.reading = reader.reading /\ reader'.query = reader.query
      /\ reader'.page = reader.page /\ reader'.count = reader.count
      /\ reader'.wanted = reader.wanted
  BY <1>1 DEF FetchPage, ReaderRecords
<1>5. reader' \in ReaderRecords /\ reader'.gap \in Nat
  <2>1. Cardinality(Found) - reader.count \in Nat /\ reader.shown \cup slice \in SUBSET Nat
    <3>1. slice \in SUBSET Nat
      BY <1>2, <1>3
    <3> HIDE DEF slice
    <3>2. reader.shown \cup slice \in SUBSET Nat
      BY <1>3, <3>1
    <3>3. Cardinality(Found) - reader.count \in Nat
      BY <1>2, <1>3
    <3> QED
      BY <3>2, <3>3
  <2> HIDE DEF slice
  <2>2. reader' = [reader EXCEPT !.place = "shown", !.shown = reader.shown \cup slice,
                                 !.gap = Cardinality(Found) - reader.count]
    BY <1>1 DEF FetchPage, slice
  <2> QED
    BY <1>1, <1>4, <2>1, <2>2 DEF ReaderRecords
<1>6. Found' = Found
  BY <1>2, <1>4 DEF Found, Rows
<1>7. ASSUME reader.query = reader.reading.filter, NEW i \in reader.wanted,
             Position(Found, i) <= reader.page * PageSize, Position(Found, i) <= reader.count
      PROVE  i \in reader'.shown
  <2>1. i \in Found
    BY <1>1, <1>7 DEF ReaderFits
  <2>2. Position(Found, i) \in Nat /\ Past \in Int
    <3>1. Past \in Int
      BY <1>3, HistoryAssumption DEF Past
    <3> QED
      BY <1>2, <2>1, <3>1, PositionType
  <2>3. CASE Position(Found, i) <= Past
    BY <1>1, <1>3, <1>4, <1>7, <2>3 DEF ReaderFits
  <2>4. CASE Past < Position(Found, i)
    BY <1>4, <1>7, <2>1, <2>4 DEF PageSlice, Past
  <2> QED
    BY <2>2, <2>3, <2>4
<1>8. ReaderFits'
  BY <1>1, <1>4, <1>5, <1>6, <1>7 DEF ReaderFits
<1>9. ReaderOK'
  BY <1>1, <1>2, <1>3, <1>4, <1>5 DEF ReaderOK
<1>11. ASSUME ~HasNext', reader.query = reader.reading.filter
       PROVE  Cardinality(reader'.wanted \ reader'.shown) <= reader'.gap
  <2> DEFINE behind == {i \in Found : Position(Found, i) > reader.count}
  <2>1. ~(reader.page * PageSize < reader.count)
    BY <1>3, <1>4, <1>11, LastPage DEF HasNext
  <2>2. reader.wanted \ reader'.shown \subseteq behind
    <3> SUFFICES ASSUME NEW i \in reader.wanted, i \notin reader'.shown PROVE i \in behind
      OBVIOUS
    <3>1. i \in Found
      BY <1>1, <1>11 DEF ReaderFits
    <3>2. Position(Found, i) \in Nat
      BY <1>2, <3>1, PositionType
    <3>4. reader.page * PageSize \in Int
      BY <1>3, HistoryAssumption
    <3>3. Position(Found, i) > reader.count
      BY <1>3, <1>7, <1>11, <2>1, <3>2, <3>4
    <3> QED
      BY <3>1, <3>3
  <2>3. Cardinality(behind) <= Cardinality(Found) - reader.count /\ IsFiniteSet(behind)
    BY <1>2, <1>3, RowsBehind, FS_Subset
  <2>4. Cardinality(reader.wanted \ reader'.shown) <= Cardinality(behind)
    BY <2>2, <2>3, FS_Subset
  <2>5. Cardinality(reader.wanted \ reader'.shown) \in Nat /\ Cardinality(behind) \in Nat
    BY <2>2, <2>3, FS_Subset, FS_CardinalityType
  <2> HIDE DEF behind
  <2> QED
    BY <1>2, <1>3, <1>4, <2>3, <2>4, <2>5
<1>12. MissesAreCounted'
  BY <1>4, <1>11 DEF MissesAreCounted
<1> QED
  BY <1>2, <1>8, <1>9, <1>12 DEF ReadingInv

\* Turning the page.
LEMMA NextPageReading ==
    ASSUME ReadingInv, NextPage
    PROVE  ReadingInv'
<1>1. TablesOK /\ Quiet /\ ReaderOK /\ ReaderFits /\ reader \in ReaderRecords
  BY DEF ReadingInv, NextPage, ReaderFits
<1>2. /\ TablesOK' /\ transactions' = transactions
      /\ Found \in SUBSET Nat /\ IsFiniteSet(Found)
  BY <1>1, QuietTables
<1>3. /\ reader.place = "shown" /\ reader.page \in Nat \ {0} /\ reader.count \in Nat
      /\ reader.page * PageSize < reader.count
  BY <1>1, LastPage DEF NextPage, ReaderRecords, HasNext
<1>4. /\ reader'.place = "count" /\ reader'.page = reader.page + 1
      /\ reader'.query \in {reader.query, Everything}
      /\ reader'.reading = reader.reading /\ reader'.count = reader.count
      /\ reader'.gap = reader.gap /\ reader'.shown = reader.shown /\ reader'.wanted = reader.wanted
      /\ reader' \in ReaderRecords
  <2> DEFINE query == IF reader.reading.view = "api" THEN reader.query ELSE Everything
  <2>1. /\ query \in {reader.query, Everything}
        /\ query \in {x.filter : x \in Readings} \cup {Everything}
    BY <1>1 DEF ReaderRecords
  <2>2. reader' = [reader EXCEPT !.place = "count", !.page = reader.page + 1, !.query = query]
    BY DEF NextPage
  <2> HIDE DEF query
  <2>3. reader.page + 1 \in Nat \ {0}
    BY <1>3
  <2> QED
    BY <1>1, <2>1, <2>2, <2>3 DEF ReaderRecords
<1>5. Past' = reader.page * PageSize /\ reader.page * PageSize \in Int
  BY <1>3, <1>4, HistoryAssumption DEF Past
<1>6. ASSUME reader'.query = reader.reading.filter
      PROVE  reader.query = reader.reading.filter /\ Found' = Found
  <2>1. reader.query = reader.reading.filter
    BY <1>1, <1>4, <1>6 DEF ReaderOK
  <2> QED
    BY <1>2, <1>4, <1>6, <2>1 DEF Found, Rows
<1>7. ASSUME reader'.query = reader.reading.filter, NEW i \in reader.wanted,
             Position(Found', i) <= Past'
      PROVE  i \in reader.shown
  <2>1. i \in Found /\ Found' = Found
    BY <1>1, <1>6, <1>7 DEF ReaderFits
  <2>2. Position(Found, i) \in Nat
    BY <1>2, <2>1, PositionType
  <2>3. Position(Found, i) <= reader.count /\ Position(Found, i) <= reader.page * PageSize
    BY <1>3, <1>5, <1>7, <2>1, <2>2
  <2> QED
    BY <1>1, <1>3, <1>6, <1>7, <2>3 DEF ReaderFits
<1>8. ReaderFits'
  BY <1>1, <1>4, <1>6, <1>7 DEF ReaderFits
<1>9. ReaderOK'
  BY <1>1, <1>2, <1>3, <1>4 DEF ReaderOK
<1>10. MissesAreCounted'
  BY <1>4 DEF MissesAreCounted
<1> QED
  BY <1>2, <1>8, <1>9, <1>10 DEF ReadingInv

\* A reading starts as it should be, and stays so.
LEMMA ReadingHolds == ReadingSpec => []ReadingInv
<1>1. TablesInit /\ HistoryInit => ReadingInv
  <2> SUFFICES ASSUME TablesInit, HistoryInit PROVE ReadingInv
    OBVIOUS
  <2>1. TablesOK
    BY TablesInitTypes
  <2>2. NotReading.reading \in Readings
    BY HistoryAssumption DEF NotReading
  <2>3. reader \in ReaderRecords
    BY <2>2 DEF HistoryInit, NotReading, ReaderRecords
  <2>4. reader.place = "closed" /\ reader.wanted = {} /\ reader.query = Everything
        /\ reader.shown = {} /\ reader.reading \in Readings
        /\ reader.page = 1 /\ reader.count = 0 /\ reader.gap = 0
    BY <2>2 DEF HistoryInit, NotReading
  <2> QED
    BY <2>1, <2>3, <2>4 DEF ReadingInv, ReaderOK, ReaderFits, MissesAreCounted
<1>2. ReadingInv /\ [ReadingNext]_<<tables, context, reader>> => ReadingInv'
  BY TablesReading, OpenListReading, CountRowsReading, FetchPageReading, NextPageReading
  DEF ReadingNext, HistoryNext
<1> QED
  BY <1>1, <1>2, PTL DEF ReadingSpec

-----------------------------------------------------------------------------
(* Histories and balances.                                                  *)

Mine(u, c) == {w \in Wallets : Owner[w] = u /\ Currency[w] = c}
Balances(rows) == [w \in Wallets |-> rows[w].balance]

\* The rows of a history that are about money of currency c, and what each
\* tells user u.
About(u, c, t) == Visible(u, t) /\ t.status = "COMPLETED" /\ CurrencyOf(t) = c
Completed(tx, u, c) == {i \in DOMAIN tx : About(u, c, tx[i])}
Tellings(tx, u) == [i \in DOMAIN tx |-> Told(u, tx[i])]

AllTold(tx, u, S) == MapThenSumSet(LAMBDA i : Told(u, tx[i]), S)

\* Holdings are a sum.
LEMMA HoldingsAreSum ==
    ASSUME NEW rows, NEW u, NEW c
    PROVE  Holdings(rows, u, c) = SumOf(Balances(rows), Mine(u, c))
<1> DEFINE S == Mine(u, c)
           P(g) == g = [s \in SUBSET S |->
                          IF s = {} THEN 0 ELSE rows[Picked(s)].balance + g[Others(s)]]
<1>1. Holdings(rows, u, c) = (CHOOSE g : P(g))[S]
  BY DEF Holdings, MapThenSumSet, MapThenFoldSet, Picked, Others, Mine
<1>2. \A s \in SUBSET S : s # {} => Balances(rows)[Picked(s)] = rows[Picked(s)].balance
  BY PickedIsIn DEF Balances, Mine
<1>3. \A g : P(g) <=> SumsUp(Balances(rows), g, S)
  BY <1>2 DEF SumsUp, Step
<1>4. (CHOOSE g : P(g)) = (CHOOSE g : SumsUp(Balances(rows), g, S))
  BY <1>3
<1> QED
  BY <1>1, <1>4, SumIsChosen

\* So is what a history tells.
LEMMA AllToldIsSum ==
    ASSUME NEW tx, NEW u, NEW S \in SUBSET DOMAIN tx
    PROVE  AllTold(tx, u, S) = SumOf(Tellings(tx, u), S)
<1> DEFINE P(g) == g = [s \in SUBSET S |->
                          IF s = {} THEN 0 ELSE Told(u, tx[Picked(s)]) + g[Others(s)]]
<1>1. AllTold(tx, u, S) = (CHOOSE g : P(g))[S]
  BY DEF AllTold, MapThenSumSet, MapThenFoldSet, Picked, Others
<1>2. \A s \in SUBSET S : s # {} => Tellings(tx, u)[Picked(s)] = Told(u, tx[Picked(s)])
  BY PickedIsIn DEF Tellings
<1>3. \A g : P(g) <=> SumsUp(Tellings(tx, u), g, S)
  BY <1>2 DEF SumsUp, Step
<1>4. (CHOOSE g : P(g)) = (CHOOSE g : SumsUp(Tellings(tx, u), g, S))
  BY <1>3
<1> QED
  BY <1>1, <1>4, SumIsChosen

\* The property, with its sums by name.
Tallies(u, c) ==
    SumOf(Balances(wallet), Mine(u, c)) =
        SumOf(Balances(Opening), Mine(u, c))
        + SumOf(Tellings(transactions, u), Completed(transactions, u, c))

\* HistoriesTellBalances says that the tallies of all users and currencies agree.
LEMMA HistoriesBySums ==
    HistoriesTellBalances <=> \A u \in Users, c \in Currencies : Tallies(u, c)
<1>1. ASSUME NEW u \in Users, NEW c \in Currencies
      PROVE  MapThenSumSet(LAMBDA i : Told(u, transactions[i]),
                          {i \in DOMAIN transactions :
                              /\ Visible(u, transactions[i])
                              /\ transactions[i].status = "COMPLETED"
                              /\ CurrencyOf(transactions[i]) = c})
             = SumOf(Tellings(transactions, u), Completed(transactions, u, c))
  <2>1. Completed(transactions, u, c) \in SUBSET DOMAIN transactions
    BY DEF Completed
  <2>2. AllTold(transactions, u, Completed(transactions, u, c))
         = SumOf(Tellings(transactions, u), Completed(transactions, u, c))
    BY <2>1, AllToldIsSum
  <2> QED
    BY <2>2 DEF AllTold, Completed, About
<1> QED
  BY <1>1, HoldingsAreSum DEF HistoriesTellBalances, Tallies

\* One more row tells what it tells, and the others what they told.
LEMMA OneMoreRow ==
    ASSUME NEW tx \in Seq(TransactionRows), NEW row \in TransactionRows, NEW u, NEW c
    PROVE  LET ty == Append(tx, row)
           IN  SumOf(Tellings(ty, u), Completed(ty, u, c)) =
                  SumOf(Tellings(tx, u), Completed(tx, u, c))
                  + (IF About(u, c, row) THEN Told(u, row) ELSE 0)
<1> DEFINE ty  == Append(tx, row)
           n   == Len(tx) + 1
           old == Completed(tx, u, c)
           new == Completed(ty, u, c)
<1>1. /\ DOMAIN ty = DOMAIN tx \cup {n} /\ n \notin DOMAIN tx
      /\ \A i \in DOMAIN tx : ty[i] = tx[i]
      /\ ty[n] = row
      /\ ty \in Seq(TransactionRows)
  OBVIOUS
<1> HIDE DEF ty, n
<1>2. new = IF About(u, c, row) THEN old \cup {n} ELSE old
  BY <1>1 DEF Completed
<1>3. old \in SUBSET DOMAIN tx /\ new \in SUBSET DOMAIN ty /\ n \notin old
  BY <1>1 DEF Completed
<1>4. \A i \in DOMAIN ty : Tellings(ty, u)[i] \in Int
  <2>1. \A i \in DOMAIN ty : ty[i].amount \in Int
    <3>1. \A i \in DOMAIN ty : ty[i] \in TransactionRows
      BY <1>1
    <3> QED
      BY <3>1 DEF TransactionRows
  <2> QED
    BY <2>1 DEF Tellings, Told
<1>5. SumOf(Tellings(ty, u), old) = SumOf(Tellings(tx, u), old)
  <2>1. \A i \in old : Tellings(ty, u)[i] = Tellings(tx, u)[i]
    BY <1>1, <1>3 DEF Tellings
  <2> QED
    BY <2>1, SumIsExtensional
<1>6. IsFiniteSet(old) /\ IsFiniteSet(new)
  BY <1>1, <1>3, RowsAreFinite
<1>7. SumOf(Tellings(ty, u), old) \in Int
  BY <1>1, <1>3, <1>4, <1>6, SumIsInteger
<1>8. CASE About(u, c, row)
  <2>1. n \in new /\ new \ {n} = old /\ Tellings(ty, u)[n] = Told(u, row)
    BY <1>1, <1>2, <1>3, <1>8 DEF Tellings
  <2>2. Told(u, row) \in Int
    BY <1>1, <1>4, <2>1
  <2>3. \A i \in new : Tellings(ty, u)[i] \in Int
    BY <1>3, <1>4
  <2> HIDE DEF new, old
  <2>4. SumOf(Tellings(ty, u), new) = Told(u, row) + SumOf(Tellings(ty, u), old)
    BY <1>6, <2>1, <2>3, SumTakesOut
  <2> QED
    BY <1>5, <1>7, <1>8, <2>2, <2>4 DEF ty, new, old
<1>9. CASE ~About(u, c, row)
  BY <1>2, <1>5, <1>7, <1>9 DEF ty
<1> QED
  BY <1>8, <1>9

\* Money goes between two owners and within one currency.
LEMMA PerformedTransfer ==
    ASSUME TablesOK, NEW r \in Requests, Perform(Req[r]), Req[r].op = "TRANSFER"
    PROVE  /\ Owner[Req[r].peer] # Owner[Req[r].wallet]
           /\ Currency[Req[r].peer] = Currency[Req[r].wallet]
<1>1. PICK c \in inForce :
        BusinessError(Req[r], wallet,
                      DailyCompletedTotal(transactions, Req[r].wallet, Req[r].op, today), c) = Accepted
  BY DEF Perform
<1> DEFINE spent == DailyCompletedTotal(transactions, Req[r].wallet, Req[r].op, today)
<1> HIDE DEF spent
<1>2. CustomerError(Req[r], wallet, spent, c) = Accepted
  BY <1>1 DEF BusinessError, spent
<1> QED
  BY <1>2 DEF CustomerError, Accepted

\* The row of a performed request tells each owner of a wallet it moved money of
\* what it did to that wallet, of which he has one, and nobody else anything.
LEMMA RowTellsMove ==
    ASSUME TablesOK, NEW r \in Requests, Perform(Req[r]), NEW reference, NEW u, NEW c
    PROVE  LET q   == Req[r]
               row == TransactionRow(q, reference, "COMPLETED", today)
           IN  IF About(u, c, row)
               THEN \E a \in Mine(u, c) \cap Touched(q) :
                       /\ Delta(q, a) = Told(u, row)
                       /\ Mine(u, c) \cap Touched(q) = {a}
               ELSE Mine(u, c) \cap Touched(q) = {}
<1> DEFINE q   == Req[r]
           row == TransactionRow(q, reference, "COMPLETED", today)
<1>1. /\ {q.wallet, q.peer} \subseteq Wallets /\ q.amount \in Int /\ q.amount # 0
      /\ q.op \in Ops /\ (q.op # "TRANSFER" => q.peer = q.wallet)
      /\ q.op \in Audited => q.amount > 0
      /\ NoWallet \notin Wallets /\ EarlyError(q) = Accepted
      /\ Touched(q) = {q.wallet, q.peer}
  <2>1. q \in Request /\ EarlyError(q) = Accepted /\ {q.wallet, q.peer} \subseteq Wallets
    BY RequestParts, PerformedRequest
  <2>2. q.amount \in Int /\ q.op \in Ops
    BY <2>1 DEF Request
  <2> QED
    BY <2>1, <2>2, RulesAssumption DEF EarlyError, Accepted, NoWallet, Touched
<1>2. /\ row.type = q.op /\ row.status = "COMPLETED" /\ row.amount = Abs(q.amount)
      /\ row.source = SourceOf(q) /\ row.destination = DestinationOf(q)
  BY DEF TransactionRow
<1> HIDE DEF row
<1>3. CASE q.op = "TRANSFER"
  <2>1. /\ Owner[q.peer] # Owner[q.wallet] /\ Currency[q.peer] = Currency[q.wallet]
        /\ q.wallet # q.peer /\ q.amount > 0
    BY <1>1, <1>3, PerformedTransfer, PerformedRequest DEF Audited
  <2>2. Delta(q, q.wallet) = -q.amount /\ Delta(q, q.peer) = q.amount
    BY <1>3, <2>1 DEF Delta
  <2>3. row.source = q.wallet /\ row.destination = q.peer /\ row.amount = q.amount
    BY <1>1, <1>2, <1>3, <2>1, <2>2 DEF SourceOf, DestinationOf, Abs
  <2>4. /\ Visible(u, row) <=> u \in {Owner[q.wallet], Owner[q.peer]}
        /\ CurrencyOf(row) = Currency[q.wallet]
        /\ Told(u, row) = IF Owner[q.wallet] = u THEN -q.amount ELSE q.amount
    BY <1>1, <1>2, <1>3, <2>3 DEF Visible, OwnedBy, CurrencyOf, Told, Direction
  <2>5. CASE About(u, c, row) /\ Owner[q.wallet] = u
    BY <1>1, <2>1, <2>2, <2>4, <2>5 DEF About, Mine, row
  <2>6. CASE About(u, c, row) /\ Owner[q.wallet] # u
    BY <1>1, <2>1, <2>2, <2>4, <2>6 DEF About, Mine, row
  <2>7. CASE ~About(u, c, row)
    BY <1>1, <1>2, <2>1, <2>4, <2>7 DEF About, Mine, row
  <2> QED
    BY <2>5, <2>6, <2>7
<1>4. CASE q.op # "TRANSFER"
  <2> DEFINE d == Delta(q, q.wallet)
  <2>1. /\ d \in Int /\ d # 0 /\ Touched(q) = {q.wallet}
        /\ row.source = (IF d < 0 THEN q.wallet ELSE NoWallet)
        /\ row.destination = (IF d > 0 THEN q.wallet ELSE NoWallet)
    BY <1>1, <1>2, <1>4 DEF Delta, SourceOf, DestinationOf
  <2>2. Told(u, row) = d
    BY <1>1, <1>2, <1>4, <2>1 DEF Told, Delta, Abs, Ops, Audited
  <2> HIDE DEF d
  <2>3. (Visible(u, row) <=> Owner[q.wallet] = u) /\ CurrencyOf(row) = Currency[q.wallet]
    BY <1>1, <2>1 DEF Visible, OwnedBy, CurrencyOf
  <2>4. CASE About(u, c, row)
    BY <1>1, <2>1, <2>2, <2>3, <2>4 DEF About, Mine, row, d
  <2>5. CASE ~About(u, c, row)
    BY <1>1, <1>2, <2>1, <2>3, <2>5 DEF About, Mine, row
  <2> QED
    BY <2>4, <2>5
<1> QED
  BY <1>3, <1>4

\* Sums of balances and of what rows tell are integers.
LEMMA TallyTypes ==
    ASSUME NEW rows \in [Wallets -> WalletRow], NEW tx \in Seq(TransactionRows), NEW u, NEW c
    PROVE  /\ IsFiniteSet(Mine(u, c)) /\ \A w \in Mine(u, c) : Balances(rows)[w] \in Int
           /\ SumOf(Balances(rows), Mine(u, c)) \in Int
           /\ SumOf(Tellings(tx, u), Completed(tx, u, c)) \in Int
<1>1. IsFiniteSet(Mine(u, c))
  BY HistoryAssumption, FS_Subset DEF Mine
<1>2. \A w \in Mine(u, c) : Balances(rows)[w] \in Int
  <2>1. \A w \in Wallets : rows[w].balance \in Int
    BY RulesAssumption DEF WalletRow
  <2> QED
    BY <2>1 DEF Balances, Mine
<1>3. IsFiniteSet(Completed(tx, u, c)) /\ Completed(tx, u, c) \subseteq DOMAIN tx
  BY RowsAreFinite DEF Completed
<1>4. \A i \in DOMAIN tx : Tellings(tx, u)[i] \in Int
  <2>1. \A i \in DOMAIN tx : tx[i] \in TransactionRows
    OBVIOUS
  <2>2. \A i \in DOMAIN tx : tx[i].amount \in Int
    BY <2>1 DEF TransactionRows
  <2> QED
    BY <2>2 DEF Tellings, Told
<1> QED
  BY <1>1, <1>2, <1>3, <1>4, SumIsInteger

\* A performed request changes what a user holds by what its row tells him.
LEMMA PerformTallies ==
    ASSUME TablesOK, NEW r \in Requests, Perform(Req[r]), NEW u, NEW c, Tallies(u, c)
    PROVE  Tallies(u, c)'
<1> DEFINE q == Req[r]
           mine == Mine(u, c)
<1>1. PICK reference \in Refs : PostMoney(q, wallet, reference)
  BY PerformedRequest
<1>2. PICK row : row = TransactionRow(q, reference, "COMPLETED", today)
  OBVIOUS
<1>3. row \in TransactionRows
  BY <1>2, PerformedRequest, RowsFit DEF TablesOK
<1>4. /\ transactions \in Seq(TransactionRows) /\ wallet \in [Wallets -> WalletRow]
      /\ transactions' = Append(transactions, row)
      /\ wallet' \in [Wallets -> WalletRow] /\ transactions' \in Seq(TransactionRows)
      /\ Opening \in [Wallets -> WalletRow]
  <2>1. TablesOK'
    BY NextTypes DEF Next
  <2> QED
    BY <1>1, <1>2, <2>1, RulesAssumption DEF TablesOK, PostMoney
<1>5. \A w \in Wallets : wallet'[w].balance = wallet[w].balance
                                + (IF w \in Touched(q) THEN Delta(q, w) ELSE 0)
  <2>1. \A w \in Wallets : wallet[w].balance \in Int
    BY <1>4, RulesAssumption DEF WalletRow
  <2> QED
    BY <1>1, <1>4, <2>1 DEF PostMoney, WalletRow
<1>6. SumOf(Tellings(transactions', u), Completed(transactions', u, c)) =
         SumOf(Tellings(transactions, u), Completed(transactions, u, c))
         + (IF About(u, c, row) THEN Told(u, row) ELSE 0)
  BY <1>3, <1>4, OneMoreRow
<1>7. SumOf(Balances(wallet'), mine) =
         SumOf(Balances(wallet), mine) + (IF About(u, c, row) THEN Told(u, row) ELSE 0)
  <2>1. /\ IsFiniteSet(mine) /\ mine \subseteq Wallets
        /\ \A w \in mine : Balances(wallet)[w] \in Int /\ Balances(wallet')[w] \in Int
        /\ SumOf(Balances(wallet), mine) \in Int
    <3>1. mine \subseteq Wallets
      BY DEF Mine
    <3> HIDE DEF mine
    <3>2. /\ IsFiniteSet(Mine(u, c)) /\ \A w \in Mine(u, c) : Balances(wallet)[w] \in Int
          /\ SumOf(Balances(wallet), Mine(u, c)) \in Int
      BY <1>4, TallyTypes
    <3>3. \A w \in Mine(u, c) : Balances(wallet')[w] \in Int
      BY <1>4, TallyTypes
    <3> QED
      BY <3>1, <3>2, <3>3 DEF mine
  <2>4. \A w \in mine : w \notin Touched(q) => Balances(wallet')[w] = Balances(wallet)[w]
    <3>1. \A w \in Wallets : Balances(wallet)[w] = wallet[w].balance
                              /\ Balances(wallet')[w] = wallet'[w].balance
      BY DEF Balances
    <3> HIDE DEF mine
    <3>2. ASSUME NEW w \in mine, w \notin Touched(q)
          PROVE  Balances(wallet')[w] = Balances(wallet)[w]
      <4>1. wallet'[w].balance = wallet[w].balance + 0 /\ wallet[w].balance \in Int
        BY <1>5, <2>1, <3>1, <3>2
      <4> QED
        BY <2>1, <3>1, <4>1
    <3> QED
      BY <3>2
  <2>2. CASE About(u, c, row)
    <3>1. PICK a \in mine \cap Touched(q) :
             Delta(q, a) = Told(u, row) /\ mine \cap Touched(q) = {a}
      BY <1>2, <2>2, RowTellsMove
    <3>2. \A w \in mine \ {a} : Balances(wallet')[w] = Balances(wallet)[w]
      BY <2>4, <3>1
    <3>3. Balances(wallet')[a] - Balances(wallet)[a] = Told(u, row)
      <4>1. Balances(wallet')[a] = Balances(wallet)[a] + Delta(q, a)
        BY <1>5, <2>1, <3>1 DEF Balances
      <4>2. Delta(q, a) \in Int
        BY RequestParts
      <4> QED
        BY <2>1, <3>1, <4>1, <4>2
    <3> HIDE DEF mine
    <3>4. SumOf(Balances(wallet'), mine) =
             SumOf(Balances(wallet), mine) + (Balances(wallet')[a] - Balances(wallet)[a])
      BY <2>1, <3>1, <3>2, SumChangesWithOne
    <3> QED
      BY <2>2, <3>3, <3>4
  <2>3. CASE ~About(u, c, row)
    <3>1. mine \cap Touched(q) = {}
      BY <1>2, <2>3, RowTellsMove
    <3>2. \A w \in mine : Balances(wallet')[w] = Balances(wallet)[w]
      BY <2>4, <3>1
    <3>3. SumOf(Balances(wallet'), mine) = SumOf(Balances(wallet), mine)
      BY <3>2, SumIsExtensional
    <3> QED
      BY <2>1, <2>3, <3>3
  <2> QED
    BY <2>2, <2>3
<1>8. About(u, c, row) => Told(u, row) \in Int
  BY <1>3 DEF Told, TransactionRows
<1>9. /\ SumOf(Balances(Opening), mine) \in Int
      /\ SumOf(Tellings(transactions, u), Completed(transactions, u, c)) \in Int
  BY <1>4, TallyTypes
<1>10. SumOf(Balances(wallet), mine) =
         SumOf(Balances(Opening), mine)
         + SumOf(Tellings(transactions, u), Completed(transactions, u, c))
  BY DEF Tallies
<1>11. SumOf(Balances(wallet'), mine) =
         SumOf(Balances(Opening), mine)
         + SumOf(Tellings(transactions', u), Completed(transactions', u, c))
  <2>1. CASE About(u, c, row)
    BY <1>6, <1>7, <1>8, <1>9, <1>10, <2>1
  <2>2. CASE ~About(u, c, row)
    BY <1>6, <1>7, <1>9, <1>10, <2>2
  <2> QED
    BY <2>1, <2>2
<1> QED
  BY <1>11 DEF Tallies, Balances, Tellings, Completed

\* Refusals tell of no money, and freezes move none.
LEMMA OtherTallies ==
    ASSUME TablesOK, [Next]_<<tables, context>>, \A r \in Requests : ~Perform(Req[r]),
           NEW u, NEW c, Tallies(u, c)
    PROVE  Tallies(u, c)'
<1>1. transactions \in Seq(TransactionRows) /\ wallet \in [Wallets -> WalletRow]
  BY DEF TablesOK
<1>2. Balances(wallet') = Balances(wallet)
  <2>1. \A w \in Wallets : wallet'[w].balance = wallet[w].balance
    <3>1. ASSUME NEW v \in Wallets, NEW freeze \in BOOLEAN, SetFrozen(v, freeze)
          PROVE  \A w \in Wallets : wallet'[w].balance = wallet[w].balance
      BY <1>1, <3>1 DEF SetFrozen, WalletRow
    <3>2. ASSUME NEW r \in Requests, Record(Req[r]) PROVE wallet' = wallet
      BY <3>2 DEF Record, PostFailure
    <3> QED
      BY <3>1, <3>2 DEF Next, Stutter, GiveOutId, ChangeConfig, NextDay, tables
  <2> QED
    BY <2>1 DEF Balances
<1>3. SumOf(Tellings(transactions', u), Completed(transactions', u, c)) =
         SumOf(Tellings(transactions, u), Completed(transactions, u, c))
  <2>1. ASSUME NEW r \in Requests, Record(Req[r])
        PROVE  SumOf(Tellings(transactions', u), Completed(transactions', u, c)) =
                  SumOf(Tellings(transactions, u), Completed(transactions, u, c))
    <3>1. PICK code \in BusinessCodes, reference \in Refs : PostFailure(Req[r], code, reference)
      BY <2>1, RecordedRequest
    <3>2. PICK row : row = TransactionRow(Req[r], reference, "FAILED", today)
      OBVIOUS
    <3>3. row \in TransactionRows /\ transactions' = Append(transactions, row)
      BY <2>1, <3>1, <3>2, RecordedRequest, RowsFit DEF TablesOK, PostFailure
    <3>4. ~About(u, c, row)
      BY <3>2 DEF About, TransactionRow
    <3>5. SumOf(Tellings(transactions, u), Completed(transactions, u, c)) \in Int
      BY <1>1, TallyTypes
    <3> QED
      BY <1>1, <3>3, <3>4, <3>5, OneMoreRow
  <2>2. CASE transactions' = transactions
    BY <2>2
  <2> QED
    BY <2>1, <2>2 DEF Next, Stutter, GiveOutId, ChangeConfig, NextDay, SetFrozen, tables
<1>4. SumOf(Balances(wallet'), Mine(u, c)) =
         SumOf(Balances(Opening), Mine(u, c))
         + SumOf(Tellings(transactions', u), Completed(transactions', u, c))
  BY <1>2, <1>3 DEF Tallies
<1> QED
  BY <1>4 DEF Tallies, Balances, Tellings, Completed

\* Whatever requests are served, refused and repeated: the completed rows of a
\* user's history account for all he holds.
THEOREM HistoriesHold == Spec => []HistoriesTellBalances
<1> DEFINE Tally == \A u \in Users, c \in Currencies : Tallies(u, c)
<1>1. Init => TablesOK /\ Tally
  <2> SUFFICES ASSUME Init PROVE TablesOK /\ Tally
    OBVIOUS
  <2>1. TablesOK /\ wallet = Opening /\ transactions = <<>>
    BY TablesInitTypes DEF Init, TablesInit
  <2>2. ASSUME NEW u \in Users, NEW c \in Currencies PROVE Tallies(u, c)
    <3>1. Completed(transactions, u, c) = {}
      BY <2>1 DEF Completed
    <3>2. SumOf(Balances(Opening), Mine(u, c)) \in Int
      BY <2>1, TallyTypes DEF TablesOK
    <3>3. SumOf(Tellings(transactions, u), Completed(transactions, u, c)) = 0
      BY <3>1, SumOfNothing
    <3>4. SumOf(Balances(Opening), Mine(u, c)) = SumOf(Balances(Opening), Mine(u, c)) + 0
      BY <3>2
    <3> QED
      BY <2>1, <3>3, <3>4 DEF Tallies
  <2> QED
    BY <2>1, <2>2
<1>2. TablesOK /\ Tally /\ [Next]_<<tables, context>> => TablesOK' /\ Tally'
  <2> SUFFICES ASSUME TablesOK, Tally, [Next]_<<tables, context>> PROVE TablesOK' /\ Tally'
    OBVIOUS
  <2>1. ASSUME NEW u \in Users, NEW c \in Currencies PROVE Tallies(u, c)'
    <3>1. Tallies(u, c)
      BY <2>1
    <3>2. CASE \E r \in Requests : Perform(Req[r])
      BY <3>1, <3>2, PerformTallies
    <3> QED
      BY <3>1, <3>2, OtherTallies
  <2> QED
    BY <2>1, NextTypes
<1>3. Tally => HistoriesTellBalances
  BY HistoriesBySums
<1> QED
  BY <1>1, <1>2, <1>3, PTL DEF Spec
=============================================================================
