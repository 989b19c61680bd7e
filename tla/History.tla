-------------------------------- MODULE History --------------------------------
(****************************************************************************)
(* Someone reads a list of transactions page by page while the money        *)
(* operations add to it: the customer's history page, the transaction API,  *)
(* and the administrator's list of failures.  Each page takes two queries   *)
(* that share no snapshot, a COUNT and a SELECT with a LIMIT, and the next  *)
(* page is reached by a link on the present one.                            *)
(*                                                                          *)
(* Rows are listed newest first.  That is the reverse of the order in which *)
(* they were committed: created_at is taken under the lock of the day's     *)
(* reference counter, which is held until the commit.                       *)
(****************************************************************************)
EXTENDS AtomicWallet

CONSTANTS
    Readings,    \* which list is read, by whom, with which filter
    PageSize     \* 20 in the code

Filter == [types : SUBSET Ops, statuses : SUBSET {"COMPLETED", "FAILED"},
           amounts : SUBSET Nat, days : SUBSET Days]

Views == {"web", "api", "failed"}

\* No query parameters.
Everything == [types |-> Ops, statuses |-> {"COMPLETED", "FAILED"},
               amounts |-> {Abs(Req[r].amount) : r \in Requests}, days |-> Days]

\* Failures are for administrators, and only their code can be searched for.
ASSUME HistoryAssumption ==
    /\ PageSize \in Nat \ {0} /\ Readings # {} /\ IsFiniteSet(Wallets)
    /\ Readings \subseteq [view : Views, user : Users, filter : Filter]
    /\ \A x \in Readings : x.view = "failed" => x.user \in Admins /\ x.filter = Everything

VARIABLE
    reader       \* the reading: where it is, and what has been shown

-----------------------------------------------------------------------------
(* Lists.                                                                   *)

OwnedBy(w, u) == w # NoWallet /\ Owner[w] = u

\* customer_transactions: those in or out of the user's wallets, failed ones
\* and other people's among them.
ActedBy(u, t) == t.actor = u
Visible(u, t) == OwnedBy(t.source, u) \/ OwnedBy(t.destination, u)

\* What a view lists before filtering.
Listed(x, t) ==
    \/ x.view = "failed" /\ t.status = "FAILED"
    \/ x.view = "api" /\ x.user \in Admins
    \/ x.view # "failed" /\ Visible(x.user, t)

Matches(f, t) == /\ t.type \in f.types /\ t.status \in f.statuses
                 /\ t.amount \in f.amounts /\ t.created \in f.days

Rows(x, f) == {i \in DOMAIN transactions : /\ Listed(x, transactions[i])
                                           /\ Matches(f, transactions[i])}

\* The place of a row in the list of S, newest first.
Position(S, i) == Cardinality({j \in S : j >= i})

NumPages(count) == Max({1, (count + PageSize - 1) \div PageSize})

\* The slice of a page, cut off by the count that was taken before.
PageSliceFromZero(S, page, count) ==
    {i \in S : /\ page * PageSize < Position(S, i)
               /\ Position(S, i) <= (page + 1) * PageSize /\ Position(S, i) <= count}
PageSlice(S, page, count) ==
    {i \in S : /\ (page - 1) * PageSize < Position(S, i)
               /\ Position(S, i) <= page * PageSize /\ Position(S, i) <= count}

-----------------------------------------------------------------------------
(* Reading.                                                                 *)

NotReading == [place |-> "closed", reading |-> CHOOSE x \in Readings : TRUE,
               query |-> Everything, page |-> 1, count |-> 0, gap |-> 0,
               shown |-> {}, wanted |-> {}]

Quiet == UNCHANGED <<tables, context>>

\* The first page of a list.  wanted and shown are history: the rows the list
\* has when the reading starts, and those that have been on a page.  query is
\* what the address of the page asks for.
OpenList(x) ==
    /\ reader.place = "closed"
    /\ reader' = [NotReading EXCEPT !.place = "count", !.reading = x, !.query = x.filter,
                     !.wanted = Rows(x, x.filter)]
    /\ Quiet

Found == Rows(reader.reading, reader.query)

\* Paginator.count.
CountRows ==
    /\ reader.place = "count"
    /\ reader' = [reader EXCEPT !.place = "fetch", !.count = Cardinality(Found)]
    /\ Quiet

\* The page is fetched when the template runs over it.
FetchPage ==
    /\ reader.place = "fetch"
    /\ reader' = [reader EXCEPT !.place = "shown",
                     !.shown = @ \cup PageSlice(Found, reader.page, reader.count),
                     !.gap = Cardinality(Found) - reader.count]
    /\ Quiet

HasNext == reader.page < NumPages(reader.count)

\* The links of the pages carry the page number and nothing else; those of the
\* API repeat the whole query.
NextPage ==
    /\ reader.place = "shown"
    /\ HasNext
    /\ reader' = [reader EXCEPT !.place = "count", !.page = @ + 1,
                     !.query = IF reader.reading.view = "api" THEN @ ELSE Everything]
    /\ Quiet

HistoryInit == reader = NotReading

HistoryNext ==
    \/ \E x \in Readings : OpenList(x)
    \/ CountRows \/ FetchPage \/ NextPage

-----------------------------------------------------------------------------
(* Properties.                                                              *)

\* The reading has its type.
ReaderOK ==
    /\ reader.place \in {"closed", "count", "fetch", "shown"}
    /\ reader.reading \in Readings
    /\ reader.query \in {reader.reading.filter, Everything}
    /\ reader.page \in Nat \ {0}
    /\ {reader.count, reader.gap} \subseteq Nat
    /\ reader.shown \cup reader.wanted \subseteq DOMAIN transactions

\* Whoever reads a list to its last page has been shown every row it had when he
\* began, however many were added meanwhile, because additions only push rows
\* towards the pages to come.  The one leak is between the two queries of the
\* last page: each row added there pushes one off the end that no link leads to
\* any more.  (Where links drop the filter, see FiltersLast.)
MissesAreCounted ==
    reader.place = "shown" /\ ~HasNext /\ reader.query = reader.reading.filter =>
        Cardinality(reader.wanted \ reader.shown) <= reader.gap

\* A filtered list is filtered on every page (README.md:166, "complete
\* transaction history filters/pagination").
FiltersLast ==
    reader.place = "shown" =>
        \A i \in reader.shown : Matches(reader.reading.filter, transactions[i])

\* TransactionSerializer.get_direction, for transfers.
Direction(u, t) == IF OwnedBy(t.source, u) THEN "OUTGOING" ELSE "INCOMING"

\* What the reader of a row takes it to have done to his balance.
Told(u, t) ==
    CASE t.type = "DEPOSIT"    -> t.amount
      [] t.type = "WITHDRAWAL" -> -t.amount
      [] t.type = "TRANSFER"   -> IF Direction(u, t) = "OUTGOING" THEN -t.amount ELSE t.amount
      [] OTHER                 -> IF t.source = NoWallet THEN t.amount ELSE -t.amount

CurrencyOf(t) == Currency[IF t.source = NoWallet THEN t.destination ELSE t.source]

Holdings(rows, u, c) ==
    MapThenSumSet(LAMBDA w : rows[w].balance,
                  {w \in Wallets : Owner[w] = u /\ Currency[w] = c})

\* The completed rows of a user's unfiltered history account for every change of
\* what he owns in a currency: none is missing, none is somebody else's, and the
\* direction he is told is the way the money went.
HistoriesTellBalances ==
    \A u \in Users, c \in Currencies :
        Holdings(wallet, u, c) = Holdings(Opening, u, c) +
            MapThenSumSet(LAMBDA i : Told(u, transactions[i]),
                          {i \in DOMAIN transactions :
                              /\ Visible(u, transactions[i])
                              /\ transactions[i].status = "COMPLETED"
                              /\ CurrencyOf(transactions[i]) = c})
=============================================================================
