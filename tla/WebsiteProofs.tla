----------------------------- MODULE WebsiteProofs -----------------------------
(****************************************************************************)
(* Proofs about Website: what the forms promise however often they are      *)
(* sent, for every set of users, wallets, requests and forms.               *)
(****************************************************************************)
EXTENDS Website, HistoryProofs

-----------------------------------------------------------------------------
(* The inductive invariant.                                                 *)

\* An administrator has frozen the wallet at some time.
WasFrozen(w) == \E a \in DOMAIN audits : audits[a].wallet = w /\ audits[a].action = "FREEZE"

\* Wallet w was a choice of form k when it was rendered.
Chosen(k, w) ==
    /\ w \in Wallets
    /\ \/ k[2] = "BALANCE_ADJUSTMENT"
       \/ Owner[w] = k[1] /\ (wallet[w].status = "ACTIVE" \/ WasFrozen(w))

ChosenFor(r) == Chosen(KeyOf(Req[r]), Req[r].wallet)

\* How far a post has come, and what it is owed to have come so far.
PostFits(p) ==
    /\ NeedsConfirmation(p.request, p.confirmed) \/ p.request \in asked
    /\ p.confirmed => p.request \in confirmable
    /\ p.stage = "form" => ChosenFor(p.request)
    /\ p.stage # "form" => ~NeedsConfirmation(p.request, p.confirmed)
    /\ p.stage = "refused" => /\ EarlyError(Asks(p)) = Accepted /\ Asks(p).op \in Audited
                              /\ p.code \in BusinessCodes /\ ~p.repeated
    /\ p.repeated => Answered(p.request)

\* A record is the answer to a request that could be refused by the rules only.
RecordFits(k) ==
    /\ idem[k].transaction \in DOMAIN transactions
    /\ idem[k].answer.code # Accepted => idem[k].answer = ErrorAnswer(idem[k].answer.code)
    /\ \E r \in Requests : /\ KeyOf(Req[r]) = k /\ EarlyError(Req[r]) = Accepted
                           /\ Fingerprint(Req[r]) = idem[k].fingerprint

FormsFit ==
    /\ \A k \in FormKeys : \A w \in offered[k] : Chosen(k, w)
    /\ \A r \in confirmable : ChosenFor(r)
    /\ \A p \in BagToSet(posts) : PostFits(p)
    /\ \A k \in UsedKeys : Stored(k) => RecordFits(k)
    /\ page # NoPage => page.request \in Requests /\ Stored(KeyFor(page))

\* The inductive invariant of the forms.
FormsInv == TablesOK /\ FormsOK /\ FormsFit

-----------------------------------------------------------------------------
(* The tables.                                                              *)

\* What the site does to the tables is what AtomicWallet does.
TablesStep ==
    \/ \E r \in Requests : Perform(Req[r]) \/ Record(Req[r])
    \/ \E w \in Wallets, freeze \in BOOLEAN : SetFrozen(w, freeze)
    \/ UNCHANGED <<tables, context>>

\* It is a step of AtomicWallet, and keeps the types.
LEMMA TablesStepTypes ==
    ASSUME TablesOK, TablesStep
    PROVE  Next /\ TablesOK'
<1>1. Next
  BY DEF TablesStep, Next, Stutter
<1> QED
  BY <1>1, NextTypes

\* Stored answers stay, and every stored answer has a request behind it.
LEMMA RecordsStay ==
    ASSUME TablesOK, TablesStep, \A k \in UsedKeys : Stored(k) => RecordFits(k)
    PROVE  /\ \A k \in UsedKeys : Stored(k) => idem'[k] = idem[k] /\ Stored(k)'
           /\ \A k \in UsedKeys : Stored(k)' => RecordFits(k)'
           /\ DOMAIN transactions \subseteq DOMAIN transactions'
           /\ \A i \in DOMAIN transactions : transactions'[i] = transactions[i]
<1>1. ASSUME NEW r \in Requests, Perform(Req[r]) \/ Record(Req[r])
      PROVE  /\ \A k \in UsedKeys : Stored(k) => idem'[k] = idem[k] /\ Stored(k)'
             /\ \A k \in UsedKeys : Stored(k)' => RecordFits(k)'
             /\ DOMAIN transactions \subseteq DOMAIN transactions'
             /\ \A i \in DOMAIN transactions : transactions'[i] = transactions[i]
  <2>1. PICK status \in {"COMPLETED", "FAILED"}, a \in Answers :
          Filed(r, status, a) /\ (a.code # Accepted => a = ErrorAnswer(a.code))
    BY <1>1, OnRecord
  <2>2. EarlyError(Req[r]) = Accepted /\ ~Stored(KeyOf(Req[r])) /\ KeyOf(Req[r]) \in UsedKeys
    BY <1>1, OnRecord, RequestParts
  <2> DEFINE n == Len(transactions) + 1
             record == [fingerprint |-> Fingerprint(Req[r]), transaction |-> n, answer |-> a]
  <2>3. /\ idem \in [UsedKeys -> IdemRecords] /\ transactions \in Seq(TransactionRows)
        /\ n \in Nat
    BY DEF TablesOK
  <2>4. PICK row : transactions' = Append(transactions, row)
    BY <2>1 DEF Filed
  <2>5. /\ DOMAIN transactions' = DOMAIN transactions \cup {n}
        /\ \A i \in DOMAIN transactions : transactions'[i] = transactions[i]
    <3>1. /\ Len(Append(transactions, row)) = n
          /\ \A i \in 1..Len(transactions) : Append(transactions, row)[i] = transactions[i]
          /\ DOMAIN Append(transactions, row) = 1..n
      BY <2>3
    <3> QED
      BY <2>3, <2>4, <3>1
  <2>6. /\ idem'[KeyOf(Req[r])] = record
        /\ \A k \in UsedKeys : k # KeyOf(Req[r]) => idem'[k] = idem[k]
    BY <2>1, <2>2, <2>3 DEF Filed
  <2>7. RecordFits(KeyOf(Req[r]))'
    BY <2>1, <2>2, <2>5, <2>6 DEF RecordFits
  <2> HIDE DEF record, n
  <2>8. ASSUME NEW k \in UsedKeys, k # KeyOf(Req[r]), Stored(k)' PROVE RecordFits(k)'
    <3>1. Stored(k) /\ RecordFits(k) /\ idem'[k] = idem[k]
      BY <2>6, <2>8 DEF Stored
    <3> QED
      BY <2>5, <3>1 DEF RecordFits
  <2>9. ASSUME NEW k \in UsedKeys, Stored(k) PROVE idem'[k] = idem[k] /\ Stored(k)'
    BY <2>2, <2>6, <2>9 DEF Stored
  <2>10. ASSUME NEW k \in UsedKeys, Stored(k)' PROVE RecordFits(k)'
    BY <2>7, <2>8, <2>10
  <2> QED
    BY <2>5, <2>9, <2>10
<1>2. CASE UNCHANGED <<transactions, idem>>
  BY <1>2 DEF Stored, RecordFits
<1> QED
  BY <1>1, <1>2 DEF TablesStep, SetFrozen, tables

\* Audit rows are only added: a wallet that was frozen once has been so since.
LEMMA FreezesStay ==
    ASSUME TablesOK, TablesStep
    PROVE  /\ \A w : WasFrozen(w) => WasFrozen(w)'
           /\ \A w \in Wallets : SetFrozen(w, TRUE) => WasFrozen(w)'
<1>0. audits \in Seq(AuditRows)
  BY DEF TablesOK
<1>1. ASSUME NEW row, audits' = Append(audits, row)
      PROVE  /\ \A w : WasFrozen(w) => WasFrozen(w)'
             /\ row.action = "FREEZE" => WasFrozen(row.wallet)'
  <2>1. /\ \A a \in 1..Len(audits) : Append(audits, row)[a] = audits[a]
        /\ Append(audits, row)[Len(audits) + 1] = row
        /\ DOMAIN Append(audits, row) = 1..(Len(audits) + 1)
        /\ DOMAIN audits = 1..Len(audits) /\ Len(audits) \in Nat
    BY <1>0
  <2>2. /\ \A a \in DOMAIN audits : a \in DOMAIN audits' /\ audits'[a] = audits[a]
        /\ Len(audits) + 1 \in DOMAIN audits' /\ audits'[Len(audits) + 1] = row
    BY <1>1, <2>1
  <2> QED
    BY <2>2 DEF WasFrozen
<1>2. CASE audits' = audits
  BY <1>2, <1>0 DEF WasFrozen, SetFrozen
<1>3. audits' = audits \/ \E row : audits' = Append(audits, row)
  BY DEF TablesStep, Perform, PostMoney, Record, PostFailure, SetFrozen, tables
<1>4. ASSUME NEW w \in Wallets, SetFrozen(w, TRUE) PROVE WasFrozen(w)'
  <2> DEFINE row == AuditRow(w, "FREEZE", 0, 0, 0)
  <2>1. audits' = Append(audits, row) /\ row.wallet = w /\ row.action = "FREEZE"
    BY <1>4 DEF SetFrozen, AuditRow
  <2> HIDE DEF row
  <2> QED
    BY <1>1, <2>1
<1>5. \A w : WasFrozen(w) => WasFrozen(w)'
  BY <1>1, <1>3 DEF WasFrozen
<1> QED
  BY <1>4, <1>5

\* A wallet that was a choice stays one that was active once: only a freeze
\* makes it inactive, and a freeze is audited.
LEMMA ChoicesStay ==
    ASSUME TablesOK, TablesStep, NEW k, NEW w, Chosen(k, w)
    PROVE  Chosen(k, w)'
<1>0. wallet \in [Wallets -> WalletRow] /\ w \in Wallets
  BY DEF TablesOK, Chosen
<1>1. wallet'[w].status = wallet[w].status \/ wallet'[w].status = "ACTIVE" \/ SetFrozen(w, TRUE)
  <2>1. ASSUME NEW r \in Requests, Perform(Req[r]) PROVE wallet'[w].status = wallet[w].status
    BY <1>0, <2>1 DEF Perform, PostMoney, WalletRow
  <2>2. ASSUME NEW v \in Wallets, NEW freeze \in BOOLEAN, SetFrozen(v, freeze)
        PROVE  \/ wallet'[w].status = wallet[w].status \/ wallet'[w].status = "ACTIVE"
               \/ SetFrozen(w, TRUE)
    <3>1. CASE v = w /\ freeze = TRUE
      BY <2>2, <3>1
    <3>2. CASE v # w \/ freeze = FALSE
      BY <1>0, <2>2, <3>2 DEF SetFrozen, WalletRow
    <3> QED
      BY <3>1, <3>2
  <2> QED
    BY <2>1, <2>2 DEF TablesStep, Record, PostFailure, tables
<1> QED
  BY <1>0, <1>1, FreezesStay DEF Chosen

-----------------------------------------------------------------------------
(* Posts.                                                                   *)

\* What adding to a bag and removing from it do to its members.
LEMMA BagTypes ==
    ASSUME NEW B, IsABag(B), NEW x
    PROVE  /\ IsABag(BagAdd(B, x)) /\ BagToSet(BagAdd(B, x)) = BagToSet(B) \cup {x}
           /\ IsABag(BagRemove(B, x)) /\ BagToSet(BagRemove(B, x)) \subseteq BagToSet(B)
BY DEF IsABag, BagToSet, BagAdd, BagRemove

PostRecords ==
    [request : Requests, confirmed : BOOLEAN, repeated : BOOLEAN,
     stage : {"form", "service", "refused"}, code : BusinessCodes \cup {NoCode}]

ShownAnswers == [code : Codes \cup {"invalid_form", "confirm"}, reference : Refs,
                 balance : 0..MaxBalance]

\* What pages show includes every answer of the service.
LEMMA ShownTypes ==
    /\ Answers \subseteq ShownAnswers
    /\ \A code \in Codes \cup {"invalid_form", "confirm"} : ErrorAnswer(code) \in ShownAnswers
<1>1. ErrorAnswer(NoCode) \in Answers
  BY AnswerTypes DEF Codes
<1>2. NoRef \in Refs /\ 0 \in 0..MaxBalance
  BY <1>1, AnswerTypes, RulesAssumption
<1> QED
  BY <1>2 DEF Answers, ShownAnswers, ErrorAnswer

\* The part of FormsOK that posts change.
PostsOK ==
    /\ IsABag(posts) /\ BagToSet(posts) \subseteq PostRecords
    /\ clicks \in 0..MaxPosts /\ asked \subseteq Requests
    /\ page.request \in Requests \cup {0} /\ page.answer \in ShownAnswers

\* The types of the forms: those of the posts, and those of the pages shown.
LEMMA FormsByParts ==
    FormsOK <=> /\ PostsOK /\ offered \in [FormKeys -> SUBSET Wallets]
                /\ confirmable \subseteq {r \in Requests : Req[r].op = "TRANSFER"}
BY DEF FormsOK, PostsOK, PostRecords, ShownAnswers

\* The types of a post.
LEMMA PostTypes ==
    ASSUME FormsOK, NEW p \in BagToSet(posts)
    PROVE  /\ p \in PostRecords /\ p.request \in Requests /\ KeyFor(p) \in UsedKeys
           /\ Asks(p) = Req[p.request] /\ KeyFor(p) = KeyOf(Req[p.request])
<1>1. p \in PostRecords
  BY FormsByParts DEF PostsOK
<1> QED
  BY <1>1, RequestParts DEF PostRecords, KeyFor, Asks

\* A post that is told an answer is over.
LEMMA AfterTell ==
    ASSUME FormsOK, NEW p \in BagToSet(posts), NEW a \in ShownAnswers, Tell(p, a)
    PROVE  /\ PostsOK' /\ BagToSet(posts') \subseteq BagToSet(posts) /\ asked' = asked
           /\ page' # NoPage => p.repeated /\ page' = [request |-> p.request, answer |-> a]
<1>1. NoPage.request = 0 /\ NoPage.answer \in ShownAnswers
  BY ShownTypes DEF NoPage, NoAnswer, Codes
<1>2. PostsOK /\ p.request \in Requests
  BY FormsByParts, PostTypes
<1>3. page'.request \in Requests \cup {0} /\ page'.answer \in ShownAnswers
  BY <1>1, <1>2 DEF Tell
<1>4. IsABag(posts') /\ BagToSet(posts') \subseteq BagToSet(posts)
  BY <1>2, BagTypes DEF Tell, PostsOK
<1> QED
  BY <1>2, <1>3, <1>4 DEF Tell, PostsOK

\* A post that goes on is the same post at its next stage.
Later(p, stage, code) == [p EXCEPT !.stage = stage, !.code = code]

\* When a post goes on, the others are still there and it is at its next stage.
LEMMA AfterGoOn ==
    ASSUME FormsOK, NEW p \in BagToSet(posts), NEW stage \in {"form", "service", "refused"},
           NEW code \in BusinessCodes \cup {NoCode}, GoOn(p, stage, code)
    PROVE  /\ PostsOK' /\ asked' = asked /\ page' = page
           /\ \A x \in BagToSet(posts') :
                 x \in BagToSet(posts) \/ x = Later(p, stage, code)
<1>1. PostsOK /\ p \in PostRecords
  BY FormsByParts, PostTypes
<1> DEFINE next == Later(p, stage, code)
<1>2. next \in PostRecords
  BY <1>1 DEF PostRecords, Later
<1> HIDE DEF next
<1>3. posts' = BagAdd(BagRemove(posts, p), next) /\ UNCHANGED <<clicks, asked, page>>
  BY DEF GoOn, next, Later
<1>4. /\ IsABag(posts')
      /\ BagToSet(posts') \subseteq BagToSet(posts) \cup {next}
  BY <1>1, <1>3, BagTypes DEF PostsOK
<1>5. PostsOK'
  BY <1>1, <1>2, <1>3, <1>4 DEF PostsOK
<1> QED
  BY <1>3, <1>4, <1>5 DEF next

\* What a step must leave of the forms' state.
Kept ==
    /\ TablesOK' /\ PostsOK'
    /\ \A k \in UsedKeys : Stored(k) => idem'[k] = idem[k] /\ Stored(k)'
    /\ \A k \in UsedKeys : Stored(k)' => RecordFits(k)'
    /\ \A k, w : Chosen(k, w) => Chosen(k, w)'
    /\ asked \subseteq asked' /\ confirmable \subseteq confirmable'

\* A post that a step does not concern stays as it should be.
LEMMA PostStays ==
    ASSUME FormsOK, Kept, NEW p \in BagToSet(posts), PostFits(p)
    PROVE  PostFits(p)'
<1>1. ChosenFor(p.request) => ChosenFor(p.request)'
  BY DEF Kept, ChosenFor
<1>2. Answered(p.request) => Answered(p.request)'
  BY PostTypes DEF Kept, Answered
<1> QED
  BY <1>1, <1>2 DEF PostFits, Kept, NeedsConfirmation, IsForm, Asks

\* The invariant is preserved if what is new is as it should be.
LEMMA InvariantByParts ==
    ASSUME FormsInv, Kept,
           offered' \in [FormKeys -> SUBSET Wallets],
           \A k \in FormKeys : \A w \in offered'[k] : w \in offered[k] \/ Chosen(k, w)',
           \A r \in confirmable' : r \in confirmable
                                   \/ (r \in Requests /\ Req[r].op = "TRANSFER" /\ ChosenFor(r)'),
           \A p \in BagToSet(posts') : p \in BagToSet(posts) \/ PostFits(p)',
           page' # NoPage => page' = page \/ (page'.request \in Requests /\ Stored(KeyFor(page))')
    PROVE  FormsInv'
<1>1. TablesOK /\ FormsOK /\ FormsFit
  BY DEF FormsInv
<1>2. FormsOK'
  <2>1. /\ PostsOK' /\ offered' \in [FormKeys -> SUBSET Wallets]
        /\ confirmable' \subseteq {r \in Requests : Req[r].op = "TRANSFER"}
    BY <1>1, FormsByParts DEF Kept
  <2> QED
    BY <2>1 DEF FormsOK, PostsOK, PostRecords, ShownAnswers
<1>3. \A k \in FormKeys : \A w \in offered'[k] : Chosen(k, w)'
  BY <1>1 DEF FormsFit, Kept
<1>4. \A r \in confirmable' : ChosenFor(r)'
  BY <1>1 DEF FormsFit, Kept, ChosenFor
<1>5. \A p \in BagToSet(posts') : PostFits(p)'
  BY <1>1, PostStays DEF FormsFit
<1>6. page' # NoPage => page'.request \in Requests /\ Stored(KeyFor(page))'
  <2> SUFFICES ASSUME page' # NoPage, page' = page PROVE page'.request \in Requests /\ Stored(KeyFor(page))'
    OBVIOUS
  <2>1. page.request \in Requests /\ Stored(KeyFor(page)) /\ KeyFor(page) \in UsedKeys
    BY <1>1, RequestParts DEF FormsFit, KeyFor, Asks
  <2> QED
    BY <2>1 DEF Kept, KeyFor, Asks
<1> QED
  BY <1>2, <1>3, <1>4, <1>5, <1>6 DEF FormsInv, FormsFit, Kept

\* The table part of what a step must leave.
LEMMA TablesKept ==
    ASSUME FormsInv, TablesStep, PostsOK', asked \subseteq asked', confirmable \subseteq confirmable'
    PROVE  Kept
<1>1. TablesOK /\ \A k \in UsedKeys : Stored(k) => RecordFits(k)
  BY DEF FormsInv, FormsFit
<1>2. TablesOK'
  BY <1>1, TablesStepTypes
<1>3. \A k, w : Chosen(k, w) => Chosen(k, w)'
  BY <1>1, ChoicesStay
<1> QED
  BY <1>1, <1>2, <1>3, RecordsStay DEF Kept

\* Wallets that a form lets choose now are choices.
LEMMA SelectableIsChosen ==
    ASSUME NEW k, NEW w \in Selectable(k)
    PROVE  w \in Wallets /\ Chosen(k, w)
BY DEF Selectable, Chosen

\* Rendering a form again adds such wallets.
LEMMA AfterRendering ==
    ASSUME FormsOK, NEW j, RenderAgain(j) \/ offered' = offered
    PROVE  /\ offered' \in [FormKeys -> SUBSET Wallets]
           /\ \A k \in FormKeys : \A w \in offered'[k] : w \in offered[k] \/ Chosen(k, w)
<1>1. offered \in [FormKeys -> SUBSET Wallets]
  BY FormsByParts
<1>2. CASE offered' = offered
  BY <1>1, <1>2
<1>3. CASE j \in FormKeys /\ offered' = [offered EXCEPT ![j] = @ \cup Selectable(j)]
  BY <1>1, <1>3, SelectableIsChosen
<1> QED
  BY <1>2, <1>3 DEF RenderAgain

\* What telling an answer may do to forms and confirmation pages.
Rendered(p) == RenderAgain(KeyFor(p)) \/ offered' = offered
Confirmed(p) == \/ confirmable' = confirmable
                \/ /\ confirmable' = confirmable \cup {p.request}
                   /\ Asks(p).op = "TRANSFER" /\ ChosenFor(p.request)

\* A post that is told an answer: what remains to be shown is that a repeated
\* request has its answer on record.
LEMMA TellKeepsInvariant ==
    ASSUME FormsInv, NEW p \in BagToSet(posts), NEW a \in ShownAnswers, Tell(p, a), TablesStep,
           Rendered(p), Confirmed(p)
    PROVE  FormsInv' /\ Kept
<1>1. FormsOK /\ PostFits(p) /\ p.request \in Requests /\ Asks(p) = Req[p.request]
      /\ KeyOf(Req[p.request]) \in UsedKeys /\ KeyFor(p) = KeyOf(Req[p.request])
  BY PostTypes DEF FormsInv, FormsFit
<1>2. /\ PostsOK' /\ BagToSet(posts') \subseteq BagToSet(posts) /\ asked' = asked
      /\ page' # NoPage => p.repeated /\ page' = [request |-> p.request, answer |-> a]
  BY <1>1, AfterTell
<1>3. Kept
  BY <1>2, TablesKept DEF Confirmed
<1>4. /\ offered' \in [FormKeys -> SUBSET Wallets]
      /\ \A k \in FormKeys : \A w \in offered'[k] : w \in offered[k] \/ Chosen(k, w)'
  BY <1>1, <1>3, AfterRendering DEF Kept, Rendered
<1>5. \A r \in confirmable' : r \in confirmable
                              \/ (r \in Requests /\ Req[r].op = "TRANSFER" /\ ChosenFor(r)')
  BY <1>1, <1>3 DEF Kept, ChosenFor, Confirmed
<1>6. ASSUME page' # NoPage PROVE page'.request \in Requests /\ Stored(KeyFor(page))'
  <2>1. page'.request = p.request /\ Stored(KeyOf(Req[p.request]))
    BY <1>1, <1>2, <1>6 DEF PostFits, Answered
  <2>2. Stored(KeyOf(Req[p.request]))'
    BY <1>1, <1>3, <2>1 DEF Kept
  <2> QED
    BY <1>1, <2>1, <2>2 DEF KeyFor, Asks
<1> QED
  BY <1>2, <1>3, <1>4, <1>5, <1>6, InvariantByParts

\* A post that goes on.
LEMMA GoOnKeepsInvariant ==
    ASSUME FormsInv, NEW p \in BagToSet(posts), NEW stage \in {"service", "refused"},
           NEW code \in BusinessCodes \cup {NoCode}, GoOn(p, stage, code),
           UNCHANGED <<tables, context, offered, confirmable>>,
           ~NeedsConfirmation(p.request, p.confirmed),
           stage = "refused" => /\ EarlyError(Asks(p)) = Accepted /\ Asks(p).op \in Audited
                                /\ code \in BusinessCodes /\ ~Stored(KeyFor(p))
    PROVE  FormsInv' /\ Kept
<1>1. FormsOK /\ PostFits(p) /\ p \in PostRecords /\ p.request \in Requests
      /\ Asks(p) = Req[p.request] /\ KeyFor(p) = KeyOf(Req[p.request])
  BY PostTypes DEF FormsInv, FormsFit
<1> DEFINE next == Later(p, stage, code)
<1>2. /\ PostsOK' /\ asked' = asked /\ page' = page
      /\ \A x \in BagToSet(posts') : x \in BagToSet(posts) \/ x = next
  <2>1. stage \in {"form", "service", "refused"}
    OBVIOUS
  <2> QED
    BY <1>1, <2>1, AfterGoOn
<1>3. Kept
  BY <1>2, TablesKept DEF TablesStep
<1>4. /\ next.request = p.request /\ next.confirmed = p.confirmed /\ next.repeated = p.repeated
      /\ next.stage = stage /\ next.code = code
  BY <1>1 DEF PostRecords, Later
<1> HIDE DEF next
<1>5. PostFits(next)
  BY <1>1, <1>4 DEF PostFits, Asks, Answered
<1>6. PostFits(next)'
  BY <1>2, <1>3, <1>5 DEF PostFits, Kept, NeedsConfirmation, IsForm, Asks, ChosenFor, Answered, Stored, Chosen, WasFrozen, tables
<1> QED
  BY <1>1, <1>2, <1>3, <1>6, InvariantByParts, FormsByParts

-----------------------------------------------------------------------------
(* The steps.                                                               *)

\* Opening a page.
LEMMA GetFormInvariant ==
    ASSUME FormsInv, NEW k \in FormKeys, GetForm(k)
    PROVE  FormsInv' /\ Kept
<1>1. FormsOK
  BY DEF FormsInv
<1>2. PostsOK' /\ UNCHANGED <<tables, context, confirmable, posts, asked, page>>
  BY <1>1, FormsByParts DEF GetForm, PostsOK
<1>3. Kept
  BY <1>2, TablesKept DEF TablesStep
<1>4. /\ offered' \in [FormKeys -> SUBSET Wallets]
      /\ \A j \in FormKeys : \A w \in offered'[j] : w \in offered[j] \/ Chosen(j, w)
  BY <1>1, FormsByParts, SelectableIsChosen DEF GetForm
<1>5. \A j \in FormKeys : \A w \in offered'[j] : w \in offered[j] \/ Chosen(j, w)'
  BY <1>3, <1>4 DEF Kept
<1> QED
  BY <1>1, <1>2, <1>3, <1>4, <1>5, InvariantByParts, FormsByParts

\* A new post has nothing behind it, or the confirmation page it comes from.
LEMMA PostInvariant ==
    ASSUME FormsInv, NEW r \in Requests, Browse(r)
    PROVE  FormsInv' /\ Kept
<1>1. FormsOK /\ PostsOK /\ FormsFit
  BY FormsByParts DEF FormsInv
<1>2. PICK confirmed \in BOOLEAN, stage \in {"form", "service"} :
        /\ Post(r, confirmed, stage)
        /\ confirmed => r \in confirmable
        /\ stage = "form" => ChosenFor(r)
        /\ stage = "service" => ~IsForm(r)
  <2>1. CASE SubmitForm(r)
    BY <1>1, <2>1 DEF SubmitForm, IsForm, FormsFit, ChosenFor
  <2>2. CASE ConfirmTransfer(r)
    BY <1>1, <2>2 DEF ConfirmTransfer, FormsFit
  <2>3. CASE CallApi(r)
    BY <2>3 DEF CallApi
  <2> QED
    BY <2>1, <2>2, <2>3 DEF Browse
<1>3. /\ clicks < MaxPosts /\ clicks' = clicks + 1
      /\ posts' = BagAdd(posts, [request |-> r, confirmed |-> confirmed, stage |-> stage,
                                 code |-> NoCode, repeated |-> Answered(r)])
      /\ asked' = IF NeedsConfirmation(r, confirmed) THEN asked ELSE asked \cup {r}
      /\ UNCHANGED <<tables, context, offered, confirmable, page>>
  BY <1>2 DEF Post
<1>4. Answered(r) \in BOOLEAN
  BY DEF Answered
<1>5. PICK post \in PostRecords :
        /\ posts' = BagAdd(posts, post)
        /\ post.request = r /\ post.confirmed = confirmed /\ post.stage = stage
        /\ post.repeated <=> Answered(r)
  BY <1>2, <1>3, <1>4 DEF PostRecords
<1>6. IsABag(posts') /\ BagToSet(posts') = BagToSet(posts) \cup {post}
  BY <1>1, <1>5, BagTypes DEF PostsOK
<1>7. PostsOK' /\ asked \subseteq asked'
  <2>1. clicks' \in 0..MaxPosts
    BY <1>1, <1>3, FormsAssumption DEF PostsOK
  <2> QED
    BY <1>1, <1>3, <1>6, <2>1 DEF PostsOK
<1>8. Kept
  BY <1>3, <1>7, TablesKept DEF TablesStep
<1>9. PostFits(post)'
  <2>1. /\ NeedsConfirmation(r, confirmed) \/ r \in asked'
        /\ confirmed => r \in confirmable'
        /\ stage = "service" => ~NeedsConfirmation(r, confirmed)
    BY <1>2, <1>3 DEF NeedsConfirmation
  <2>2. stage = "form" => ChosenFor(r)'
    BY <1>2, <1>8 DEF Kept, ChosenFor
  <2>3. Answered(r) => Answered(r)'
    BY <1>3 DEF Answered, Stored, tables
  <2> QED
    BY <1>2, <1>5, <2>1, <2>2, <2>3 DEF PostFits, NeedsConfirmation, IsForm
<1> QED
  BY <1>1, <1>3, <1>6, <1>8, <1>9, InvariantByParts, FormsByParts

\* The form's own checks.
LEMMA CheckInvariant ==
    ASSUME FormsInv, NEW p \in BagToSet(posts), Check(p)
    PROVE  FormsInv' /\ Kept
<1>1. FormsOK /\ PostFits(p) /\ p \in PostRecords /\ p.request \in Requests
      /\ Asks(p) = Req[p.request] /\ KeyFor(p) = KeyOf(Req[p.request])
  BY PostTypes DEF FormsInv, FormsFit
<1>2. \A code \in {"invalid_form", "confirm"} : ErrorAnswer(code) \in ShownAnswers
  BY ShownTypes
<1>3. CASE InvalidForm(p)
  BY <1>2, <1>3, TellKeepsInvariant DEF InvalidForm, TellError, TablesStep, Rendered, Confirmed
<1>4. CASE ShowConfirmation(p)
  <2>1. Asks(p).op = "TRANSFER" /\ ChosenFor(p.request)
    BY <1>1, <1>4 DEF ShowConfirmation, NeedsConfirmation, PostFits
  <2>2. confirmable' = confirmable \/ confirmable' = confirmable \cup {p.request}
    BY <1>4 DEF ShowConfirmation
  <2>3. Tell(p, ErrorAnswer("confirm")) /\ UNCHANGED <<tables, context, offered>>
    BY <1>4 DEF ShowConfirmation
  <2> QED
    BY <1>2, <2>1, <2>2, <2>3, TellKeepsInvariant DEF TablesStep, Rendered, Confirmed
<1>5. CASE EnterService(p)
  BY <1>5, GoOnKeepsInvariant DEF EnterService
<1> QED
  BY <1>3, <1>4, <1>5 DEF Check

\* What the service does to the tables is a step of AtomicWallet.
LEMMA ServeIsAtomic ==
    ASSUME FormsInv, NEW p \in BagToSet(posts)
    PROVE  /\ PerformRequest(p) => Perform(Req[p.request])
           /\ RecordRefusal(p) => Record(Req[p.request])
<1>1. PostFits(p)
  BY DEF FormsInv, FormsFit
<1> QED
  BY <1>1 DEF PerformRequest, RecordRefusal, Record, PostFits, Asks, KeyFor

\* The answer to a performed request.
LEMMA PerformedAnswer ==
    ASSUME FormsInv, NEW p \in BagToSet(posts), PerformRequest(p)
    PROVE  idem'[KeyFor(p)].answer \in Answers
<1>1. TablesOK /\ p.request \in Requests /\ KeyFor(p) \in UsedKeys
  BY PostTypes DEF FormsInv
<1>2. TablesOK'
  BY <1>1, ServeIsAtomic, TablesStepTypes DEF TablesStep
<1>3. idem'[KeyFor(p)] \in IdemRecords
  BY <1>1, <1>2 DEF TablesOK
<1> QED
  BY <1>3 DEF IdemRecords

\* The service.
LEMMA ServeInvariant ==
    ASSUME FormsInv, NEW p \in BagToSet(posts), Serve(p)
    PROVE  FormsInv' /\ Kept
<1>1. FormsOK /\ TablesOK /\ PostFits(p) /\ p \in PostRecords /\ p.request \in Requests
      /\ Asks(p) = Req[p.request] /\ KeyFor(p) = KeyOf(Req[p.request]) /\ KeyFor(p) \in UsedKeys
  BY PostTypes DEF FormsInv, FormsFit
<1>2. \A code \in Codes : ErrorAnswer(code) \in ShownAnswers
  BY ShownTypes
<1>3. UNCHANGED <<tables, context>> => TablesStep
  BY DEF TablesStep
<1>4. CASE RefuseAtOnce(p)
  <2>1. EarlyError(Asks(p)) \in Codes
    BY <1>1, ErrorTypes
  <2> QED
    BY <1>2, <1>3, <1>4, <2>1, TellKeepsInvariant DEF Rendered, Confirmed, RefuseAtOnce, TellError
<1>5. CASE TellStored(p)
  <2>1. /\ idem[KeyFor(p)].answer \in ShownAnswers
        /\ idem[KeyFor(p)].answer.code \in Codes
    BY <1>1, ShownTypes DEF TablesOK, IdemRecords, Answers
  <2>2. CASE idem[KeyFor(p)].answer.code = Accepted
    BY <1>3, <1>5, <2>1, <2>2, TellKeepsInvariant DEF Rendered, Confirmed, TellStored
  <2>3. CASE idem[KeyFor(p)].answer.code # Accepted
    BY <1>2, <1>3, <1>5, <2>1, <2>3, TellKeepsInvariant DEF Rendered, Confirmed, TellStored, TellError
  <2> QED
    BY <2>2, <2>3
<1>6. CASE TellConflict(p)
  <2>1. "conflict" \in Codes
    BY DEF Codes
  <2> QED
    BY <1>2, <1>3, <1>6, <2>1, TellKeepsInvariant DEF Rendered, Confirmed, TellConflict, TellError
<1>7. CASE PerformRequest(p)
  <2>1. TablesStep
    BY <1>1, <1>7, ServeIsAtomic DEF TablesStep
  <2>2. idem'[KeyFor(p)].answer \in ShownAnswers
    BY <1>7, PerformedAnswer, ShownTypes
  <2>3. Tell(p, idem'[KeyFor(p)].answer) /\ offered' = offered /\ confirmable' = confirmable
    BY <1>7 DEF PerformRequest
  <2> QED
    BY <2>1, <2>2, <2>3, TellKeepsInvariant DEF Rendered, Confirmed
<1>8. CASE RefuseByRules(p)
  <2>1. Verdict(Asks(p)) \in BusinessCodes /\ Verdict(Asks(p)) \in Codes
    BY <1>8, VerdictIsBusiness DEF RefuseByRules, Verdict, Codes
  <2>2. CASE Asks(p).op \in Audited
    <3>1. ~NeedsConfirmation(p.request, p.confirmed)
      BY <1>1, <1>8 DEF RefuseByRules, Serving, PostFits
    <3>2. /\ EarlyError(Asks(p)) = Accepted /\ ~Stored(KeyFor(p))
          /\ GoOn(p, "refused", Verdict(Asks(p)))
          /\ UNCHANGED <<tables, context, offered, confirmable>>
      BY <1>8, <2>2 DEF RefuseByRules, Serving
    <3> QED
      BY <2>1, <2>2, <3>1, <3>2, GoOnKeepsInvariant
  <2>3. CASE Asks(p).op \notin Audited
    BY <1>2, <1>3, <1>8, <2>1, <2>3, TellKeepsInvariant DEF Rendered, Confirmed, RefuseByRules, TellError
  <2> QED
    BY <2>2, <2>3
<1>9. p.stage = "refused" => p.code \in Codes
  BY <1>1 DEF PostFits, Codes
<1>10. CASE RecordRefusal(p)
  <2>1. TablesStep
    BY <1>1, <1>10, ServeIsAtomic DEF TablesStep
  <2> QED
    BY <1>2, <1>9, <1>10, <2>1, TellKeepsInvariant DEF Rendered, Confirmed, RecordRefusal
<1>11. CASE SkipRecord(p)
  BY <1>2, <1>3, <1>9, <1>11, TellKeepsInvariant DEF Rendered, Confirmed, SkipRecord, TellError
<1>12. CASE ServerError(p)
  <2>1. "server_error" \in Codes
    BY DEF Codes
  <2> QED
    BY <1>2, <1>3, <1>12, <2>1, TellKeepsInvariant DEF Rendered, Confirmed, ServerError
<1> QED
  BY <1>4, <1>5, <1>6, <1>7, <1>8, <1>10, <1>11, <1>12 DEF Serve

\* Every step of the forms keeps the invariant, and does to the tables what
\* AtomicWallet does.
LEMMA FormsStep ==
    ASSUME FormsInv, [FormsNext]_<<tables, context, forms>>
    PROVE  FormsInv' /\ Kept /\ TablesStep
<1>1. ASSUME NEW p \in BagToSet(posts), Check(p) \/ Serve(p) PROVE TablesStep
  <2>1. p.request \in Requests
    BY PostTypes DEF FormsInv
  <2>2. PerformRequest(p) \/ RecordRefusal(p) \/ UNCHANGED <<tables, context>>
    BY <1>1 DEF Check, Serve, InvalidForm, ShowConfirmation, EnterService, RefuseAtOnce,
       TellStored, TellConflict, RefuseByRules, SkipRecord, ServerError, TellError
  <2> QED
    BY <2>1, <2>2, ServeIsAtomic DEF TablesStep
<1>2. ASSUME NEW w \in Wallets, NEW freeze \in BOOLEAN, SetFrozen(w, freeze), UNCHANGED forms
      PROVE  FormsInv' /\ Kept /\ TablesStep
  <2>1. TablesStep
    BY <1>2 DEF TablesStep
  <2>2. PostsOK' /\ UNCHANGED <<offered, confirmable, posts, asked, page>>
    BY <1>2, FormsByParts DEF FormsInv, forms, PostsOK
  <2>3. Kept
    BY <2>1, <2>2, TablesKept
  <2> QED
    BY <2>1, <2>2, <2>3, InvariantByParts, FormsByParts DEF FormsInv
<1>3. CASE UNCHANGED <<tables, context, forms>>
  <2>1. TablesStep
    BY <1>3 DEF TablesStep
  <2>2. PostsOK' /\ UNCHANGED <<offered, confirmable, posts, asked, page>>
    BY <1>3, FormsByParts DEF FormsInv, forms, PostsOK
  <2>3. Kept
    BY <2>1, <2>2, TablesKept
  <2> QED
    BY <2>1, <2>2, <2>3, InvariantByParts, FormsByParts DEF FormsInv
<1>4. ASSUME NEW k \in FormKeys, GetForm(k) PROVE TablesStep
  BY <1>4 DEF GetForm, TablesStep
<1>5. ASSUME NEW r \in Requests, Browse(r) PROVE TablesStep
  BY <1>5 DEF Browse, SubmitForm, ConfirmTransfer, CallApi, Post, TablesStep
<1> QED
  BY <1>1, <1>2, <1>3, <1>4, <1>5, GetFormInvariant, PostInvariant, CheckInvariant, ServeInvariant
  DEF FormsNext

\* The invariant holds at the start.
LEMMA FormsInvInit == TablesInit /\ FormsInit => FormsInv
<1> SUFFICES ASSUME TablesInit, FormsInit PROVE FormsInv
  OBVIOUS
<1>1. TablesOK
  BY TablesInitTypes
<1>2. IsABag(posts) /\ BagToSet(posts) = {}
  BY DEF FormsInit, EmptyBag, SetToBag, IsABag, BagToSet
<1>3. NoPage.request = 0 /\ NoPage.answer \in ShownAnswers
  BY ShownTypes DEF NoPage, NoAnswer, Codes
<1>4. PostsOK
  BY <1>2, <1>3, FormsAssumption DEF FormsInit, PostsOK
<1>5. FormsOK
  BY <1>4, FormsByParts DEF FormsInit
<1>6. FormsFit
  BY <1>2 DEF FormsInit, TablesInit, FormsFit, Stored
<1> QED
  BY <1>1, <1>5, <1>6 DEF FormsInv

\* Reading pages changes neither the tables nor the forms.
LEMMA WebIsForms == WebSpec => FormsSpec
<1>1. WebInit => TablesInit /\ FormsInit
  BY DEF WebInit
<1>2. [WebNext]_everything => [FormsNext]_<<tables, context, forms>>
  BY DEF WebNext, everything, HistoryNext, OpenList, CountRows, FetchPage, NextPage, Quiet
<1> QED
  BY <1>1, <1>2, PTL DEF WebSpec, FormsSpec

\* The invariant holds throughout.
LEMMA FormsInvHolds == WebSpec => []FormsInv
<1>1. FormsInv /\ [FormsNext]_<<tables, context, forms>> => FormsInv'
  BY FormsStep
<1> QED
  BY FormsInvInit, <1>1, WebIsForms, PTL DEF FormsSpec

-----------------------------------------------------------------------------
(* The forms implement AtomicWallet and FormPromise.                        *)

\* The whole site, with its renderings, repeated posts and stages, does to the
\* tables only what AtomicWallet lets it do.
THEOREM SiteIsAtomic == WebSpec => Spec
<1>1. TablesInit => Init
  BY DEF Init
<1>2. FormsInv /\ [FormsNext]_<<tables, context, forms>> => [Next]_<<tables, context>>
  BY FormsStep DEF TablesStep, Next
<1> QED
  BY <1>1, <1>2, FormsInvHolds, WebIsForms, PTL DEF FormsSpec, Spec

\* A performed request moves its form from open to moved, and the balances by
\* its effect.
LEMMA PerformMoves ==
    ASSUME FormsInv, NEW r \in Requests, r \in asked, asked' = asked, Perform(Req[r])
    PROVE  Promise!Move(r)
<1>1. /\ TablesOK /\ wallet \in [Wallets -> WalletRow] /\ idem \in [UsedKeys -> IdemRecords]
      /\ KeyOf(Req[r]) \in UsedKeys /\ MaxBalance \in Nat
      /\ Touched(Req[r]) \subseteq Wallets
  BY RulesAssumption, RequestParts DEF FormsInv, TablesOK
<1>2. PICK reference \in Refs : PostMoney(Req[r], wallet, reference)
  BY <1>1, PerformedRequest
<1>3. /\ ~Stored(KeyOf(Req[r]))
      /\ \A w \in Touched(Req[r]) : wallet[w].balance + Delta(Req[r], w) \in 0..MaxBalance
  BY <1>1, PerformedRequest
<1>4. ASSUME NEW w \in Wallets
      PROVE  /\ wallet'[w].balance = wallet[w].balance + RequestEffect[r][w]
             /\ wallet'[w].balance >= 0
  <2>1. wallet[w].balance \in 0..MaxBalance
    BY <1>1 DEF WalletRow
  <2>2. CASE w \in Touched(Req[r])
    BY <1>1, <1>2, <1>3, <2>1, <2>2 DEF PostMoney, RequestEffect, WalletRow
  <2>3. CASE w \notin Touched(Req[r])
    BY <1>1, <1>2, <2>1, <2>3 DEF PostMoney, RequestEffect
  <2> QED
    BY <2>2, <2>3
<1>5. /\ idem'[KeyOf(Req[r])].answer.code = Accepted
      /\ idem'[KeyOf(Req[r])].transaction = Len(transactions) + 1
      /\ \A k \in UsedKeys : k # KeyOf(Req[r]) => idem'[k] = idem[k]
  BY <1>1, <1>2 DEF PostMoney, Receipt
<1>6. Stored(KeyOf(Req[r]))'
  <2>1. Len(transactions) + 1 # 0
    BY <1>1 DEF TablesOK
  <2> QED
    BY <1>5, <2>1 DEF Stored, NoRecord
<1>7. /\ Fate(KeyOf(Req[r])) = "open" /\ Fate(KeyOf(Req[r]))' = "moved"
      /\ \A k \in UsedKeys : k # KeyOf(Req[r]) => Fate(k)' = Fate(k)
  BY <1>3, <1>5, <1>6 DEF Fate, Stored
<1>8. [k \in UsedKeys |-> Fate(k)'] = [[k \in UsedKeys |-> Fate(k)] EXCEPT ![KeyOf(Req[r])] = "moved"]
  BY <1>1, <1>7
<1>9. /\ [w \in Wallets |-> wallet'[w].balance]
           = [a \in Wallets |-> [w \in Wallets |-> wallet[w].balance][a] + RequestEffect[r][a]]
      /\ \A a \in Wallets : [w \in Wallets |-> wallet'[w].balance][a] >= 0
  BY <1>4
<1>10. RequestKey[r] = KeyOf(Req[r])
  BY DEF RequestKey
<1> QED
  BY <1>1, <1>7, <1>8, <1>9, <1>10 DEF Promise!Move, Promise!Decide

\* A refusal on record moves its form from open to refused.
LEMMA RecordRefuses ==
    ASSUME FormsInv, NEW r \in Requests, r \in asked, asked' = asked, Record(Req[r])
    PROVE  Promise!Refuse(r)
<1>1. /\ TablesOK /\ idem \in [UsedKeys -> IdemRecords] /\ KeyOf(Req[r]) \in UsedKeys
  BY RequestParts DEF FormsInv, TablesOK
<1>2. PICK code \in BusinessCodes, reference \in Refs : PostFailure(Req[r], code, reference)
  BY <1>1, RecordedRequest
<1>3. ~Stored(KeyOf(Req[r]))
  BY <1>1, RecordedRequest
<1>4. /\ idem'[KeyOf(Req[r])].answer.code = code /\ code # Accepted
      /\ idem'[KeyOf(Req[r])].transaction = Len(transactions) + 1
      /\ \A k \in UsedKeys : k # KeyOf(Req[r]) => idem'[k] = idem[k]
  BY <1>1, <1>2 DEF PostFailure, ErrorAnswer, BusinessCodes, Accepted
<1>5. Stored(KeyOf(Req[r]))'
  <2>1. Len(transactions) + 1 # 0
    BY <1>1 DEF TablesOK
  <2> QED
    BY <1>4, <2>1 DEF Stored, NoRecord
<1>6. /\ Fate(KeyOf(Req[r])) = "open" /\ Fate(KeyOf(Req[r]))' = "refused"
      /\ \A k \in UsedKeys : k # KeyOf(Req[r]) => Fate(k)' = Fate(k)
  BY <1>3, <1>4, <1>5 DEF Fate, Stored
<1>7. [k \in UsedKeys |-> Fate(k)'] = [[k \in UsedKeys |-> Fate(k)] EXCEPT ![KeyOf(Req[r])] = "refused"]
  BY <1>1, <1>6
<1>8. RequestKey[r] = KeyOf(Req[r]) /\ wallet' = wallet
  BY <1>2 DEF RequestKey, PostFailure
<1> QED
  BY <1>1, <1>6, <1>7, <1>8 DEF Promise!Refuse, Promise!Decide

\* Every step of the forms is a step of the promise, or none.
LEMMA PromiseStep ==
    ASSUME FormsInv, [FormsNext]_<<tables, context, forms>>
    PROVE  [Promise!Next]_(Promise!promised)
<1>0. UNCHANGED <<wallet, idem, asked>> => UNCHANGED (Promise!promised)
  BY DEF Promise!promised, Fate, Stored
<1>1. ASSUME NEW p \in BagToSet(posts), Serve(p) PROVE [Promise!Next]_(Promise!promised)
  <2>1. /\ PostFits(p) /\ p.request \in Requests
    BY PostTypes DEF FormsInv, FormsFit
  <2>2. CASE PerformRequest(p) \/ RecordRefusal(p)
    <3>1. p.request \in asked /\ asked' = asked
      BY <2>1, <2>2 DEF PerformRequest, RecordRefusal, Tell, PostFits
    <3>2. Promise!Move(p.request) \/ Promise!Refuse(p.request)
      BY <2>1, <2>2, <3>1, ServeIsAtomic, PerformMoves, RecordRefuses
    <3> QED
      BY <3>1, <3>2 DEF Promise!Next
  <2>3. CASE ~PerformRequest(p) /\ ~RecordRefusal(p)
    <3>1. UNCHANGED <<wallet, idem, asked>>
      BY <1>1, <2>3 DEF Serve, RefuseAtOnce, TellStored, TellConflict, RefuseByRules, SkipRecord,
         ServerError, TellError, Tell, GoOn, tables
    <3> QED
      BY <1>0, <3>1
  <2> QED
    BY <2>2, <2>3
<1>2. ASSUME NEW p \in BagToSet(posts), Check(p) PROVE [Promise!Next]_(Promise!promised)
  BY <1>0, <1>2 DEF Check, InvalidForm, ShowConfirmation, EnterService, TellError, Tell, GoOn, tables
<1>3. ASSUME NEW r \in Requests, Browse(r) PROVE [Promise!Next]_(Promise!promised)
  <2>1. UNCHANGED <<wallet, idem>> /\ (asked' = asked \/ asked' = asked \cup {r})
    BY <1>3 DEF Browse, SubmitForm, ConfirmTransfer, CallApi, Post, tables
  <2>2. asked' = asked \cup {r} => Promise!Ask(r)
    BY <2>1 DEF Promise!Ask, Fate, Stored
  <2> QED
    BY <1>0, <2>1, <2>2 DEF Promise!Next
<1>4. ASSUME NEW k \in FormKeys, GetForm(k) PROVE [Promise!Next]_(Promise!promised)
  BY <1>0, <1>4 DEF GetForm, tables
<1>5. ASSUME NEW w \in Wallets, NEW freeze \in BOOLEAN, SetFrozen(w, freeze), UNCHANGED forms
      PROVE  UNCHANGED (Promise!promised)
  <2>1. \A v \in Wallets : wallet'[v].balance = wallet[v].balance
    BY <1>5 DEF SetFrozen, FormsInv, TablesOK, WalletRow
  <2> QED
    BY <1>5, <2>1 DEF SetFrozen, forms, Promise!promised, Fate, Stored
<1>6. CASE UNCHANGED <<tables, context, forms>>
  BY <1>0, <1>6 DEF tables, forms
<1> QED
  BY <1>1, <1>2, <1>3, <1>4, <1>5, <1>6 DEF FormsNext

\* However often, edited, late or twice at once a form is sent, it is decided
\* once, by one of the orders it was sent with.
THEOREM PromiseIsKept == WebSpec => KeepsPromise
<1>1. TablesInit /\ FormsInit => Promise!Init
  BY DEF TablesInit, FormsInit, Promise!Init, Fate, Stored, OpeningBalance
<1>2. FormsInv /\ [FormsNext]_<<tables, context, forms>> => [Promise!Next]_(Promise!promised)
  BY PromiseStep
<1> QED
  BY <1>1, <1>2, FormsInvHolds, WebIsForms, PTL DEF FormsSpec, KeepsPromise, Promise!Spec

-----------------------------------------------------------------------------
(* Confirmed transfers.                                                     *)

\* A key that has moved money by this step was sent by a post that went through
\* the service, and names the transaction of that post's request.
LEMMA MovedByPost ==
    ASSUME FormsInv, [FormsNext]_<<tables, context, forms>>, NEW k \in UsedKeys,
           ~Stored(k), Stored(k)', idem'[k].answer.code = Accepted
    PROVE  \E p \in BagToSet(posts) :
              /\ PerformRequest(p) /\ KeyFor(p) = k
              /\ \E reference \in Refs :
                    transactions'[idem'[k].transaction]
                        = TransactionRow(Req[p.request], reference, "COMPLETED", today)
<1>1. TablesOK /\ idem \in [UsedKeys -> IdemRecords] /\ transactions \in Seq(TransactionRows)
  BY DEF FormsInv, TablesOK
<1>2. PICK p \in BagToSet(posts) : PerformRequest(p) \/ RecordRefusal(p)
  BY DEF FormsNext, GetForm, Browse, SubmitForm, ConfirmTransfer, CallApi, Post, Check, Serve,
     InvalidForm, ShowConfirmation, EnterService, RefuseAtOnce, TellStored, TellConflict,
     RefuseByRules, SkipRecord, ServerError, TellError, SetFrozen, tables, Stored
<1>3. /\ p.request \in Requests /\ KeyFor(p) = KeyOf(Req[p.request]) /\ KeyFor(p) \in UsedKeys
  BY PostTypes DEF FormsInv
<1>4. \A v \in UsedKeys : v # KeyFor(p) => idem'[v] = idem[v]
  BY <1>1, <1>2, <1>3, ServeIsAtomic DEF Perform, PostMoney, Record, PostFailure
<1>5. KeyFor(p) = k
  BY <1>4 DEF Stored
<1>6. CASE RecordRefusal(p)
  <2>1. PICK code \in BusinessCodes, reference \in Refs : PostFailure(Req[p.request], code, reference)
    BY <1>1, <1>3, <1>6, ServeIsAtomic, RecordedRequest
  <2>2. idem'[k].answer.code = code /\ code # Accepted
    BY <1>1, <1>3, <1>5, <2>1 DEF PostFailure, ErrorAnswer, BusinessCodes, Accepted
  <2> QED
    BY <2>2
<1>7. CASE PerformRequest(p)
  <2>1. PICK reference \in Refs : PostMoney(Req[p.request], wallet, reference)
    BY <1>1, <1>3, <1>7, ServeIsAtomic, PerformedRequest
  <2>2. idem'[k].transaction = Len(transactions) + 1
    BY <1>1, <1>3, <1>5, <2>1 DEF PostMoney
  <2>3. transactions' = Append(transactions, TransactionRow(Req[p.request], reference, "COMPLETED", today))
    BY <2>1 DEF PostMoney
  <2>4. transactions'[Len(transactions) + 1]
            = TransactionRow(Req[p.request], reference, "COMPLETED", today)
    BY <1>1, <2>3
  <2> QED
    BY <1>5, <1>7, <2>2, <2>4
<1> QED
  BY <1>2, <1>6, <1>7

\* A transfer of form k that was confirmed, as the transaction row t.
ConfirmedAs(k, t, shown) ==
    \E r \in shown : /\ KeyOf(Req[r]) = k
                     /\ t = TransactionRow(Req[r], t.reference, "COMPLETED", t.created)

\* Every step keeps transfers confirmed.
LEMMA ConfirmedStep ==
    ASSUME FormsInv, ConfirmedTransfers, [FormsNext]_<<tables, context, forms>>
    PROVE  ConfirmedTransfers'
<1> SUFFICES ASSUME NEW k \in FormKeys, k[2] = "TRANSFER", Stored(k)',
                    idem'[k].answer.code = Accepted
             PROVE  ConfirmedAs(k, transactions'[idem'[k].transaction], confirmable')
  BY DEF ConfirmedTransfers, ConfirmedAs
<1>1. /\ k \in UsedKeys /\ Kept /\ TablesOK /\ FormsOK
      /\ \A v \in UsedKeys : Stored(v) => RecordFits(v)
  BY FormsStep, FormsAssumption DEF FormsInv, FormsFit
<1>2. CASE Stored(k)
  <2>1. idem'[k] = idem[k] /\ idem[k].transaction \in DOMAIN transactions
    BY <1>1, <1>2 DEF Kept, RecordFits
  <2>2. transactions'[idem[k].transaction] = transactions[idem[k].transaction]
    BY <1>1, <2>1, FormsStep, RecordsStay
  <2>3. ConfirmedAs(k, transactions[idem[k].transaction], confirmable)
    BY <1>2, <2>1 DEF ConfirmedTransfers, ConfirmedAs
  <2>4. confirmable \subseteq confirmable'
    BY <1>1 DEF Kept
  <2> QED
    BY <2>1, <2>2, <2>3, <2>4 DEF ConfirmedAs
<1>3. CASE ~Stored(k)
  <2>1. PICK p \in BagToSet(posts), reference \in Refs :
          /\ PerformRequest(p) /\ KeyFor(p) = k
          /\ transactions'[idem'[k].transaction]
                 = TransactionRow(Req[p.request], reference, "COMPLETED", today)
    BY <1>1, <1>3, MovedByPost
  <2>2. /\ p.request \in Requests /\ KeyFor(p) = KeyOf(Req[p.request]) /\ PostFits(p)
        /\ p \in PostRecords
    BY PostTypes DEF FormsInv, FormsFit
  <2>3. IsForm(p.request) /\ Req[p.request].op = "TRANSFER"
    BY <2>1, <2>2 DEF IsForm, KeyOf
  <2>4. p.request \in confirmable
    BY <2>1, <2>2, <2>3 DEF PerformRequest, PostFits, NeedsConfirmation, PostRecords
  <2>5. confirmable \subseteq confirmable'
    BY <1>1 DEF Kept
  <2> DEFINE row == TransactionRow(Req[p.request], reference, "COMPLETED", today)
  <2>6. row = TransactionRow(Req[p.request], row.reference, "COMPLETED", row.created)
    BY DEF TransactionRow
  <2> QED
    BY <2>1, <2>2, <2>4, <2>5, <2>6 DEF ConfirmedAs
<1> QED
  BY <1>2, <1>3

\* A form moves money by transfer only as its user has seen it on a confirmation
\* page, however it was edited, sent and sent again.
THEOREM ConfirmationHolds == WebSpec => []ConfirmedTransfers
<1>1. TablesInit /\ FormsInit => ConfirmedTransfers
  BY FormsAssumption DEF TablesInit, ConfirmedTransfers, Stored
<1>2. FormsInv /\ ConfirmedTransfers /\ [FormsNext]_<<tables, context, forms>> => ConfirmedTransfers'
  BY ConfirmedStep
<1> QED
  BY <1>1, <1>2, FormsInvHolds, WebIsForms, PTL DEF FormsSpec

-----------------------------------------------------------------------------
(* Repeated requests.                                                       *)

\* A request that has its answer on record has passed the checks that leave no
\* trace.
LEMMA AnsweredIsCleared ==
    ASSUME FormsInv, NEW r \in Requests, Answered(r)
    PROVE  EarlyError(Req[r]) = Accepted
<1>1. PICK s \in Requests : /\ KeyOf(Req[s]) = KeyOf(Req[r]) /\ EarlyError(Req[s]) = Accepted
                            /\ Fingerprint(Req[s]) = Fingerprint(Req[r])
  BY RequestParts DEF FormsInv, FormsFit, RecordFits, Answered
<1>2. /\ Req[s].actor = Req[r].actor /\ Req[s].op = Req[r].op /\ Req[s].key = Req[r].key
      /\ Req[s].amount = Req[r].amount
  BY <1>1 DEF KeyOf, Fingerprint
<1> QED
  BY <1>1, <1>2 DEF EarlyError

\* What a page may tell who repeats request r.
FitsRecord(r, answer) ==
    \/ answer = idem[KeyOf(Req[r])].answer
    \/ answer.code \in {"server_error", "confirm"}
    \/ answer.code = "invalid_form" /\ WasFrozen(Req[r].wallet)

\* The property of repeats is that of the page that is shown.
LEMMA RepeatsByRequest ==
    RepeatsGetTheStoredAnswer <=> (page # NoPage => FitsRecord(page.request, page.answer))
BY DEF RepeatsGetTheStoredAnswer, FitsRecord, KeyFor, Asks, WasFrozen

\* A form refuses a repeated request only if its wallet was frozen meanwhile.
LEMMA InvalidIsFrozen ==
    ASSUME FormsInv, NEW p \in BagToSet(posts), p.repeated, InvalidForm(p)
    PROVE  WasFrozen(Req[p.request].wallet)
<1>1. /\ PostFits(p) /\ p.request \in Requests /\ Asks(p) = Req[p.request]
  BY PostTypes DEF FormsInv, FormsFit
<1>2. EarlyError(Req[p.request]) = Accepted
  BY <1>1, AnsweredIsCleared DEF PostFits
<1>3. Req[p.request].op \in Audited => Req[p.request].amount > 0
  <2>1. Req[p.request].amount \in Int
    BY <1>1, RequestParts DEF Request
  <2> QED
    BY <1>2, <2>1 DEF EarlyError, Accepted
<1>4. Chosen(KeyOf(Req[p.request]), Req[p.request].wallet)
  BY <1>1 DEF InvalidForm, PostFits, ChosenFor
<1>5. Req[p.request].wallet \notin Selectable(KeyOf(Req[p.request]))
  BY <1>1, <1>3 DEF InvalidForm, FormIsValid
<1> QED
  BY <1>4, <1>5 DEF Chosen, Selectable

\* What a repeated request is told.
LEMMA RepeatIsTold ==
    ASSUME FormsInv, NEW p \in BagToSet(posts), p.repeated, Check(p) \/ Serve(p)
    PROVE  page' = page \/ (page'.request = p.request /\ FitsRecord(p.request, page'.answer))
<1>1. /\ PostFits(p) /\ p.request \in Requests /\ Asks(p) = Req[p.request]
      /\ KeyFor(p) = KeyOf(Req[p.request]) /\ KeyFor(p) \in UsedKeys
      /\ \A k \in UsedKeys : Stored(k) => RecordFits(k)
  BY PostTypes DEF FormsInv, FormsFit
<1>2. Answered(p.request) /\ Stored(KeyFor(p)) /\ EarlyError(Asks(p)) = Accepted
  BY <1>1, AnsweredIsCleared DEF PostFits, Answered
<1>3. p.stage # "refused"
  BY <1>1 DEF PostFits
<1>4. \A a : Tell(p, a) => page' = [request |-> p.request, answer |-> a]
  BY DEF Tell
<1>5. \A code : ErrorAnswer(code).code = code
  BY DEF ErrorAnswer
<1>6. CASE InvalidForm(p)
  BY <1>4, <1>5, <1>6, InvalidIsFrozen DEF InvalidForm, TellError, FitsRecord
<1>7. CASE ShowConfirmation(p)
  BY <1>4, <1>5, <1>7 DEF ShowConfirmation, FitsRecord
<1>8. CASE EnterService(p)
  BY <1>8 DEF EnterService, GoOn
<1>9. CASE TellStored(p)
  <2>1. idem[KeyFor(p)].answer.code # Accepted =>
           ErrorAnswer(idem[KeyFor(p)].answer.code) = idem[KeyFor(p)].answer
    BY <1>1, <1>2 DEF RecordFits
  <2>2. Tell(p, idem[KeyFor(p)].answer)
    BY <1>9, <2>1 DEF TellStored, TellError
  <2> QED
    BY <1>1, <1>4, <2>2 DEF FitsRecord
<1>10. CASE ServerError(p)
  BY <1>4, <1>5, <1>10 DEF ServerError, FitsRecord
<1>11. ~RefuseAtOnce(p) /\ ~TellConflict(p) /\ ~PerformRequest(p) /\ ~RefuseByRules(p)
       /\ ~RecordRefusal(p) /\ ~SkipRecord(p)
  BY <1>1, <1>2, <1>3 DEF RefuseAtOnce, TellConflict, PerformRequest, Perform, RefuseByRules,
     RecordRefusal, SkipRecord
<1> QED
  BY <1>6, <1>7, <1>8, <1>9, <1>10, <1>11 DEF Check, Serve

\* Every step keeps to the record.
LEMMA RepeatsStep ==
    ASSUME FormsInv, RepeatsGetTheStoredAnswer, [FormsNext]_<<tables, context, forms>>
    PROVE  RepeatsGetTheStoredAnswer'
<1>1. /\ Kept /\ TablesOK /\ TablesStep
  BY FormsStep DEF FormsInv
<1>2. ASSUME NEW r \in Requests, Stored(KeyOf(Req[r])), NEW a, FitsRecord(r, a)
      PROVE  FitsRecord(r, a)'
  <2>1. idem'[KeyOf(Req[r])] = idem[KeyOf(Req[r])]
    BY <1>1, <1>2, RequestParts DEF Kept
  <2>2. WasFrozen(Req[r].wallet) => WasFrozen(Req[r].wallet)'
    BY <1>1, FreezesStay
  <2> QED
    BY <1>2, <2>1, <2>2 DEF FitsRecord
<1>3. CASE page' = page
  <2>1. page # NoPage => /\ page.request \in Requests /\ Stored(KeyOf(Req[page.request]))
                         /\ FitsRecord(page.request, page.answer)
    BY RepeatsByRequest DEF FormsInv, FormsFit, KeyFor, Asks
  <2> SUFFICES ASSUME page # NoPage
               PROVE  FitsRecord(page.request, page.answer)'
    BY <1>3, <2>1 DEF RepeatsGetTheStoredAnswer, FitsRecord, KeyFor, Asks, WasFrozen
  <2>2. \A r \in Requests : \A a : Stored(KeyOf(Req[r])) /\ FitsRecord(r, a) => FitsRecord(r, a)'
    BY <1>2
  <2> QED
    BY <1>3, <2>1, <2>2
<1>4. CASE page' # page
  <2>1. PICK p \in BagToSet(posts) : Check(p) \/ Serve(p)
    BY <1>4 DEF FormsNext, GetForm, Browse, SubmitForm, ConfirmTransfer, CallApi, Post, forms
  <2>2. /\ PostFits(p) /\ p.request \in Requests
    BY PostTypes DEF FormsInv, FormsFit
  <2>3. CASE ~p.repeated
    <3>1. page' = NoPage
      BY <1>4, <2>1, <2>3 DEF Check, Serve, InvalidForm, ShowConfirmation, EnterService, RefuseAtOnce,
         TellStored, TellConflict, PerformRequest, RefuseByRules, RecordRefusal, SkipRecord,
         ServerError, TellError, Tell, GoOn
    <3> QED
      BY <3>1 DEF RepeatsGetTheStoredAnswer, NoPage
  <2>4. CASE p.repeated
    <3>1. page'.request = p.request /\ FitsRecord(p.request, page'.answer)
      BY <1>4, <2>1, <2>4, RepeatIsTold
    <3>2. Stored(KeyOf(Req[p.request]))
      BY <2>2, <2>4 DEF PostFits, Answered
    <3>3. \A a : FitsRecord(p.request, a) => FitsRecord(p.request, a)'
      BY <1>2, <2>2, <3>2
    <3> QED
      BY <3>1, <3>3 DEF RepeatsGetTheStoredAnswer, FitsRecord, KeyFor, Asks, WasFrozen
  <2> QED
    BY <2>3, <2>4
<1> QED
  BY <1>3, <1>4

\* Whoever repeats a request that has its answer gets that answer, short of a
\* server error, a missing confirmation, and a wallet frozen meanwhile.
THEOREM RepeatsHold == WebSpec => []RepeatsGetTheStoredAnswer
<1>1. TablesInit /\ FormsInit => RepeatsGetTheStoredAnswer
  BY DEF FormsInit, RepeatsGetTheStoredAnswer
<1>2. FormsInv /\ RepeatsGetTheStoredAnswer /\ [FormsNext]_<<tables, context, forms>>
         => RepeatsGetTheStoredAnswer'
  BY RepeatsStep
<1> QED
  BY <1>1, <1>2, FormsInvHolds, WebIsForms, PTL DEF FormsSpec


-----------------------------------------------------------------------------
(* The reader.                                                              *)

\* For the reader of a list, the site is AtomicWallet with other readers.
LEMMA SiteIsRead == WebSpec => ReadingSpec
<1>1. WebInit => TablesInit /\ HistoryInit
  BY DEF WebInit
<1>2. FormsInv /\ [WebNext]_everything => [ReadingNext]_<<tables, context, reader>>
  <2> SUFFICES ASSUME FormsInv, [WebNext]_everything
               PROVE  [ReadingNext]_<<tables, context, reader>>
    OBVIOUS
  <2>1. CASE FormsNext /\ UNCHANGED reader
    <3>1. TablesOK /\ TablesStep
      BY <2>1, FormsStep DEF FormsInv
    <3> QED
      BY <2>1, <3>1, TablesStepTypes DEF ReadingNext
  <2>2. CASE HistoryNext
    BY <2>2 DEF ReadingNext
  <2>3. CASE UNCHANGED everything
    BY <2>3 DEF everything
  <2> QED
    BY <2>1, <2>2, <2>3 DEF WebNext
<1> QED
  BY <1>1, <1>2, FormsInvHolds, PTL DEF WebSpec, ReadingSpec

\* The tables, the forms and the reading keep their types.
THEOREM TypesHold == WebSpec => []WebOK
<1>1. FormsInv /\ ReadingInv => WebOK
  BY DEF FormsInv, ReadingInv, WebOK
<1> QED
  BY <1>1, FormsInvHolds, SiteIsRead, ReadingHolds, PTL

\* Whoever has read a list to its last page has missed no more rows than were
\* added between the two queries of that page.
THEOREM MissesHold == WebSpec => []MissesAreCounted
<1>1. ReadingInv => MissesAreCounted
  BY DEF ReadingInv
<1> QED
  BY <1>1, SiteIsRead, ReadingHolds, PTL

\* The histories the site shows tell what became of the money.
THEOREM SiteTellsBalances == WebSpec => []HistoriesTellBalances
BY SiteIsAtomic, HistoriesHold, PTL
=============================================================================
