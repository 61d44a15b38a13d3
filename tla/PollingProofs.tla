--------------------------- MODULE PollingProofs ---------------------------
(***************************************************************************)
(* Theorems of Polling, for any messages, purchases, charges, capacity of  *)
(* the channel and bounds.                                                 *)
(***************************************************************************)
EXTENDS Polling, FulfilmentProofs, FiniteSetTheorems

\* What a step of the bot does to the variables of Fulfilment is a step of
\* Fulfilment, or nothing.
LEMMA BotStepFulfils == [PollingNext]_botVars => [Next]_vars
<1> SUFFICES ASSUME PollingNext PROVE [Next]_vars
  BY DEF botVars
<1>0. bot \in Workers
  BY PollingAssumption
<1>1. CASE \E m \in Messages : Say(m)
  BY <1>1 DEF Say
<1>2. CASE \E c \in Charges : PressPay(c)
  BY <1>2 DEF PressPay
<1>3. CASE Poll \/ Begin \/ Receive \/ ToggleAdmin \/ TakeReview \/ ReviewOverHTTP
  BY <1>3 DEF Poll, Begin, Receive, ToggleAdmin, TakeReview, ReviewOverHTTP
<1>4. ASSUME NEW c \in Charges, AnswerQuery(c) \/ ForceCharge(c) PROVE [Next]_vars
  <2>1. (Pay(c) /\ UNCHANGED issueVars) \/ UNCHANGED vars
    BY <1>4 DEF AnswerQuery, ForceCharge
  <2> QED
    BY <2>1 DEF Next
<1>5. ASSUME NEW c \in Charges, TakeNotice(c) PROVE [Next]_vars
  <2>1. HandlerStep(bot)
    BY <1>5 DEF TakeNotice, HandlerStep
  <2> QED
    BY <1>0, <2>1 DEF Next
<1>6. CASE Buy \/ ForceBuy
  <2>1. (\E p \in Purchases : StartPurchase(p)) \/ UNCHANGED vars
    BY <1>6 DEF Buy, ForceBuy
  <2> QED
    BY <2>1 DEF Next
<1>7. CASE Beside
  <2>1. CASE Confirming
    <3>1. HandlerStep(bot)
      BY <2>1 DEF Confirming, HandlerStep
    <3> QED
      BY <1>0, <3>1 DEF Next
  <2> QED
    BY <1>7, <2>1 DEF Beside, Next
<1>8. CASE Restart
  BY <1>8 DEF Restart, Next
<1> QED
  BY <1>1, <1>2, <1>3, <1>4, <1>5, <1>6, <1>7, <1>8 DEF PollingNext, HandleUpdate

\* The bot does to the tables only what Fulfilment says: every theorem of
\* FulfilmentProofs holds of the polling bot.
THEOREM BotIsAHandler == PollingSpec => BotFulfils
<1>1. PollingInit => Init
  BY DEF PollingInit
<1> QED
  BY <1>1, BotStepFulfils, PTL DEF PollingSpec, BotFulfils, Spec

-----------------------------------------------------------------------------
(***************************************************************************)
(* Updates and the admin mode.                                             *)
(***************************************************************************)
\* Updates that were known stay known.
LEMMA KnownGrows ==
  ASSUME said \subseteq said', invoices \subseteq invoices', charged \subseteq charged'
  PROVE  /\ Known \subseteq Known'
         /\ Seq(Known) \subseteq Seq(Known')
<1>1. Known \subseteq Known'
  BY DEF Known, Query, Notice
<1> QED
  BY <1>1

\* What is known are updates.
LEMMA KnownAreUpdates ==
  ASSUME said \subseteq Messages, charged \subseteq Charges
  PROVE  Known \subseteq Update /\ Seq(Known) \subseteq Seq(Update)
<1>1. Known \subseteq Update
  BY DEF Known, Update
<1> QED
  BY <1>1

\* The kinds of updates do not overlap.
LEMMA Kinds ==
  /\ \A m \in Messages : m.kind \in {"adminmode", "buy", "forcebuy", "review"}
  /\ \A c : Query(c).kind = "query" /\ Notice(c).kind = "notice"
  /\ \A p : Forced(p).kind = "forced"
  /\ NoUpdate.kind = "none"
<1>1. \A m \in Message : m.kind \in {"adminmode", "buy", "forcebuy", "review"}
  BY DEF Message
<1> QED
  BY <1>1, MessagesAssumption DEF Query, Notice, Forced, NoUpdate

\* Two queries or two forced purchases are told apart.
LEMMA SameUpdate ==
  /\ \A c, d : Query(c) = Query(d) => c = d
  /\ \A p, q : Forced(p) = Forced(q) => p = q
<1>1. \A c : Query(c).charge = c
  BY DEF Query
<1>2. \A p : Forced(p).purchase = p
  BY DEF Forced
<1> QED
  BY <1>1, <1>2

LEMMA InitPollingInv == PollingInit => PollingInv
<1> SUFFICES ASSUME PollingInit PROVE PollingInv
  OBVIOUS
<1> USE DEF PollingInit
<1>1. PollingTypeOK
  <2>1. << >> \in Seq(Update)
    OBVIOUS
  <2>2. reviews \in [Purchases -> 0 .. 5]
    BY DEF Unrated
  <2> QED
    BY <2>1, <2>2 DEF PollingTypeOK
<1>2. UpdatesInv
  BY DEF UpdatesInv
<1>3. charged = {}
  BY DEF Init, ConfirmInit
<1>4. AdminInv
  BY <1>3, Kinds DEF AdminInv, FreeMeansAdmin
<1> QED
  BY <1>1, <1>2, <1>4 DEF PollingInv

\* What a step adds to the histories: messages, invoices and charges stay.
LEMMA HistoriesGrow ==
  ASSUME [PollingNext]_botVars
  PROVE  said \subseteq said' /\ invoices \subseteq invoices' /\ charged \subseteq charged'
<1>1. charged \subseteq charged'
  BY BotStepFulfils
     DEF Next, StartPurchase, EditCatalog, Pay, HandlerStep, ConfirmStep, ConfirmFails,
         Deliver, CheckProcessed, Lookup, UpdatePaid, SavePaymentEvent, Publish,
         MarkProcessed, Reply, Crash, confirmVars, vars
<1>2. said \subseteq said'
  BY DEF PollingNext, HandleUpdate, Say, PressPay, Poll, Begin, Receive, AnswerQuery,
         TakeNotice, ForceCharge, ToggleAdmin, Buy, ForceBuy, TakeReview,
         ReviewOverHTTP, Beside, Restart, pollingVars, botVars
<1>3. invoices \subseteq invoices'
  BY DEF PollingNext, HandleUpdate, Say, PressPay, Poll, Begin, Receive, AnswerQuery,
         TakeNotice, ForceCharge, ToggleAdmin, Buy, ForceBuy, TakeReview,
         ReviewOverHTTP, Beside, Restart, pollingVars, botVars
<1> QED
  BY <1>1, <1>2, <1>3

\* Every step keeps what is on its way known.
LEMMA NextUpdates == PollingInv /\ [PollingNext]_botVars => UpdatesInv'
<1> SUFFICES ASSUME PollingInv, [PollingNext]_botVars PROVE UpdatesInv'
  OBVIOUS
<1> DEFINE K == Known
           S == Seq(K')
           U == K' \cup {Forced(p) : p \in Purchases} \cup {NoUpdate}
<1>0. /\ K \subseteq K' /\ Seq(K) \subseteq S
      /\ updates \in S /\ fetched \in S /\ buffer \in S
      /\ up \in U
  BY HistoriesGrow, KnownGrows DEF PollingInv, UpdatesInv
<1>1. NoUpdate \in U
  OBVIOUS
<1>2. \A u \in K' : u \in U
  OBVIOUS
<1>3. \A s, t \in S : s \o t \in S
  OBVIOUS
<1>4. \A s \in S, u \in K' : Append(s, u) \in S
  OBVIOUS
<1>5. \A s \in S : s # << >> => Head(s) \in K' /\ Tail(s) \in S
  OBVIOUS
<1>6. << >> \in S
  OBVIOUS
<1>7. SUFFICES updates' \in S /\ fetched' \in S /\ buffer' \in S /\ up' \in U
  BY DEF UpdatesInv
<1>8. \A m \in said' : m \in K'
  BY DEF Known
<1>9. \A c \in Charges : PurchaseOf[c] \in invoices' => Query(c) \in K'
  BY DEF Known
<1>10. \A c \in charged' : Notice(c) \in K'
  BY DEF Known
<1> HIDE DEF K, S
<1>a. ASSUME NEW m \in Messages, Say(m)
      PROVE  updates' \in S /\ fetched' \in S /\ buffer' \in S /\ up' \in U
  BY <1>0, <1>4, <1>8, <1>a DEF Say
<1>b. ASSUME NEW c \in Charges, PressPay(c)
      PROVE  updates' \in S /\ fetched' \in S /\ buffer' \in S /\ up' \in U
  BY <1>0, <1>4, <1>9, <1>b DEF PressPay
<1>c. CASE Poll
  BY <1>0, <1>3, <1>6, <1>c DEF Poll
<1>d. CASE Receive
  BY <1>0, <1>2, <1>5, <1>d DEF Receive
<1>e. ASSUME NEW c \in Charges, AnswerQuery(c)
      PROVE  updates' \in S /\ fetched' \in S /\ buffer' \in S /\ up' \in U
  BY <1>0, <1>1, <1>4, <1>10, <1>e DEF AnswerQuery, Pay, Done
<1>f. ASSUME NEW c \in Charges, ForceCharge(c)
      PROVE  updates' \in S /\ fetched' \in S /\ buffer' \in S /\ up' \in U
  BY <1>0, <1>2, <1>10, <1>f DEF ForceCharge, Pay
<1>g. ASSUME NEW c \in Charges, TakeNotice(c)
      PROVE  updates' \in S /\ fetched' \in S /\ buffer' \in S /\ up' \in U
  BY <1>0, <1>1, <1>g DEF TakeNotice, Done
<1>h. CASE ToggleAdmin \/ Buy \/ TakeReview
  BY <1>0, <1>1, <1>h DEF ToggleAdmin, Buy, TakeReview, Done
<1>i. CASE ForceBuy
  BY <1>0, <1>1, <1>i DEF ForceBuy, Done
<1>j. CASE Restart
  BY <1>0, <1>1, <1>3, <1>6, <1>j DEF Restart, Done
<1>k. CASE Begin \/ ReviewOverHTTP \/ Beside \/ UNCHANGED botVars
  BY <1>0, <1>k DEF Begin, ReviewOverHTTP, Beside, pollingVars, botVars
<1> QED
  BY <1>a, <1>b, <1>c, <1>d, <1>e, <1>f, <1>g, <1>h, <1>i, <1>j, <1>k
     DEF PollingNext, HandleUpdate

\* A review adds a rating from 1 to 5, or nothing.
LEMMA ReviewType ==
  ASSUME reviews \in [Purchases -> 0 .. 5], NEW p, NEW stars, SubmitReview(p, stars)
  PROVE  reviews' \in [Purchases -> 0 .. 5]
<1>1. stars \in 0 .. 5
  BY DEF SubmitReview
<1>2. reviews' = [reviews EXCEPT ![p] = stars] \/ reviews' = reviews
  BY DEF SubmitReview, InsertReview
<1> QED
  BY <1>1, <1>2

\* Every step keeps the types.
LEMMA NextPollingType ==
  PollingInv /\ TypeOK' /\ UpdatesInv' /\ [PollingNext]_botVars => PollingTypeOK'
<1> SUFFICES ASSUME PollingInv, TypeOK', UpdatesInv', [PollingNext]_botVars
             PROVE  PollingTypeOK'
  OBVIOUS
<1> USE DEF PollingInv, PollingTypeOK
<1>1. said' \subseteq Messages
  BY DEF PollingNext, HandleUpdate, Say, PressPay, Poll, Begin, Receive, AnswerQuery,
         TakeNotice, ForceCharge, ToggleAdmin, Buy, ForceBuy, TakeReview,
         ReviewOverHTTP, Beside, Restart, pollingVars, botVars
<1>2. invoices' \subseteq Purchases
  BY DEF PollingNext, HandleUpdate, Say, PressPay, Poll, Begin, Receive, AnswerQuery,
         TakeNotice, ForceCharge, ToggleAdmin, Buy, ForceBuy, TakeReview,
         ReviewOverHTTP, Beside, Restart, pollingVars, botVars
<1>3. loop' \in {"starting", "polling", "stopped"} /\ admin' \in BOOLEAN
  BY DEF PollingNext, HandleUpdate, Say, PressPay, Poll, Begin, Receive, AnswerQuery,
         TakeNotice, ForceCharge, ToggleAdmin, Buy, ForceBuy, TakeReview,
         ReviewOverHTTP, Beside, Restart, pollingVars, botVars
<1>4. reviews' \in [Purchases -> 0 .. 5]
  <2>1. ASSUME NEW p, NEW stars, SubmitReview(p, stars)
        PROVE  reviews' \in [Purchases -> 0 .. 5]
    BY <2>1, ReviewType
  <2> QED
    BY <2>1
       DEF PollingNext, HandleUpdate, Say, PressPay, Poll, Begin, Receive, AnswerQuery,
           TakeNotice, ForceCharge, ToggleAdmin, Buy, ForceBuy, TakeReview,
           ReviewOverHTTP, Beside, Restart, pollingVars, botVars
<1>5. /\ Known' \subseteq Update
      /\ Seq(Known') \subseteq Seq(Update)
  <2>1. charged' \subseteq Charges
    BY DEF TypeOK, ConfirmTypeOK
  <2>3. Known' \subseteq Update
    <3> HIDE DEF PollingInv, PollingTypeOK
    <3> QED
      BY <1>1, <2>1 DEF Known, Update
  <2> HIDE DEF PollingInv, PollingTypeOK
  <2> QED
    BY <2>3
<1>6. updates' \in Seq(Update) /\ fetched' \in Seq(Update) /\ buffer' \in Seq(Update)
  BY <1>5 DEF UpdatesInv
<1>7. up' \in Update \cup {Forced(p) : p \in Purchases} \cup {NoUpdate}
  BY <1>5 DEF UpdatesInv
<1> QED
  BY <1>1, <1>2, <1>3, <1>4, <1>6, <1>7

\* Every step keeps free purchases the operator's.
LEMMA NextAdmin == PollingInv /\ [PollingNext]_botVars => AdminInv'
<1> SUFFICES ASSUME PollingInv, [PollingNext]_botVars PROVE AdminInv'
  OBVIOUS
<1>0. /\ said \subseteq said' /\ invoices \subseteq invoices' /\ charged \subseteq charged'
      /\ Toggles \subseteq Toggles'
      /\ admin => Toggles # {}
      /\ up.kind = "forced" => Toggles # {}
      /\ FreeMeansAdmin
      /\ said \subseteq Messages
      /\ admin \in BOOLEAN
  BY HistoriesGrow DEF PollingInv, AdminInv, PollingTypeOK, Toggles
<1>1. CASE /\ admin' = admin
           /\ up' = up \/ up'.kind # "forced"
           /\ charged' = charged
  BY <1>0, <1>1 DEF AdminInv, FreeMeansAdmin
<1>2. CASE Receive
  <2>1. Head(buffer) \in Known
    BY <1>2 DEF Receive, PollingInv, UpdatesInv
  <2>2. up'.kind # "forced"
    BY <1>0, <1>2, <2>1, Kinds DEF Receive, Known
  <2> QED
    BY <1>1, <1>2, <2>2 DEF Receive, vars, confirmVars
<1>3. ASSUME NEW c \in Charges, AnswerQuery(c) PROVE AdminInv'
  <2>1. PurchaseOf[c] \in invoices
    <3>1. up \in Known \cup {Forced(p) : p \in Purchases} \cup {NoUpdate} /\ up = Query(c)
      BY <1>3 DEF AnswerQuery, PollingInv, UpdatesInv
    <3>2. \E d \in Charges : PurchaseOf[d] \in invoices /\ Query(c) = Query(d)
      BY <1>0, <3>1, Kinds DEF Known
    <3> QED
      BY <3>2, SameUpdate
  <2>2. charged' \in {charged, charged \cup {c}}
    BY <1>3 DEF AnswerQuery, Pay, vars, confirmVars
  <2>3. up'.kind # "forced" /\ admin' = admin
    BY <1>3, Kinds DEF AnswerQuery, Done
  <2> QED
    BY <1>0, <2>1, <2>2, <2>3 DEF AdminInv, FreeMeansAdmin
<1>4. ASSUME NEW c \in Charges, ForceCharge(c) PROVE AdminInv'
  <2>1. Toggles' # {} /\ up'.kind # "forced"
    BY <1>0, <1>4, Kinds DEF ForceCharge
  <2> QED
    BY <2>1 DEF AdminInv, FreeMeansAdmin
<1>5. CASE ToggleAdmin
  <2>1. up \in said
    BY <1>5, Kinds DEF ToggleAdmin, PollingInv, UpdatesInv, Known
  <2>2. Toggles' # {}
    BY <1>0, <1>5, <2>1 DEF ToggleAdmin, Toggles
  <2> QED
    BY <2>2 DEF AdminInv, FreeMeansAdmin
<1>6. CASE ForceBuy
  <2>1. charged' = charged /\ admin' = admin
    BY <1>6 DEF ForceBuy, StartPurchase, confirmVars, vars
  <2>2. up'.kind = "forced" => admin
    BY <1>6, Kinds DEF ForceBuy, Done
  <2> QED
    BY <1>0, <2>1, <2>2 DEF AdminInv, FreeMeansAdmin
<1>7. CASE Restart
  BY <1>0, <1>7, Kinds DEF Restart, Crash, Done, AdminInv, FreeMeansAdmin
<1>8. CASE Beside
  <2>1. charged' = charged
    BY <1>8
       DEF Beside, Confirming, ConfirmStep, ConfirmFails, CheckProcessed, Lookup,
           UpdatePaid, SavePaymentEvent, Publish, MarkProcessed, Reply, EditCatalog,
           confirmVars
  <2> QED
    BY <1>1, <1>8, <2>1 DEF Beside, pollingVars
<1>9. ASSUME NEW c \in Charges, TakeNotice(c) PROVE AdminInv'
  <2>1. charged' = charged /\ admin' = admin /\ up'.kind # "forced"
    BY <1>9, Kinds DEF TakeNotice, Deliver, Done
  <2> QED
    BY <1>1, <2>1
<1>10. CASE Buy
  <2>1. charged' = charged /\ admin' = admin /\ up'.kind # "forced"
    BY <1>10, Kinds DEF Buy, StartPurchase, Done, confirmVars, vars
  <2> QED
    BY <1>1, <2>1
<1> QED
  BY <1>1, <1>2, <1>3, <1>4, <1>5, <1>6, <1>7, <1>8, <1>9, <1>10, Kinds
     DEF PollingNext, HandleUpdate, Say, PressPay, Poll, Begin, TakeReview,
         ReviewOverHTTP, Done, confirmVars, vars, pollingVars, botVars

\* The invariant of the loop holds always.
THEOREM PollingInvariant == PollingSpec => []PollingInv
<1>1. PollingInv /\ TypeOK /\ [PollingNext]_botVars /\ TypeOK' => PollingInv'
  BY NextUpdates, NextPollingType, NextAdmin DEF PollingInv
<1>2. BotFulfils => []TypeOK
  BY TypeCorrect DEF BotFulfils
<1> QED
  BY <1>1, <1>2, BotIsAHandler, InitPollingInv, PTL DEF PollingSpec

\* The types of the loop's variables are kept.
THEOREM PollingTypes == PollingSpec => []PollingTypeOK
<1>1. PollingInv => PollingTypeOK
  BY DEF PollingInv
<1> QED
  BY <1>1, PollingInvariant, PTL

\* Nobody is given a purchase for nothing unless the operator has been admin.
THEOREM FreeIsTheAdmins == PollingSpec => []FreeMeansAdmin
<1>1. PollingInv => FreeMeansAdmin
  BY DEF PollingInv, AdminInv
<1> QED
  BY <1>1, PollingInvariant, PTL

\* From the update to the grant: whoever has access was sent an invoice and
\* charged for it, or got the purchase from an operator in admin mode.
THEOREM AccessIsPaidOrForced ==
  PollingSpec => [](\A p \in accessGrants : p \in invoices \/ Toggles # {})
<1>1. NoAccessWithoutPayment /\ FreeMeansAdmin
        => \A p \in accessGrants : p \in invoices \/ Toggles # {}
  BY DEF NoAccessWithoutPayment, FreeMeansAdmin
<1>2. BotFulfils => []NoAccessWithoutPayment
  BY AccessIsPaid DEF BotFulfils
<1> QED
  BY <1>1, <1>2, FreeIsTheAdmins, BotIsAHandler, PTL

\* The first rating of a purchase is never changed.
THEOREM FirstReviewIsKept == PollingSpec => FirstReviewStays
<1>1. PollingInv /\ [PollingNext]_botVars
        => [\A p \in Purchases : reviews[p] # Unrated => reviews'[p] = reviews[p]]_botVars
  <2> SUFFICES ASSUME PollingInv, PollingNext, NEW p \in Purchases, reviews[p] # Unrated
               PROVE  reviews'[p] = reviews[p]
    OBVIOUS
  <2>1. ASSUME NEW q, NEW stars, SubmitReview(q, stars) PROVE reviews'[p] = reviews[p]
    BY <2>1 DEF SubmitReview, InsertReview, PollingInv, PollingTypeOK
  <2> QED
    BY <2>1
       DEF PollingNext, HandleUpdate, Say, PressPay, Poll, Begin, Receive, AnswerQuery,
           TakeNotice, ForceCharge, ToggleAdmin, Buy, ForceBuy, TakeReview,
           ReviewOverHTTP, Beside, Restart, pollingVars
<1> QED
  BY <1>1, PollingInvariant, PTL DEF PollingSpec, FirstReviewStays

-----------------------------------------------------------------------------
(***************************************************************************)
(* No payment slips through the loop.                                      *)
(***************************************************************************)
\* What the invariant of Fulfilment says of the only worker and the processor.
LEMMA OneWorker ==
  ASSUME IInv
  PROVE  /\ Workers = {bot}
         /\ purchases \in [Purchases -> Row]
         /\ confirms \in [Workers -> [pc : ConfirmPoint,
                                     charge : Charges \cup {NoCharge}, row : Row]]
         /\ faults \in Nat
         /\ ~ At(bot, "idle") => /\ confirms[bot].charge \in Charges
                                 /\ PurchaseAt(bot) \in Purchases
         /\ At(bot, "update") => PaidRow(confirms[bot].row)
         /\ outboxEvents \in Seq(Purchases)
         /\ proc.row \in Row
         /\ Busy => /\ proc.event \in 1 .. Len(outboxEvents)
                    /\ Current \in Purchases
                    /\ PaidRow(proc.row)
                    /\ PaidRow(purchases[Current])
<1>1. TypeOK /\ WorkerInv(bot) /\ RecordInv /\ ProcessorInv
  BY PollingAssumption DEF IInv
<1>2. Busy => proc.event \in 1 .. Len(outboxEvents)
  BY <1>1 DEF TypeOK, IssueTypeOK
<1>3. Busy => Current \in Purchases /\ PaidRow(purchases[Current]) /\ PaidRow(proc.row)
  BY <1>1, <1>2 DEF TypeOK, StoreTypeOK, Current, RecordInv, ProcessorInv
<1> QED
  BY <1>1, <1>2, <1>3, PollingAssumption, PurchaseOfAssumption
     DEF TypeOK, StoreTypeOK, ConfirmTypeOK, IssueTypeOK, WorkerInv, At, PurchaseAt

\* How a step changes the table purchases: one row, in one of four ways.
LEMMA RowsChange ==
  ASSUME IInv, [Next]_vars
  PROVE  \/ UNCHANGED purchases
         \/ \E p \in Purchases : /\ StartPurchase(p)
                                 /\ purchases' = [purchases EXCEPT ![p] = PendingRow]
         \/ /\ UpdatePaid(bot)
            /\ purchases' = [purchases EXCEPT ![PurchaseAt(bot)] = confirms[bot].row]
         \/ /\ ProviderFails
            /\ purchases' = [purchases EXCEPT ![Current] = RegisterIssueAccessFailure(proc.row)]
         \/ /\ SaveIssued
            /\ purchases' = [purchases EXCEPT ![Current] = MarkAccessIssued(proc.row)]
BY OneWorker, RowWrites

\* A row keeps the charge it was paid with, and with no charge it is unpaid.
LEMMA ChargeStays ==
  ASSUME IInv, RowInv, [Next]_vars, NEW p \in Purchases
  PROVE  /\ purchases'[p].status \in {"none", "pending"} <=> purchases'[p].charge = NoCharge
         /\ purchases[p].charge # NoCharge => purchases'[p].charge = purchases[p].charge
         /\ purchases[p].status # "none" => purchases'[p].status # "none"
         /\ \/ purchases'[p].charge = purchases[p].charge
            \/ /\ UpdatePaid(bot)
               /\ p = PurchaseAt(bot)
               /\ purchases'[p].charge = confirms[bot].charge
<1>0. purchases[p].status \in {"none", "pending"} <=> purchases[p].charge = NoCharge
  BY DEF RowInv
<1>1. CASE UNCHANGED purchases
  BY <1>0, <1>1
<1>2. ASSUME NEW q \in Purchases, StartPurchase(q),
             purchases' = [purchases EXCEPT ![q] = PendingRow]
      PROVE  /\ purchases'[p].status \in {"none", "pending"} <=> purchases'[p].charge = NoCharge
             /\ purchases[p].status # "none" => purchases'[p].status # "none"
             /\ purchases'[p].charge = purchases[p].charge
  BY <1>0, <1>2, OneWorker DEF StartPurchase, PendingRow, NoRow
<1>3. CASE /\ UpdatePaid(bot)
           /\ purchases' = [purchases EXCEPT ![PurchaseAt(bot)] = confirms[bot].row]
  <2>1. /\ PaidRow(confirms[bot].row)
        /\ confirms[bot].row.charge = confirms[bot].charge
        /\ purchases[PurchaseAt(bot)].charge = NoCharge
        /\ PurchaseAt(bot) \in Purchases
    BY <1>3, OneWorker DEF UpdatePaid, At, RowInv
  <2> QED
    BY <1>0, <1>3, <2>1, OneWorker DEF PaidRow
<1>4. ASSUME NEW row \in Row, PaidRow(row), row.charge = purchases[Current].charge,
             Current \in Purchases, purchases' = [purchases EXCEPT ![Current] = row]
      PROVE  /\ purchases'[p].status \in {"none", "pending"} <=> purchases'[p].charge = NoCharge
             /\ purchases[p].status # "none" => purchases'[p].status # "none"
             /\ purchases'[p].charge = purchases[p].charge
  BY <1>0, <1>4, OneWorker DEF PaidRow
<1>5. ASSUME proc.pc \in BeforeSave
      PROVE  /\ Busy
             /\ proc.row.charge = purchases[Current].charge
             /\ \A row \in {RegisterIssueAccessFailure(proc.row), MarkAccessIssued(proc.row)} :
                  row \in Row /\ PaidRow(row) /\ row.charge = proc.row.charge
  <2>1. Busy
    BY <1>5 DEF BeforeSave, Busy
  <2>2. proc.row \in Row /\ PaidRow(proc.row)
    BY <2>1, OneWorker
  <2> QED
    BY <1>5, <2>1, <2>2, EntityMethods
       DEF RowInv, PaidRow, RegisterIssueAccessFailure, MarkAccessIssued, Row
<1>6. CASE ProviderFails \/ SaveIssued
  <2>1. proc.pc \in BeforeSave
    BY <1>6 DEF ProviderFails, SaveIssued, BeforeSave
  <2> QED
    BY <1>0, <1>4, <1>5, <1>6, <2>1, RowsChange, OneWorker
       DEF ProviderFails, SaveIssued, UpdateRow
<1> QED
  BY <1>1, <1>2, <1>3, <1>6, RowsChange

\* A row moves along one arrow at a time.
LEMMA RowMoves ==
  ASSUME IInv, RowInv, [Next]_vars, NEW p \in Purchases
  PROVE  /\ purchases'[p].status # "expired"
         /\ purchases'[p].status # purchases[p].status =>
              <<purchases[p].status, purchases'[p].status>> \in
                Lifecycle \cup {<<"access_issued", "error">>}
<1> DEFINE before == purchases[p].status
           after == purchases'[p].status
           Moves == /\ after # "expired"
                    /\ after # before =>
                         <<before, after>> \in Lifecycle \cup {<<"access_issued", "error">>}
<1>0. before # "expired" /\ before \in Status
  BY OneWorker DEF RowInv, Row
<1>1. CASE purchases'[p] = purchases[p]
  BY <1>0, <1>1
<1>2. ASSUME NEW q \in Purchases, StartPurchase(q),
             purchases' = [purchases EXCEPT ![q] = PendingRow]
      PROVE  Moves
  BY <1>0, <1>2, OneWorker DEF StartPurchase, PendingRow, NoRow, Lifecycle
<1>3. CASE /\ UpdatePaid(bot)
           /\ purchases' = [purchases EXCEPT ![PurchaseAt(bot)] = confirms[bot].row]
  <2>1. /\ confirms[bot].row.status = "paid"
        /\ purchases[PurchaseAt(bot)].status = "pending"
    BY <1>3, OneWorker DEF UpdatePaid, At, RowInv, IInv, WorkerInv
  <2> QED
    BY <1>0, <1>3, <2>1, OneWorker DEF Lifecycle
<1>4. CASE /\ ProviderFails
           /\ purchases' = [purchases EXCEPT ![Current] = RegisterIssueAccessFailure(proc.row)]
  <2>1. proc.row = purchases[Current] /\ PaidRow(purchases[Current]) /\ Current \in Purchases
    BY <1>4, OneWorker DEF ProviderFails, RowInv, BeforeSave, Busy
  <2>2. RegisterIssueAccessFailure(proc.row).status \in {purchases[Current].status, "error"}
    BY <2>1 DEF RegisterIssueAccessFailure
  <2> QED
    BY <1>0, <1>1, <1>4, <2>1, <2>2, OneWorker DEF PaidRow, Lifecycle
<1>5. CASE /\ SaveIssued
           /\ purchases' = [purchases EXCEPT ![Current] = MarkAccessIssued(proc.row)]
  <2>1. proc.row = purchases[Current] /\ PaidRow(purchases[Current]) /\ Current \in Purchases
    BY <1>5, OneWorker DEF SaveIssued, RowInv, BeforeSave, Busy
  <2>2. proc.row.status = "paid" \/ purchases' = purchases
    BY <1>5 DEF SaveIssued
  <2>3. MarkAccessIssued(proc.row).status = "access_issued"
    BY OneWorker DEF MarkAccessIssued, Row
  <2> QED
    BY <1>0, <1>1, <1>5, <2>1, <2>2, <2>3, OneWorker DEF Lifecycle
<1> QED
  BY <1>1, <1>2, <1>3, <1>4, <1>5, RowsChange

LEMMA NextRow == IInv /\ RowInv /\ [Next]_vars => RowInv'
<1> SUFFICES ASSUME IInv, RowInv, [Next]_vars PROVE RowInv'
  OBVIOUS
<1>1. \A c \in charged' : purchases'[PurchaseOf[c]].status # "none"
  <2>1. \A c \in charged' : \/ c \in charged
                            \/ purchases[PurchaseOf[c]].status # "none"
    BY DEF Next, StartPurchase, EditCatalog, Pay, HandlerStep, ConfirmStep, ConfirmFails,
           Deliver, CheckProcessed, Lookup, UpdatePaid, SavePaymentEvent, Publish,
           MarkProcessed, Reply, Crash, confirmVars, vars
  <2>2. \A c \in charged' : c \in Charges
    BY NextType DEF IInv, TypeOK, ConfirmTypeOK
  <2> QED
    BY <2>1, <2>2, ChargeStays, PurchaseOfAssumption DEF RowInv
<1>2. At(bot, "update")' =>
        /\ purchases'[PurchaseAt(bot)'].status = "pending"
        /\ confirms'[bot].row.charge = confirms'[bot].charge
  <2> SUFFICES ASSUME At(bot, "update")'
               PROVE  /\ purchases'[PurchaseAt(bot)'].status = "pending"
                      /\ confirms'[bot].row.charge = confirms'[bot].charge
    OBVIOUS
  <2>1. CASE confirms' = confirms
    <3>1. /\ At(bot, "update") /\ PurchaseAt(bot)' = PurchaseAt(bot)
          /\ purchases[PurchaseAt(bot)].status = "pending"
          /\ PurchaseAt(bot) \in Purchases
          /\ confirms[bot].row.charge = confirms[bot].charge
      BY <2>1, OneWorker DEF At, PurchaseAt, RowInv
    <3>2. Busy => Current # PurchaseAt(bot)
      BY <3>1, OneWorker DEF PaidRow
    <3>3. ProviderFails \/ SaveIssued => Busy
      BY DEF ProviderFails, SaveIssued, Busy
    <3>4. ~ UpdatePaid(bot)
      BY <2>1, OneWorker, OrderOfStatements DEF UpdatePaid, Goto, At, ConfirmThen, ConfirmPoint
    <3>5. \A p \in Purchases : StartPurchase(p) => p # PurchaseAt(bot)
      BY <3>1 DEF StartPurchase
    <3> QED
      BY <2>1, <3>1, <3>2, <3>3, <3>4, <3>5, RowsChange, OneWorker
  <2>2. CASE Lookup(bot)
    <3>1. /\ purchases[PurchaseAt(bot)].status = "pending"
          /\ confirms'[bot].row = MarkPaid(purchases[PurchaseAt(bot)], confirms[bot].charge)
          /\ confirms'[bot].charge = confirms[bot].charge
          /\ purchases' = purchases
      BY <2>2, OneWorker DEF Lookup, Return, Idle, At, storeVars
    <3> QED
      BY <3>1 DEF MarkPaid, PurchaseAt
  <2> QED
    BY <2>1, <2>2, OneWorker
       DEF Next, StartPurchase, EditCatalog, Pay, HandlerStep, ConfirmStep, ConfirmFails,
           Deliver, CheckProcessed, UpdatePaid, SavePaymentEvent, Publish, MarkProcessed,
           Reply, Crash, At, Goto, Return, Idle, ConfirmThen, confirmVars, vars
<1>3. proc'.pc \in BeforeSave => proc'.row = purchases'[Current']
  <2> SUFFICES ASSUME proc'.pc \in BeforeSave PROVE proc'.row = purchases'[Current']
    OBVIOUS
  <2>1. CASE LoadEvent
    BY <2>1 DEF LoadEvent, Between, BeforeSave, Current, storeVars
  <2>2. CASE ~ LoadEvent
    <3>1. /\ proc.pc \in BeforeSave /\ proc'.row = proc.row /\ proc'.event = proc.event
          /\ ~ ProviderFails /\ ~ SaveIssued
      BY <2>2, OneWorker
         DEF Next, StartPurchase, EditCatalog, Pay, HandlerStep, ProcessorStep, IssueFails,
             Tick, EndOfBatch, CheckContent, ProviderAnswers, ProviderFails, CreateGrant,
             SaveIssued, SendLink, MarkPublished, NextEvent, Between, Asleep, Crash,
             BeforeSave, issueVars, vars, IInv, TypeOK, IssueTypeOK
    <3>2. Busy
      BY <3>1 DEF BeforeSave, Busy
    <3>3. Current' = Current
      <4>1. \/ outboxEvents' = outboxEvents
            \/ \E p \in Purchases : outboxEvents' = Append(outboxEvents, p)
        BY OneWorker
           DEF Next, StartPurchase, EditCatalog, Pay, HandlerStep, ConfirmStep,
               ConfirmFails, Deliver, CheckProcessed, Lookup, UpdatePaid,
               SavePaymentEvent, Publish, PublishPurchaseConfirmed, MarkProcessed, Reply,
               ProcessorStep, IssueFails, Tick, EndOfBatch, LoadEvent, CheckContent,
               ProviderAnswers, ProviderFails, CreateGrant, SaveIssued, SendLink,
               MarkPublished, Crash, At, storeVars, vars
      <4> QED
        BY <3>1, <3>2, <4>1, OneWorker DEF Current
    <3>4. purchases'[Current] = purchases[Current]
      <4>1. PaidRow(purchases[Current]) /\ Current \in Purchases
        BY <3>2, OneWorker
      <4>2. UpdatePaid(bot) => purchases[PurchaseAt(bot)].status = "pending"
        BY DEF UpdatePaid, RowInv
      <4> QED
        BY <3>1, <4>1, <4>2, RowsChange, OneWorker DEF PaidRow, StartPurchase
    <3> QED
      BY <3>1, <3>3, <3>4 DEF RowInv
  <2> QED
    BY <2>1, <2>2
<1> QED
  BY <1>1, <1>2, <1>3, ChargeStays, RowMoves DEF RowInv

\* No step takes back a failure or an OK answer, and only failures break off.
LEMMA FaultsStay ==
  ASSUME IInv, [Next]_vars, faults' = 0
  PROVE  faults = 0 /\ ~ ConfirmFails(bot) /\ ~ Crash /\ acked \subseteq acked'
<1>1. faults \in Nat
  BY OneWorker
<1>2. ~ ConfirmFails(bot) /\ ~ Crash /\ ~ IssueFails
  BY <1>1 DEF ConfirmFails, Crash, IssueFails, FaultAt
<1> QED
  BY <1>1, <1>2, OneWorker
     DEF Next, StartPurchase, EditCatalog, Pay, HandlerStep, ConfirmStep, Deliver,
         CheckProcessed, Lookup, UpdatePaid, SavePaymentEvent, Publish, MarkProcessed,
         Reply, ProcessorStep, Tick, EndOfBatch, LoadEvent, CheckContent,
         ProviderAnswers, ProviderFails, CreateGrant, SaveIssued, SendLink,
         MarkPublished, storeVars, confirmVars, vars

\* What becomes of the charge being handled in a step that does not fail.
LEMMA HandlerMoves ==
  ASSUME IInv, [Next]_vars, faults' = 0
  PROVE  \/ UNCHANGED confirms /\ ~ UpdatePaid(bot)
         \/ At(bot, "idle")
         \/ Lookup(bot) /\ confirms'[bot].pc = "idle" /\ UNCHANGED purchases
         \/ Reply(bot) /\ confirms[bot].charge \in acked'
         \/ /\ confirms'[bot].charge = confirms[bot].charge
            /\ \/ CheckProcessed(bot) /\ confirms'[bot].pc \in {"lookup", "reply"}
               \/ Lookup(bot) /\ confirms'[bot].pc = "update"
               \/ UpdatePaid(bot) /\ confirms'[bot].pc = "log"
               \/ SavePaymentEvent(bot) /\ confirms'[bot].pc = "publish"
               \/ Publish(bot) /\ confirms'[bot].pc = "mark"
               \/ MarkProcessed(bot) /\ confirms'[bot].pc = "reply"
<1>1. CASE UNCHANGED confirms
  BY <1>1, OneWorker DEF UpdatePaid, At, Goto, ConfirmThen
<1>2. CASE \E c \in Charges : Deliver(bot, c)
  BY <1>2 DEF Deliver
<1>3. CASE CheckProcessed(bot)
  BY <1>3, OneWorker DEF CheckProcessed, Goto, ConfirmThen
<1>4. CASE Lookup(bot)
  BY <1>4, OneWorker DEF Lookup, Return, Idle, ConfirmThen, storeVars
<1>5. CASE UpdatePaid(bot)
  BY <1>5, OneWorker DEF UpdatePaid, Goto, ConfirmThen
<1>6. CASE SavePaymentEvent(bot) \/ Publish(bot) \/ MarkProcessed(bot)
  BY <1>6, OneWorker DEF SavePaymentEvent, Publish, MarkProcessed, Goto, ConfirmThen
<1>7. CASE Reply(bot)
  BY <1>7 DEF Reply
<1> QED
  BY <1>1, <1>2, <1>3, <1>4, <1>5, <1>6, <1>7, FaultsStay, OneWorker
     DEF Next, StartPurchase, EditCatalog, Pay, HandlerStep, ConfirmStep, confirmVars, vars

LEMMA NextCharge == IInv /\ RowInv /\ ChargeInv /\ [Next]_vars => ChargeInv'
<1> SUFFICES ASSUME IInv, RowInv, ChargeInv, [Next]_vars, faults' = 0,
                    NEW c \in Charges, c \notin acked',
                    purchases'[PurchaseOf[c]].charge = c
             PROVE  PastUpdate(c)'
  BY DEF ChargeInv
<1>0. /\ faults = 0 /\ c \notin acked
      /\ PurchaseOf[c] \in Purchases
      /\ confirms[bot].pc \in ConfirmPoint
  BY FaultsStay, OneWorker, PurchaseOfAssumption
<1>1. CASE purchases[PurchaseOf[c]].charge = c
  <2>1. /\ confirms[bot].charge = c
        /\ confirms[bot].pc \in {"log", "publish", "mark", "reply"}
    BY <1>0, <1>1 DEF ChargeInv, PastUpdate, Handling
  <2>2. confirms'[bot].charge = c /\ confirms'[bot].pc \in {"log", "publish", "mark", "reply"}
    BY <1>0, <2>1, HandlerMoves DEF At, CheckProcessed, Lookup, UpdatePaid
  <2> QED
    BY <2>2 DEF PastUpdate, Handling, At
<1>2. CASE purchases[PurchaseOf[c]].charge # c
  <2>1. UpdatePaid(bot) /\ confirms[bot].charge = c
    BY <1>0, <1>2, ChargeStays
  <2>2. confirms'[bot].charge = c /\ confirms'[bot].pc = "log"
    BY <2>1, OneWorker DEF UpdatePaid, Goto, ConfirmThen
  <2> QED
    BY <2>2 DEF PastUpdate, Handling, At
<1> QED
  BY <1>1, <1>2

\* Membership of an update in a sequence that grows, is taken from or joined.
LEMMA InSequences ==
  ASSUME NEW T, NEW s \in Seq(T), NEW t \in Seq(T), NEW v \in T, NEW u
  PROVE  /\ In(v, Append(s, v))
         /\ In(u, s) => In(u, Append(s, v)) /\ In(u, s \o t) /\ In(u, t \o s)
         /\ In(u, s) => s # << >> /\ (u = Head(s) \/ In(u, Tail(s)))
<1>1. In(v, Append(s, v))
  <2>1. Append(s, v)[Len(s) + 1] = v /\ Len(s) + 1 \in 1 .. Len(Append(s, v))
    OBVIOUS
  <2> QED
    BY <2>1 DEF In
<1>2. ASSUME NEW i \in 1 .. Len(s), s[i] = u
      PROVE  /\ In(u, Append(s, v)) /\ In(u, s \o t) /\ In(u, t \o s)
             /\ s # << >> /\ (u = Head(s) \/ In(u, Tail(s)))
  <2>1. i \in 1 .. Len(Append(s, v)) /\ Append(s, v)[i] = u
    BY <1>2
  <2>2. i \in 1 .. Len(s \o t) /\ (s \o t)[i] = u
    BY <1>2
  <2>3. Len(t) + i \in 1 .. Len(t \o s) /\ (t \o s)[Len(t) + i] = u
    BY <1>2
  <2>4. s # << >>
    BY <1>2
  <2>5. i = 1 => u = Head(s)
    BY <1>2
  <2>6. ASSUME i # 1 PROVE In(u, Tail(s))
    <3>1. i - 1 \in 1 .. Len(Tail(s)) /\ Tail(s)[i - 1] = u
      BY <1>2, <2>4, <2>6
    <3> QED
      BY <3>1 DEF In
  <2> QED
    BY <2>1, <2>2, <2>3, <2>4, <2>5, <2>6 DEF In
<1> QED
  BY <1>1, <1>2 DEF In

\* A notice stays pending until it is handed to confirm_payment, and that of a
\* new charge becomes pending.
LEMMA NoticeMoves ==
  ASSUME PollingInv, [PollingNext]_botVars, ~ Crash, NEW c \in Charges
  PROVE  /\ Pending(Notice(c)) => Pending(Notice(c))' \/ TakeNotice(c)
         /\ c \in charged' => c \in charged \/ Pending(Notice(c))'
<1> DEFINE u == Notice(c)
<1>0. /\ updates \in Seq(Update) /\ buffer \in Seq(Update) /\ u \in Update
      /\ \A m \in Messages : m \in Update /\ m # u
      /\ \A d \in Charges : Query(d) \in Update /\ Notice(d) \in Update /\ Query(d) # u
      /\ \A p : Forced(p) # u
      /\ said \subseteq Messages
  BY Kinds DEF PollingInv, PollingTypeOK, Update
<1>1. \A d \in Charges : Notice(d) = u => d = c
  <2>1. \A d : Notice(d).charge = d
    BY DEF Notice
  <2> QED
    BY <2>1
<1>2. Pending(u) <=> In(u, updates) \/ In(u, buffer) \/ up = u
  BY DEF Pending
<1>3. Pending(u)' <=> In(u, updates)' \/ In(u, buffer)' \/ up' = u
  BY DEF Pending
<1>4. (In(u, updates)' <=> In(u, updates')) /\ (In(u, buffer)' <=> In(u, buffer'))
  BY DEF In, Notice
<1> HIDE DEF u
<1>a. ASSUME NEW m \in Messages, Say(m)
      PROVE  (Pending(u) => Pending(u)') /\ charged' = charged
  BY <1>0, <1>2, <1>3, <1>4, <1>a, InSequences DEF Say, vars, confirmVars
<1>b. ASSUME NEW d \in Charges, PressPay(d)
      PROVE  (Pending(u) => Pending(u)') /\ charged' = charged
  BY <1>0, <1>2, <1>3, <1>4, <1>b, InSequences DEF PressPay, vars, confirmVars
<1>c. CASE Poll
  <2>1. Pending(u) => Pending(u)'
    BY <1>0, <1>2, <1>3, <1>4, <1>c, InSequences DEF Poll
  <2> QED
    BY <1>c, <2>1 DEF Poll, vars, confirmVars, u
<1>d. CASE Receive
  <2>1. Pending(u) => Pending(u)'
    <3>1. u # NoUpdate
      BY Kinds DEF u
    <3> QED
      BY <1>0, <1>2, <1>3, <1>4, <1>d, <3>1, InSequences DEF Receive
  <2> QED
    BY <1>d, <2>1 DEF Receive, vars, confirmVars, u
<1>e. ASSUME NEW d \in Charges, AnswerQuery(d)
      PROVE  (Pending(u) => Pending(u)') /\ (c \in charged' => c \in charged \/ Pending(u)')
  <2>1. Pending(u) => Pending(u)'
    BY <1>0, <1>2, <1>3, <1>4, <1>e, InSequences DEF AnswerQuery
  <2>2. CASE charged' = charged
    BY <2>1, <2>2
  <2>3. CASE charged' = charged \cup {d} /\ updates' = Append(updates, Notice(d))
    <3>1. CASE d = c
      BY <1>0, <1>3, <1>4, <2>3, <3>1, InSequences DEF u
    <3> QED
      BY <2>1, <2>3, <3>1
  <2> QED
    BY <1>e, <2>1, <2>2, <2>3 DEF AnswerQuery, Pay, vars, confirmVars
<1>f. ASSUME NEW d \in Charges, ForceCharge(d)
      PROVE  (Pending(u) => Pending(u)') /\ (c \in charged' => c \in charged \/ Pending(u)')
  BY <1>0, <1>2, <1>3, <1>4, <1>f DEF ForceCharge, Pay, u
<1>g. ASSUME NEW d \in Charges, TakeNotice(d)
      PROVE  (Pending(u) => Pending(u)' \/ TakeNotice(c)) /\ charged' = charged
  <2>1. up = u => d = c
    BY <1>1, <1>g DEF TakeNotice
  <2> QED
    BY <1>2, <1>3, <1>4, <1>g, <2>1 DEF TakeNotice, Deliver
<1>h. CASE ToggleAdmin \/ Buy \/ ForceBuy \/ TakeReview
  <2>1. up # u
    BY <1>h, Kinds DEF ToggleAdmin, Buy, ForceBuy, TakeReview, u
  <2> QED
    BY <1>2, <1>3, <1>4, <1>h, <2>1
       DEF ToggleAdmin, Buy, ForceBuy, TakeReview, StartPurchase, confirmVars, vars, u
<1>i. CASE Begin \/ ReviewOverHTTP \/ UNCHANGED botVars
  BY <1>2, <1>3, <1>4, <1>i DEF Begin, ReviewOverHTTP, botVars, pollingVars, vars, confirmVars, u
<1>j. CASE Beside
  <2>1. charged' = charged
    BY <1>j
       DEF Beside, Confirming, ConfirmStep, ConfirmFails, CheckProcessed, Lookup,
           UpdatePaid, SavePaymentEvent, Publish, MarkProcessed, Reply, EditCatalog,
           confirmVars
  <2> QED
    BY <1>2, <1>3, <1>4, <1>j, <2>1 DEF Beside, pollingVars, u
<1> QED
  BY <1>a, <1>b, <1>c, <1>d, <1>e, <1>f, <1>g, <1>h, <1>i, <1>j
     DEF PollingNext, HandleUpdate, Restart, u

TrackInv == RowInv /\ ChargeInv /\ NoticeTracked

LEMMA InitTrack == PollingInit => TrackInv
<1> SUFFICES ASSUME PollingInit PROVE TrackInv
  OBVIOUS
<1>1. /\ purchases = [p \in Purchases |-> NoRow]
      /\ charged = {} /\ confirms[bot].pc = "idle" /\ proc.pc = "idle"
  BY PollingAssumption
     DEF PollingInit, Init, StoreInit, ConfirmInit, IssueInit, Idle, Asleep
<1>2. RowInv
  BY <1>1 DEF RowInv, NoRow, At, BeforeSave
<1>3. ChargeInv /\ NoticeTracked
  BY <1>1, NoChargeAssumption, PurchaseOfAssumption DEF ChargeInv, NoticeTracked, NoRow
<1> QED
  BY <1>2, <1>3 DEF TrackInv

LEMMA NextTracked ==
  IInv /\ PollingInv /\ TrackInv /\ [PollingNext]_botVars => NoticeTracked'
<1> SUFFICES ASSUME IInv, PollingInv, TrackInv, [PollingNext]_botVars, faults' = 0,
                    NEW c \in charged', c \notin acked'
             PROVE  \/ Pending(Notice(c))'
                    \/ Handling(c)'
                    \/ purchases'[PurchaseOf[c]].charge \notin {c, NoCharge}
  BY DEF NoticeTracked
<1>0. /\ [Next]_vars /\ RowInv /\ ChargeInv /\ NoticeTracked
      /\ faults = 0 /\ c \notin acked /\ ~ Crash
      /\ c \in Charges /\ PurchaseOf[c] \in Purchases
  BY BotStepFulfils, FaultsStay, NextType, PurchaseOfAssumption
     DEF TrackInv, IInv, TypeOK, ConfirmTypeOK
<1>1. CASE c \notin charged
  BY <1>0, <1>1, NoticeMoves
<1>2. CASE Pending(Notice(c))
  <2>1. ASSUME TakeNotice(c) PROVE Handling(c)'
    BY <2>1, OneWorker DEF TakeNotice, Deliver, Handling, At
  <2> QED
    BY <1>0, <1>2, <2>1, NoticeMoves
<1>3. CASE purchases[PurchaseOf[c]].charge \notin {c, NoCharge}
  BY <1>0, <1>3, ChargeStays
<1>4. CASE Handling(c) /\ c \in charged
  <2>1. confirms[bot].charge = c /\ ~ At(bot, "idle")
    BY <1>4 DEF Handling
  <2>2. CASE Lookup(bot) /\ confirms'[bot].pc = "idle" /\ UNCHANGED purchases
    <3>1. purchases[PurchaseOf[c]].status # "pending"
      BY <2>1, <2>2, OneWorker DEF Lookup, PurchaseAt, ConfirmThen
    <3>2. purchases[PurchaseOf[c]].charge # NoCharge
      BY <1>0, <1>4, <3>1 DEF RowInv
    <3>3. purchases[PurchaseOf[c]].charge # c
      BY <1>0, <2>2 DEF ChargeInv, PastUpdate, Lookup, At
    <3> QED
      BY <2>2, <3>2, <3>3
  <2>3. CASE confirms'[bot].charge = c /\ confirms'[bot].pc # "idle"
    BY <2>3 DEF Handling, At
  <2> QED
    BY <1>0, <2>1, <2>2, <2>3, HandlerMoves DEF At
<1> QED
  BY <1>0, <1>1, <1>2, <1>3, <1>4 DEF NoticeTracked

\* The invariants of the tables, the loop and the handler hold together.
LEMMA Tracking == PollingSpec => [](IInv /\ PollingInv /\ TrackInv)
<1>1. IInv /\ PollingInv /\ TrackInv /\ [PollingNext]_botVars => TrackInv'
  BY BotStepFulfils, NextRow, NextCharge, NextTracked DEF TrackInv
<1>2. BotFulfils => []IInv
  BY Invariant DEF BotFulfils
<1> QED
  BY <1>1, <1>2, InitTrack, PollingInvariant, BotIsAHandler, PTL DEF PollingSpec

\* As long as nothing fails, no payment slips through the loop.
THEOREM NoPaymentSlips == PollingSpec => []NoticeTracked
<1>1. TrackInv => NoticeTracked
  BY DEF TrackInv
<1> QED
  BY <1>1, Tracking, PTL

\* With one handler of payments a purchase moves forward only.
THEOREM PurchasesMoveForward == PollingSpec => MovesForward
<1>1. IInv /\ TrackInv /\ [PollingNext]_botVars
        => [StatusesMoveBy(Lifecycle \cup {<<"access_issued", "error">>})]_botVars
  BY BotStepFulfils, RowMoves DEF TrackInv, StatusesMoveBy
<1> QED
  BY <1>1, Tracking, PTL DEF PollingSpec, MovesForward

-----------------------------------------------------------------------------
(***************************************************************************)
(* Each message is handled once.                                           *)
(***************************************************************************)
\* What is in a sequence that was appended to, joined or taken from, was
\* there before.
LEMMA FromSequences ==
  ASSUME NEW T, NEW s \in Seq(T), NEW t \in Seq(T), NEW v \in T, NEW u
  PROVE  /\ ~ In(u, << >>)
         /\ In(u, Append(s, v)) => In(u, s) \/ u = v
         /\ In(u, s \o t) => In(u, s) \/ In(u, t)
         /\ s # << >> => In(Head(s), s) /\ (In(u, Tail(s)) => In(u, s))
<1>1. ~ In(u, << >>)
  BY DEF In
<1>2. ASSUME NEW i \in 1 .. Len(Append(s, v)), Append(s, v)[i] = u
      PROVE  In(u, s) \/ u = v
  <2>1. i = Len(s) + 1 \/ (i \in 1 .. Len(s) /\ s[i] = u)
    BY <1>2
  <2>2. i = Len(s) + 1 => u = v
    BY <1>2
  <2> QED
    BY <2>1, <2>2 DEF In
<1>3. ASSUME NEW i \in 1 .. Len(s \o t), (s \o t)[i] = u
      PROVE  In(u, s) \/ In(u, t)
  <2>1. CASE i <= Len(s)
    <3>1. i \in 1 .. Len(s) /\ s[i] = u
      BY <1>3, <2>1
    <3> QED
      BY <3>1 DEF In
  <2>2. CASE i > Len(s)
    <3>1. i - Len(s) \in 1 .. Len(t) /\ t[i - Len(s)] = u
      BY <1>3, <2>2
    <3> QED
      BY <3>1 DEF In
  <2> QED
    BY <2>1, <2>2
<1>4. ASSUME s # << >>
      PROVE  In(Head(s), s) /\ (In(u, Tail(s)) => In(u, s))
  <2>1. 1 \in 1 .. Len(s) /\ s[1] = Head(s)
    BY <1>4
  <2>2. ASSUME NEW i \in 1 .. Len(Tail(s)), Tail(s)[i] = u
        PROVE  i + 1 \in 1 .. Len(s) /\ s[i + 1] = u
    BY <1>4, <2>2
  <2> QED
    BY <2>1, <2>2 DEF In
<1> QED
  BY <1>1, <1>2, <1>3, <1>4 DEF In

\* No message is twice in a sequence that was appended to with another one,
\* joined with one of other messages, or taken from.
LEMMA OnceSequences ==
  ASSUME NEW T, NEW s \in Seq(T), NEW t \in Seq(T), NEW v \in T, Once(s), Once(t)
  PROVE  /\ Once(<< >>)
         /\ v \notin Messages \/ ~ In(v, s) => Once(Append(s, v))
         /\ (\A m \in Messages : ~ (In(m, s) /\ In(m, t))) => Once(s \o t)
         /\ s # << >> => /\ Once(Tail(s))
                         /\ Head(s) \in Messages => ~ In(Head(s), Tail(s))
<1>1. Once(<< >>)
  BY DEF Once
<1>2. ASSUME v \notin Messages \/ ~ In(v, s)
      PROVE  Once(Append(s, v))
  <2> SUFFICES ASSUME NEW i \in 1 .. Len(Append(s, v)), NEW j \in 1 .. Len(Append(s, v)),
                      Append(s, v)[i] \in Messages, Append(s, v)[i] = Append(s, v)[j]
               PROVE  i = j
    BY DEF Once
  <2>1. \A k \in 1 .. Len(Append(s, v)) :
          \/ k \in 1 .. Len(s) /\ Append(s, v)[k] = s[k]
          \/ k = Len(s) + 1 /\ Append(s, v)[k] = v
    OBVIOUS
  <2>2. \A k \in 1 .. Len(s) : s[k] # v \/ v \notin Messages
    BY <1>2 DEF In
  <2> QED
    BY <2>1, <2>2 DEF Once
<1>3. ASSUME \A m \in Messages : ~ (In(m, s) /\ In(m, t))
      PROVE  Once(s \o t)
  <2> SUFFICES ASSUME NEW i \in 1 .. Len(s \o t), NEW j \in 1 .. Len(s \o t),
                      (s \o t)[i] \in Messages, (s \o t)[i] = (s \o t)[j]
               PROVE  i = j
    BY DEF Once
  <2>1. \A k \in 1 .. Len(s \o t) :
          \/ k \in 1 .. Len(s) /\ (s \o t)[k] = s[k]
          \/ k - Len(s) \in 1 .. Len(t) /\ (s \o t)[k] = t[k - Len(s)]
    OBVIOUS
  <2>2. \A k \in 1 .. Len(s), l \in 1 .. Len(t) : s[k] \in Messages => s[k] # t[l]
    BY <1>3 DEF In
  <2>3. i \in Int /\ j \in Int /\ Len(s) \in Int
    OBVIOUS
  <2>4. CASE i \in 1 .. Len(s) /\ j \in 1 .. Len(s)
    BY <2>1, <2>4 DEF Once
  <2>5. CASE i - Len(s) \in 1 .. Len(t) /\ j - Len(s) \in 1 .. Len(t)
    <3>1. i - Len(s) = j - Len(s)
      BY <2>1, <2>5 DEF Once
    <3> QED
      BY <2>3, <3>1
  <2> QED
    BY <2>1, <2>2, <2>4, <2>5
<1>4. ASSUME s # << >>
      PROVE  /\ Once(Tail(s))
             /\ Head(s) \in Messages => ~ In(Head(s), Tail(s))
  <2>1. \A k \in 1 .. Len(Tail(s)) : k \in Int /\ k + 1 \in 1 .. Len(s) /\ Tail(s)[k] = s[k + 1]
    BY <1>4
  <2>2. Head(s) = s[1] /\ 1 \in 1 .. Len(s)
    BY <1>4
  <2>3. Once(Tail(s))
    <3> SUFFICES ASSUME NEW i \in 1 .. Len(Tail(s)), NEW j \in 1 .. Len(Tail(s)),
                        Tail(s)[i] \in Messages, Tail(s)[i] = Tail(s)[j]
                 PROVE  i = j
      BY DEF Once
    <3>1. i + 1 = j + 1
      BY <2>1 DEF Once
    <3> QED
      BY <2>1, <3>1
  <2>4. ASSUME Head(s) \in Messages, NEW k \in 1 .. Len(Tail(s)), Tail(s)[k] = Head(s)
        PROVE  FALSE
    <3>1. k + 1 = 1
      BY <2>1, <2>2, <2>4 DEF Once
    <3> QED
      BY <3>1
  <2> QED
    BY <2>3, <2>4 DEF In
<1> QED
  BY <1>1, <1>2, <1>3, <1>4

\* Where messages are, and what the other updates are not.
LEMMA MessagesKnown ==
  ASSUME PollingInv
  PROVE  /\ updates \in Seq(Update) /\ buffer \in Seq(Update) /\ said \subseteq Messages
         /\ \A m \in Messages : Pending(m) => m \in said
         /\ \A m \in Messages : m \in Update
         /\ \A c \in Charges : Query(c) \in Update /\ Notice(c) \in Update
         /\ \A c : Query(c) \notin Messages /\ Notice(c) \notin Messages
         /\ \A p : Forced(p) \notin Messages
         /\ NoUpdate \notin Messages
<1>1. /\ updates \in Seq(Update) /\ buffer \in Seq(Update) /\ said \subseteq Messages
      /\ updates \in Seq(Known) /\ buffer \in Seq(Known)
      /\ up \in Known \cup {Forced(p) : p \in Purchases} \cup {NoUpdate}
  BY DEF PollingInv, PollingTypeOK, UpdatesInv
<1>2. ASSUME NEW m \in Messages, m \in Known PROVE m \in said
  BY <1>2, Kinds DEF Known
<1>3. ASSUME NEW m \in Messages, Pending(m) PROVE m \in said
  <2>1. m \in Known \/ up = m
    BY <1>1, <1>3 DEF Pending, In
  <2>2. up = m => m \in Known
    BY <1>1, Kinds
  <2> QED
    BY <1>2, <2>1, <2>2
<1>4. \A m \in Messages : m \in Update
  BY DEF Update
<1>5. \A c \in Charges : Query(c) \in Update /\ Notice(c) \in Update
  BY DEF Update
<1> QED
  BY <1>1, <1>3, <1>4, <1>5, Kinds

\* A step that moves no message but the one at hand.
LEMMA OnceStays ==
  ASSUME OnceInv, UNCHANGED <<faults, updates, buffer>>, up' = up \/ up' \notin Messages
  PROVE  OnceInv'
<1>1. /\ Once(updates)' <=> Once(updates)
      /\ Once(buffer)' <=> Once(buffer)
      /\ \A m \in Messages : /\ In(m, updates)' <=> In(m, updates)
                            /\ In(m, buffer)' <=> In(m, buffer)
  BY DEF Once, In
<1> QED
  BY <1>1 DEF OnceInv

\* No step that does not fail doubles a message.
LEMMA NextOnce == IInv /\ PollingInv /\ OnceInv /\ [PollingNext]_botVars => OnceInv'
<1> SUFFICES ASSUME IInv, PollingInv, OnceInv, [PollingNext]_botVars, faults' = 0
             PROVE  OnceInv'
  BY DEF OnceInv
<1>0. faults = 0 /\ ~ Crash
  BY BotStepFulfils, FaultsStay
<1>1. /\ Once(updates) /\ Once(buffer)
      /\ \A m \in Messages :
           /\ In(m, updates) => ~ In(m, buffer)
           /\ In(m, updates) \/ In(m, buffer) => up # m
  BY <1>0 DEF OnceInv
<1>2. OnceInv' <=>
        /\ Once(updates') /\ Once(buffer')
        /\ \A m \in Messages :
             /\ In(m, updates') => ~ In(m, buffer')
             /\ In(m, updates') \/ In(m, buffer') => up' # m
  <2>1. /\ Once(updates)' <=> Once(updates')
        /\ Once(buffer)' <=> Once(buffer')
        /\ \A m \in Messages : /\ In(m, updates)' <=> In(m, updates')
                              /\ In(m, buffer)' <=> In(m, buffer')
    BY DEF Once, In
  <2> QED
    BY <2>1 DEF OnceInv
<1>3. << >> \in Seq(Update)
  OBVIOUS
<1>a. ASSUME NEW m \in Messages, Say(m) PROVE OnceInv'
  <2>1. ~ In(m, updates) /\ ~ In(m, buffer) /\ up # m
    BY <1>a, MessagesKnown DEF Say, Pending
  <2>2. Once(Append(updates, m))
    BY <1>1, <2>1, MessagesKnown, OnceSequences
  <2>3. \A k \in Messages : In(k, Append(updates, m)) => In(k, updates) \/ k = m
    BY MessagesKnown, FromSequences
  <2> QED
    BY <1>1, <1>2, <1>a, <2>1, <2>2, <2>3 DEF Say
<1>b. ASSUME NEW u \in Update, u \notin Messages, updates' = Append(updates, u),
             buffer' = buffer, up' = up \/ up' \notin Messages
      PROVE  OnceInv'
  <2>1. Once(Append(updates, u))
    BY <1>1, <1>b, MessagesKnown, OnceSequences
  <2>2. \A k \in Messages : In(k, Append(updates, u)) => In(k, updates)
    BY <1>b, MessagesKnown, FromSequences
  <2> QED
    BY <1>1, <1>2, <1>b, <2>1, <2>2
<1>c. CASE Poll
  <2>1. Once(buffer \o updates) /\ Once(<< >>)
    BY <1>1, MessagesKnown, OnceSequences
  <2>2. \A k \in Messages : /\ In(k, buffer \o updates) => In(k, buffer) \/ In(k, updates)
                          /\ ~ In(k, << >>)
    BY MessagesKnown, FromSequences
  <2> QED
    BY <1>1, <1>2, <1>c, <2>1, <2>2 DEF Poll
<1>d. CASE Receive
  <2>1. /\ Once(Tail(buffer))
        /\ Head(buffer) \in Messages => ~ In(Head(buffer), Tail(buffer))
    BY <1>1, <1>d, MessagesKnown, OnceSequences DEF Receive
  <2>2. /\ In(Head(buffer), buffer)
        /\ \A k \in Messages : In(k, Tail(buffer)) => In(k, buffer)
    BY <1>d, MessagesKnown, FromSequences DEF Receive
  <2> QED
    BY <1>1, <1>2, <1>d, <2>1, <2>2 DEF Receive
<1>e. ASSUME NEW c \in Charges, AnswerQuery(c) PROVE OnceInv'
  <2>1. up' \notin Messages
    BY <1>e, MessagesKnown DEF AnswerQuery, Done
  <2>2. CASE updates' = Append(updates, Notice(c))
    BY <1>b, <1>e, <2>1, <2>2, MessagesKnown DEF AnswerQuery
  <2>3. CASE updates' = updates
    BY <1>0, <1>e, <2>1, <2>3, OnceStays DEF AnswerQuery
  <2> QED
    BY <1>e, <2>2, <2>3 DEF AnswerQuery
<1>f. ASSUME NEW c \in Charges, PressPay(c) PROVE OnceInv'
  BY <1>b, <1>f, MessagesKnown DEF PressPay
<1>g. ASSUME NEW c \in Charges, ForceCharge(c) \/ TakeNotice(c) PROVE OnceInv'
  BY <1>0, <1>g, MessagesKnown, OnceStays DEF ForceCharge, TakeNotice, Done
<1>h. CASE ToggleAdmin \/ Buy \/ ForceBuy \/ TakeReview
  BY <1>0, <1>h, MessagesKnown, OnceStays DEF ToggleAdmin, Buy, ForceBuy, TakeReview, Done
<1>i. CASE Begin \/ ReviewOverHTTP \/ Beside \/ UNCHANGED botVars
  BY <1>0, <1>i, OnceStays DEF Begin, ReviewOverHTTP, Beside, pollingVars, botVars
<1> QED
  BY <1>0, <1>a, <1>c, <1>d, <1>e, <1>f, <1>g, <1>h, <1>i
     DEF PollingNext, HandleUpdate, Restart

\* The messages that have been handled.
Handled == {m \in said : ~ Pending(m)}

\* The message at hand is handled when the loop is done with it, and none other.
LEMMA HandledMoves ==
  ASSUME IInv, PollingInv, OnceInv, [PollingNext]_botVars, faults' = 0
  PROVE  /\ up' # up /\ up \in Messages => Handled' = Handled \cup {up} /\ up \notin Handled
         /\ up' = up \/ up \notin Messages => Handled' = Handled
<1>0. faults = 0 /\ ~ Crash
  BY BotStepFulfils, FaultsStay
<1>1. \A m \in Messages :
        /\ In(m, updates) => ~ In(m, buffer)
        /\ In(m, updates) \/ In(m, buffer) => up # m
  BY <1>0 DEF OnceInv
<1>2. /\ \A m : Pending(m) <=> In(m, updates) \/ In(m, buffer) \/ up = m
      /\ \A m : Pending(m)' <=> In(m, updates') \/ In(m, buffer') \/ up' = m
  BY DEF Pending, In
<1>3. /\ \A m : m \in Handled <=> m \in said /\ ~ Pending(m)
      /\ \A m : m \in Handled' <=> m \in said' /\ ~ Pending(m)'
      /\ said \subseteq said'
      /\ said \subseteq Messages
      /\ \A m \in Messages : Pending(m) => m \in said
  BY HistoriesGrow, MessagesKnown DEF Handled
<1>4. up \in Messages => up \in said /\ up \notin Handled
  BY <1>2, <1>3
<1>5. ASSUME said' = said,
             \A m \in Messages : In(m, updates') <=> In(m, updates),
             \A m \in Messages : In(m, buffer') <=> In(m, buffer),
             up' = up \/ up' \notin Messages
      PROVE  /\ up' # up /\ up \in Messages => Handled' = Handled \cup {up}
             /\ up' = up \/ up \notin Messages => Handled' = Handled
  <2>1. ASSUME up' # up, up \in Messages PROVE Handled' = Handled \cup {up}
    <3>1. \A m \in Messages : Pending(m)' <=> Pending(m) /\ m # up
      BY <1>1, <1>2, <1>5, <2>1
    <3> QED
      BY <1>3, <1>4, <1>5, <2>1, <3>1
  <2>2. ASSUME up' = up \/ up \notin Messages PROVE Handled' = Handled
    <3>1. \A m \in Messages : Pending(m)' <=> Pending(m)
      BY <1>2, <1>5, <2>2
    <3> QED
      BY <1>3, <1>5, <3>1
  <2> QED
    BY <2>1, <2>2
<1>a. ASSUME NEW k \in Messages, Say(k) PROVE Handled' = Handled /\ up' = up
  <2>1. \A m \in Messages : In(m, updates') <=> In(m, updates) \/ m = k
    BY <1>a, MessagesKnown, InSequences, FromSequences DEF Say
  <2>2. \A m \in Messages : Pending(m)' <=> Pending(m) \/ m = k
    BY <1>2, <1>a, <2>1 DEF Say
  <2>3. k \notin said /\ said' = said \cup {k}
    BY <1>a DEF Say
  <2> QED
    BY <1>3, <1>a, <2>2, <2>3 DEF Say
<1>b. ASSUME NEW u \in Update, u \notin Messages, updates' = Append(updates, u)
      PROVE  \A m \in Messages : In(m, updates') <=> In(m, updates)
  BY <1>b, MessagesKnown, InSequences, FromSequences
<1>c. CASE Poll
  <2>1. \A m \in Messages : In(m, buffer') <=> In(m, buffer) \/ In(m, updates)
    BY <1>c, MessagesKnown, InSequences, FromSequences DEF Poll
  <2>2. \A m : ~ In(m, updates')
    BY <1>c DEF Poll, In
  <2>3. \A m \in Messages : Pending(m)' <=> Pending(m)
    BY <1>2, <1>c, <2>1, <2>2 DEF Poll
  <2> QED
    BY <1>3, <1>c, <2>3 DEF Poll
<1>d. CASE Receive
  <2>1. \A m \in Messages : In(m, buffer) <=> m = Head(buffer) \/ In(m, Tail(buffer))
    BY <1>d, MessagesKnown, InSequences, FromSequences DEF Receive
  <2>2. \A m \in Messages : Pending(m)' <=> Pending(m)
    BY <1>2, <1>d, <2>1, MessagesKnown DEF Receive
  <2> QED
    BY <1>3, <1>d, <2>2, MessagesKnown DEF Receive
<1>e. ASSUME NEW c \in Charges, AnswerQuery(c)
      PROVE  up \notin Messages /\ Handled' = Handled
  <2>1. \A m \in Messages : In(m, updates') <=> In(m, updates)
    BY <1>b, <1>e, MessagesKnown DEF AnswerQuery
  <2> QED
    BY <1>5, <1>e, <2>1, MessagesKnown DEF AnswerQuery, Done
<1>f. ASSUME NEW c \in Charges, PressPay(c) PROVE up' = up /\ Handled' = Handled
  <2>1. \A m \in Messages : In(m, updates') <=> In(m, updates)
    BY <1>b, <1>f, MessagesKnown DEF PressPay
  <2> QED
    BY <1>5, <1>f, <2>1 DEF PressPay
<1>g. ASSUME NEW c \in Charges, ForceCharge(c) \/ TakeNotice(c)
      PROVE  up \notin Messages /\ Handled' = Handled
  BY <1>5, <1>g, MessagesKnown DEF ForceCharge, TakeNotice, Done
<1>h. CASE ToggleAdmin \/ Buy \/ ForceBuy \/ TakeReview
  BY <1>4, <1>5, <1>h, MessagesKnown DEF ToggleAdmin, Buy, ForceBuy, TakeReview, Done
<1>i. CASE Begin \/ ReviewOverHTTP \/ Beside \/ UNCHANGED botVars
  BY <1>5, <1>i DEF Begin, ReviewOverHTTP, Beside, pollingVars, botVars
<1> QED
  BY <1>0, <1>4, <1>a, <1>c, <1>d, <1>e, <1>f, <1>g, <1>h, <1>i, MessagesKnown
     DEF PollingNext, HandleUpdate, Restart, Poll, Receive

\* The purchases that have a row.
Started == {p \in Purchases : purchases[p].status # "none"}

CountInv ==
  /\ IsFiniteSet(said)
  /\ IsFiniteSet(Started)
  /\ AdminAsAsked
  /\ OnePurchasePerOrder

\* Only an order starts a purchase, and the loop is done with it then.
LEMMA StartedMoves ==
  ASSUME IInv, RowInv, [PollingNext]_botVars
  PROVE  \/ Started' = Started
         \/ /\ Buy \/ ForceBuy
            /\ up' # up
            /\ \E p \in Purchases \ Started : Started' = Started \cup {p}
<1>1. ASSUME NEW p \in Purchases, StartPurchase(p)
      PROVE  p \in Purchases \ Started /\ Started' = Started \cup {p}
  BY <1>1, OneWorker DEF StartPurchase, UpdateRow, PendingRow, NoRow, Started
<1>2. ASSUME UNCHANGED purchases \/ UpdatePaid(bot) \/ ProviderFails \/ SaveIssued
      PROVE  Started' = Started
  <2>1. [Next]_vars
    BY BotStepFulfils
  <2>2. ASSUME NEW p \in Purchases, purchases[p].status = "none"
        PROVE  purchases'[p].status = "none"
    <3>1. At(bot, "update") => p # PurchaseAt(bot)
      BY <2>2 DEF RowInv
    <3>2. Busy => p # Current
      BY <2>2, OneWorker DEF PaidRow
    <3>3. UpdatePaid(bot) => At(bot, "update")
      BY DEF UpdatePaid
    <3>4. ProviderFails \/ SaveIssued => Busy
      BY DEF ProviderFails, SaveIssued, Busy
    <3> QED
      BY <1>2, <2>2, <3>1, <3>2, <3>3, <3>4, OneWorker
         DEF UpdatePaid, ProviderFails, SaveIssued, UpdateRow
  <2> QED
    BY <2>1, <2>2, ChargeStays DEF Started
<1>3. CASE Buy
  <2>1. up' # up
    BY <1>3, Kinds DEF Buy, Done
  <2>2. (\E p \in Purchases : StartPurchase(p)) \/ UNCHANGED purchases
    BY <1>3 DEF Buy, storeVars, vars
  <2> QED
    BY <1>1, <1>2, <1>3, <2>1, <2>2
<1>4. CASE ForceBuy
  <2>1. up' # up
    BY <1>4, Kinds DEF ForceBuy, Done
  <2>2. (\E p \in Purchases : StartPurchase(p)) \/ UNCHANGED purchases
    BY <1>4 DEF ForceBuy, storeVars, vars
  <2> QED
    BY <1>1, <1>2, <1>4, <2>1, <2>2
<1>5. CASE Beside
  <2>1. UNCHANGED purchases \/ UpdatePaid(bot) \/ ProviderFails \/ SaveIssued
    BY <1>5
       DEF Beside, Confirming, ConfirmStep, ConfirmFails, CheckProcessed, Lookup,
           SavePaymentEvent, Publish, MarkProcessed, Reply, ProcessorStep, IssueFails,
           Tick, EndOfBatch, LoadEvent, CheckContent, ProviderAnswers, CreateGrant,
           SendLink, MarkPublished, EditCatalog, storeVars
  <2> QED
    BY <1>2, <2>1
<1>6. CASE UNCHANGED purchases
  BY <1>2, <1>6
<1> QED
  BY <1>3, <1>4, <1>5, <1>6
     DEF PollingNext, HandleUpdate, Say, PressPay, Poll, Begin, Receive, AnswerQuery,
         TakeNotice, ForceCharge, Pay, Deliver, ToggleAdmin, TakeReview, ReviewOverHTTP,
         Restart, Crash, storeVars, vars, botVars

\* An /adminmode that is handled toggles, and nothing else does while nothing
\* fails.
LEMMA NextToggles ==
  IInv /\ PollingInv /\ OnceInv /\ CountInv /\ [PollingNext]_botVars => AdminAsAsked'
<1> SUFFICES ASSUME IInv, PollingInv, OnceInv, CountInv, [PollingNext]_botVars, faults' = 0
             PROVE  admin' <=> Cardinality({m \in Toggles' : ~ Pending(m)'}) % 2 = 1
  BY DEF AdminAsAsked
<1> DEFINE D == {m \in Handled : m.kind = "adminmode"}
           E == {m \in Handled' : m.kind = "adminmode"}
<1>1. D = {m \in Toggles : ~ Pending(m)} /\ E = {m \in Toggles' : ~ Pending(m)'}
  BY DEF Handled, Toggles
<1>2. faults = 0 /\ ~ Crash
  BY BotStepFulfils, FaultsStay
<1>3. /\ admin <=> Cardinality(D) % 2 = 1
      /\ IsFiniteSet(D)
      /\ Cardinality(D) \in Nat
  <2>1. D \subseteq said
    BY DEF Handled
  <2>2. IsFiniteSet(D)
    BY <2>1, FS_Subset DEF CountInv
  <2> QED
    BY <1>1, <1>2, <2>2, FS_CardinalityType DEF CountInv, AdminAsAsked
<1>4. CASE ToggleAdmin
  <2>1. up \in Messages /\ up' # up /\ up.kind = "adminmode"
    BY <1>4, Kinds DEF ToggleAdmin, Done, PollingInv, UpdatesInv, Known, PollingTypeOK
  <2>2. up \notin D /\ E = D \cup {up}
    BY <2>1, HandledMoves
  <2>3. Cardinality(E) = Cardinality(D) + 1
    BY <1>3, <2>2, FS_AddElement
  <2>4. admin' <=> ~ admin
    BY <1>4 DEF ToggleAdmin
  <2> HIDE DEF D, E
  <2>5. Cardinality(E) % 2 = 1 <=> ~ (Cardinality(D) % 2 = 1)
    BY <1>3, <2>3
  <2> QED
    BY <1>1, <1>3, <2>4, <2>5
<1>5. CASE ~ ToggleAdmin
  <2>1. admin' = admin
    BY <1>2, <1>5
       DEF PollingNext, HandleUpdate, Say, PressPay, Poll, Begin, Receive, AnswerQuery,
           TakeNotice, ForceCharge, Buy, ForceBuy, TakeReview, ReviewOverHTTP, Beside,
           Restart, pollingVars, botVars
  <2>2. up' = up \/ up.kind # "adminmode"
    BY <1>2, <1>5, Kinds
       DEF PollingNext, HandleUpdate, Say, PressPay, Poll, Begin, Receive, AnswerQuery,
           TakeNotice, ForceCharge, Buy, ForceBuy, TakeReview, ReviewOverHTTP, Beside,
           Restart, pollingVars, botVars
  <2>3. E = D
    BY <2>2, HandledMoves
  <2> QED
    BY <1>1, <1>3, <2>1, <2>3
<1> QED
  BY <1>4, <1>5

\* An order that is handled starts one purchase or none.
LEMMA NextOrders ==
  IInv /\ PollingInv /\ RowInv /\ OnceInv /\ CountInv /\ [PollingNext]_botVars
    => OnePurchasePerOrder'
<1> SUFFICES ASSUME IInv, PollingInv, RowInv, OnceInv, CountInv, [PollingNext]_botVars,
                    faults' = 0
             PROVE  Cardinality(Started') <= Cardinality({m \in Orders' : ~ Pending(m)'})
  BY DEF OnePurchasePerOrder, Started
<1> DEFINE D == {m \in Handled : m.kind \in {"buy", "forcebuy"}}
           E == {m \in Handled' : m.kind \in {"buy", "forcebuy"}}
<1>1. D = {m \in Orders : ~ Pending(m)} /\ E = {m \in Orders' : ~ Pending(m)'}
  BY DEF Handled, Orders
<1>2. faults = 0
  BY BotStepFulfils, FaultsStay
<1>3. Cardinality(Started) <= Cardinality(D)
  BY <1>1, <1>2 DEF CountInv, OnePurchasePerOrder, Started
<1>4. IsFiniteSet(D) /\ IsFiniteSet(Started)
  <2>1. D \subseteq said
    BY DEF Handled
  <2> QED
    BY <2>1, FS_Subset DEF CountInv
<1>5. D \subseteq E /\ IsFiniteSet(E)
  <2>1. Handled' \in {Handled, Handled \cup {up}}
    BY HandledMoves
  <2>2. E \in {D, D \cup {up}}
    BY <2>1
  <2> QED
    BY <1>4, <2>2, FS_AddElement
<1>6. /\ Cardinality(D) \in Nat /\ Cardinality(E) \in Nat /\ Cardinality(D) <= Cardinality(E)
      /\ Cardinality(Started) \in Nat
  BY <1>4, <1>5, FS_Subset, FS_CardinalityType
<1>7. CASE Started' = Started
  <2>1. Cardinality(Started') = Cardinality(Started)
    BY <1>7
  <2> HIDE DEF D, E
  <2> QED
    BY <1>1, <1>3, <1>6, <2>1
<1>8. CASE /\ Buy \/ ForceBuy
           /\ up' # up
           /\ \E p \in Purchases \ Started : Started' = Started \cup {p}
  <2>1. up \in Messages /\ up.kind \in {"buy", "forcebuy"}
    BY <1>8, Kinds DEF Buy, ForceBuy, PollingInv, UpdatesInv, Known, PollingTypeOK
  <2>2. up \notin D /\ E = D \cup {up}
    BY <1>8, <2>1, HandledMoves
  <2>3. Cardinality(E) = Cardinality(D) + 1
    BY <1>4, <2>2, FS_AddElement
  <2>4. Cardinality(Started') = Cardinality(Started) + 1
    BY <1>4, <1>8, FS_AddElement
  <2> HIDE DEF D, E
  <2> QED
    BY <1>1, <1>3, <1>6, <2>3, <2>4
<1> QED
  BY <1>7, <1>8, StartedMoves

\* The sets that are counted stay finite.
LEMMA NextFinite ==
  IInv /\ RowInv /\ CountInv /\ [PollingNext]_botVars
    => IsFiniteSet(said)' /\ IsFiniteSet(Started)'
<1> SUFFICES ASSUME IInv, RowInv, CountInv, [PollingNext]_botVars
             PROVE  IsFiniteSet(said') /\ IsFiniteSet(Started')
  OBVIOUS
<1>1. said' = said \/ \E m \in Messages : said' = said \cup {m}
  BY DEF PollingNext, HandleUpdate, Say, PressPay, Poll, Begin, Receive, AnswerQuery,
         TakeNotice, ForceCharge, ToggleAdmin, Buy, ForceBuy, TakeReview,
         ReviewOverHTTP, Beside, Restart, pollingVars, botVars
<1>2. Started' = Started \/ \E p \in Purchases : Started' = Started \cup {p}
  BY StartedMoves
<1> QED
  BY <1>1, <1>2, FS_AddElement DEF CountInv

LEMMA InitCount == PollingInit => OnceInv /\ CountInv
<1> SUFFICES ASSUME PollingInit PROVE OnceInv /\ CountInv
  OBVIOUS
<1>1. /\ said = {} /\ updates = << >> /\ buffer = << >> /\ up = NoUpdate /\ admin = FALSE
      /\ purchases = [p \in Purchases |-> NoRow]
  BY DEF PollingInit, Init, StoreInit
<1>2. OnceInv
  <2>1. NoUpdate \notin Messages
    BY Kinds
  <2> QED
    BY <1>1, <2>1 DEF OnceInv, Once, In
<1>3. Started = {} /\ said = {}
  BY <1>1 DEF Started, NoRow
<1>4. {m \in Toggles : ~ Pending(m)} = {} /\ {m \in Orders : ~ Pending(m)} = {}
  BY <1>1 DEF Toggles, Orders
<1>5. AdminAsAsked
  <2>1. Cardinality({m \in Toggles : ~ Pending(m)}) = 0
    BY <1>4, FS_EmptySet
  <2> QED
    BY <1>1, <2>1 DEF AdminAsAsked
<1>6. OnePurchasePerOrder
  <2>1. Cardinality(Started) = 0 /\ Cardinality({m \in Orders : ~ Pending(m)}) = 0
    BY <1>3, <1>4, FS_EmptySet
  <2> QED
    BY <2>1 DEF OnePurchasePerOrder, Started
<1> QED
  BY <1>2, <1>3, <1>5, <1>6, FS_EmptySet DEF CountInv

LEMMA Counting == PollingSpec => [](OnceInv /\ CountInv)
<1>1. IInv /\ PollingInv /\ TrackInv /\ OnceInv /\ CountInv /\ [PollingNext]_botVars
        => OnceInv' /\ CountInv'
  BY NextOnce, NextToggles, NextOrders, NextFinite DEF TrackInv, CountInv
<1> QED
  BY <1>1, InitCount, Tracking, PTL DEF PollingSpec

\* As long as nothing fails, every /buy and /forcebuy is handled once: there
\* are no more purchases than orders handled, for any messages in any portions.
THEOREM OrdersAreHandledOnce == PollingSpec => []OnePurchasePerOrder
<1>1. CountInv => OnePurchasePerOrder
  BY DEF CountInv
<1> QED
  BY <1>1, Counting, PTL

\* As long as nothing fails, the admin mode is what the /adminmode messages
\* handled so far make it.
THEOREM AdminModeIsAsAsked == PollingSpec => []AdminAsAsked
<1>1. CountInv => AdminAsAsked
  BY DEF CountInv
<1> QED
  BY <1>1, Counting, PTL
=============================================================================
