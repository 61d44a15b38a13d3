-------------------------- MODULE FulfilmentProofs --------------------------
(***************************************************************************)
(* Theorems of Fulfilment for any purchases, contents, charges, number of  *)
(* handlers, retry limit, batch size and placement and number of faults.   *)
(***************************************************************************)
EXTENDS Fulfilment, TLAPS

ConfirmCopy == [pc : ConfirmPoint, charge : Charges \cup {NoCharge}, row : Row]

-----------------------------------------------------------------------------
(***************************************************************************)
(* The entity's methods return rows.                                       *)
(***************************************************************************)

\* The zero row, and so an idle handler's copy, have their types.
LEMMA ZeroValues ==
  /\ NoRow \in Row
  /\ PendingRow \in Row
  /\ Idle \in ConfirmCopy
BY DEF NoRow, PendingRow, Row, Status, Idle, ConfirmCopy, ConfirmPoint

\* MarkPaid, MarkAccessIssued and RegisterIssueAccessFailure keep a row a row.
LEMMA EntityMethods ==
  ASSUME NEW row \in Row
  PROVE  /\ \A c \in Charges : MarkPaid(row, c) \in Row
         /\ MarkAccessIssued(row) \in Row
         /\ RegisterIssueAccessFailure(row) \in Row
BY BoundAssumption
   DEF MarkPaid, MarkAccessIssued, RegisterIssueAccessFailure, Row, Status

\* The order of statements leads from a program point to a program point.
LEMMA OrderOfStatements ==
  /\ ConfirmThen.check = "lookup"
  /\ ConfirmThen.lookup = "update"
  /\ ConfirmThen.update = "log"
  /\ ConfirmThen.log = "publish"
  /\ ConfirmThen.publish = "mark"
  /\ ConfirmThen.mark = "reply"
BY DEF ConfirmThen

-----------------------------------------------------------------------------
(***************************************************************************)
(* Type correctness.                                                       *)
(***************************************************************************)

\* Initially every variable has its type.
LEMMA InitType == Init => TypeOK
<1> SUFFICES ASSUME Init PROVE TypeOK
  OBVIOUS
<1>1. StoreTypeOK
  BY ZeroValues DEF Init, StoreInit, StoreTypeOK, ContentStatus
<1>2. ConfirmTypeOK
  BY ZeroValues DEF Init, ConfirmInit, ConfirmTypeOK, ConfirmCopy, Idle
<1>3. IssueTypeOK
  BY ZeroValues DEF Init, IssueInit, IssueTypeOK, IssuePoint, Asleep, Busy
<1> QED
  BY <1>1, <1>2, <1>3 DEF TypeOK

\* A statement of a payment handler keeps the types.
LEMMA ConfirmStepType ==
  ASSUME TypeOK, NEW w \in Workers,
         ConfirmStep(w) \/ ConfirmFails(w) \/ \E c \in Charges : Deliver(w, c)
  PROVE  StoreTypeOK' /\ ConfirmTypeOK'
<1> USE DEF TypeOK, StoreTypeOK, ConfirmTypeOK, ConfirmCopy
<1>0. /\ confirms[w] \in ConfirmCopy
      /\ confirms[w].pc # "idle" => PurchaseAt(w) \in Purchases
  BY PurchaseOfAssumption DEF PurchaseAt
<1>1. CASE CheckProcessed(w)
  BY <1>0, <1>1, OrderOfStatements DEF CheckProcessed, At, Goto, ConfirmPoint, storeVars
<1>2. CASE Lookup(w)
  <2>1. CASE purchases[PurchaseAt(w)].status = "pending"
    <3>1. MarkPaid(purchases[PurchaseAt(w)], confirms[w].charge) \in Row
      BY <1>0, <1>2, EntityMethods DEF Lookup, At
    <3> QED
      BY <1>0, <1>2, <2>1, <3>1, OrderOfStatements
         DEF Lookup, At, ConfirmPoint, storeVars
  <2>2. CASE purchases[PurchaseAt(w)].status # "pending"
    BY <1>2, <2>2, ZeroValues DEF Lookup, Return, Idle, storeVars
  <2> QED
    BY <2>1, <2>2
<1>3. CASE UpdatePaid(w)
  BY <1>0, <1>3, OrderOfStatements DEF UpdatePaid, At, UpdateRow, Goto, ConfirmPoint
<1>4. CASE SavePaymentEvent(w)
  BY <1>0, <1>4, OrderOfStatements DEF SavePaymentEvent, At, Goto, ConfirmPoint
<1>5. CASE Publish(w)
  <2>1. /\ PurchaseAt(w) \in Purchases
        /\ confirms' = [confirms EXCEPT ![w].pc = "mark"]
        /\ outboxEvents' = Append(outboxEvents, PurchaseAt(w))
    BY <1>0, <1>5, OrderOfStatements DEF Publish, PublishPurchaseConfirmed, At, Goto
  <2>2. /\ confirms' \in [Workers -> ConfirmCopy]
        /\ \A v \in Workers : confirms'[v].charge = confirms[v].charge
        /\ \A v \in Workers \ {w} : confirms'[v] = confirms[v]
        /\ confirms[w].pc # "idle"
    BY <1>0, <1>5, <2>1 DEF ConfirmPoint, Publish, At
  <2>3. outboxEvents' \in Seq(Purchases) /\ Len(outboxEvents') = Len(outboxEvents) + 1
    BY <2>1
  <2>4. published \subseteq 1 .. Len(outboxEvents')
    BY <2>3
  <2>5. UNCHANGED <<purchases, content, paymentEvents, idempotencyKeys, published,
                    faults, charged, acked>>
    BY <1>5 DEF Publish
  <2>6. StoreTypeOK'
    BY <2>3, <2>4, <2>5
  <2>7. ConfirmTypeOK'
    BY <2>2, <2>5
  <2> QED
    BY <2>6, <2>7
<1>6. CASE MarkProcessed(w)
  BY <1>0, <1>6, OrderOfStatements DEF MarkProcessed, At, Goto, ConfirmPoint
<1>7. CASE Reply(w)
  BY <1>0, <1>7, ZeroValues DEF Reply, At, Return, Idle, storeVars
<1>8. CASE ConfirmFails(w)
  BY <1>8, ZeroValues DEF ConfirmFails, FaultAt, Return, Idle
<1>9. CASE \E c \in Charges : Deliver(w, c)
  BY <1>9, ZeroValues DEF Deliver, At, Idle, ConfirmPoint, storeVars
<1> QED
  BY <1>1, <1>2, <1>3, <1>4, <1>5, <1>6, <1>7, <1>8, <1>9 DEF ConfirmStep

\* A step of the processor keeps the types.
LEMMA ProcessorStepType ==
  ASSUME TypeOK, ProcessorStep \/ IssueFails
  PROVE  StoreTypeOK' /\ IssueTypeOK'
<1> USE DEF TypeOK, StoreTypeOK, IssueTypeOK, IssuePoint, Busy
<1>0. /\ Busy => Current \in Purchases
      /\ \A batch \in SUBSET (1 .. Len(outboxEvents)) :
           Between(batch) \in [pc : IssuePoint,
                              batch : SUBSET (1 .. Len(outboxEvents)),
                              event : Nat, row : Row]
  BY ZeroValues DEF Current, Between
<1>1. CASE Tick
  <2>1. Batch \in SUBSET (1 .. Len(outboxEvents))
    BY DEF Batch, UnpublishedIds
  <2> QED
    BY <1>0, <1>1, <2>1 DEF Tick, Between, storeVars
<1>2. CASE EndOfBatch
  BY <1>2, ZeroValues DEF EndOfBatch, Asleep, storeVars
<1>3. CASE LoadEvent
  <2>1. PICK i \in proc.batch :
          proc' = IF purchases[outboxEvents[i]].status = "none"
                  THEN Between(proc.batch \ {i})
                  ELSE [pc |-> "content", batch |-> proc.batch \ {i},
                        event |-> i, row |-> purchases[outboxEvents[i]]]
    BY <1>3 DEF LoadEvent
  <2>2. UNCHANGED <<storeVars, accessGrants, sent>>
    BY <1>3 DEF LoadEvent
  <2>3. /\ i \in 1 .. Len(outboxEvents)
        /\ proc.batch \ {i} \in SUBSET (1 .. Len(outboxEvents))
        /\ purchases[outboxEvents[i]] \in Row
    OBVIOUS
  <2>4. /\ proc' \in [pc : IssuePoint, batch : SUBSET (1 .. Len(outboxEvents)),
                     event : Nat, row : Row]
        /\ proc'.pc # "next" => proc'.event \in 1 .. Len(outboxEvents)
    BY <1>0, <2>1, <2>3 DEF Between
  <2> QED
    BY <2>2, <2>4 DEF storeVars
<1>4. CASE CheckContent
  <2>1. CASE CanBePurchased(ContentOf[Current])
    <3>1. proc' = [proc EXCEPT !.pc = "provider"]
      BY <1>4, <2>1 DEF CheckContent
    <3> QED
      BY <1>4, <3>1 DEF CheckContent, storeVars
  <2>2. CASE ~ CanBePurchased(ContentOf[Current])
    <3>1. proc' = Between(proc.batch)
      BY <1>4, <2>2 DEF CheckContent, NextEvent
    <3> QED
      BY <1>0, <1>4, <3>1 DEF CheckContent, Between, storeVars
  <2> QED
    BY <2>1, <2>2
<1>5. CASE ProviderAnswers
  BY <1>0, <1>5 DEF ProviderAnswers, storeVars
<1>6. CASE ProviderFails
  <2>1. RegisterIssueAccessFailure(proc.row) \in Row
    BY EntityMethods
  <2> QED
    BY <1>0, <1>6, <2>1 DEF ProviderFails, UpdateRow, NextEvent, Between
<1>7. CASE CreateGrant
  <2>1. CASE Current \in accessGrants
    BY <1>0, <1>7, <2>1 DEF CreateGrant, NextEvent, Between, storeVars
  <2>2. CASE Current \notin accessGrants
    BY <1>0, <1>7, <2>2 DEF CreateGrant, storeVars
  <2> QED
    BY <2>1, <2>2
<1>8. CASE SaveIssued
  <2>1. MarkAccessIssued(proc.row) \in Row
    BY EntityMethods
  <2>2. CASE proc.row.status = "paid"
    <3>1. /\ purchases' = [purchases EXCEPT ![Current] = MarkAccessIssued(proc.row)]
          /\ proc' = [proc EXCEPT !.pc = "send"]
      BY <1>8, <2>2 DEF SaveIssued, UpdateRow
    <3> QED
      BY <1>0, <1>8, <2>1, <3>1 DEF SaveIssued
  <2>3. CASE proc.row.status # "paid"
    <3>1. purchases' = purchases /\ proc' = Between(proc.batch)
      BY <1>8, <2>3 DEF SaveIssued, NextEvent
    <3> QED
      BY <1>0, <1>8, <3>1 DEF SaveIssued, Between
  <2> QED
    BY <2>2, <2>3
<1>9. CASE SendLink
  <2>1. sent' \in [Purchases -> Nat]
    BY <1>0, <1>9 DEF SendLink
  <2> QED
    BY <1>0, <1>9, <2>1 DEF SendLink, storeVars
<1>10. CASE MarkPublished
  BY <1>0, <1>10 DEF MarkPublished, NextEvent, Between
<1>11. CASE IssueFails
  BY <1>0, <1>11 DEF IssueFails, FaultAt, NextEvent, Between
<1> QED
  BY <1>1, <1>2, <1>3, <1>4, <1>5, <1>6, <1>7, <1>8, <1>9, <1>10, <1>11
     DEF ProcessorStep

\* A payment handler leaves every event where it is in the outbox.
LEMMA HandlerKeepsOutbox ==
  ASSUME TypeOK, NEW w \in Workers,
         ConfirmStep(w) \/ ConfirmFails(w) \/ \E c \in Charges : Deliver(w, c)
  PROVE  /\ Len(outboxEvents) \in Nat
         /\ Len(outboxEvents') \in Nat
         /\ Len(outboxEvents) <= Len(outboxEvents')
         /\ \A i \in 1 .. Len(outboxEvents) : outboxEvents'[i] = outboxEvents[i]
         /\ ~ Publish(w) => outboxEvents' = outboxEvents
<1>0. outboxEvents \in Seq(Purchases)
  BY DEF TypeOK, StoreTypeOK
<1>1. CASE Publish(w)
  <2>1. outboxEvents' = Append(outboxEvents, PurchaseAt(w)) /\ PurchaseAt(w) \in Purchases
    BY <1>1, PurchaseOfAssumption
       DEF Publish, PublishPurchaseConfirmed, PurchaseAt, At, TypeOK, ConfirmTypeOK
  <2> QED
    BY <1>0, <1>1, <2>1
<1>2. CASE ~ Publish(w)
  <2>1. outboxEvents' = outboxEvents
    BY <1>2 DEF ConfirmStep, CheckProcessed, Lookup, UpdatePaid, SavePaymentEvent,
                MarkProcessed, Reply, ConfirmFails, Deliver, storeVars
  <2> QED
    BY <1>0, <1>2, <2>1
<1> QED
  BY <1>1, <1>2

\* Every step of the system keeps the types.
LEMMA NextType == TypeOK /\ [Next]_vars => TypeOK'
<1> SUFFICES ASSUME TypeOK, [Next]_vars PROVE TypeOK'
  OBVIOUS
<1> USE DEF TypeOK
<1>1. CASE \E p \in Purchases : StartPurchase(p)
  <2>1. PICK p \in Purchases : StartPurchase(p)
    BY <1>1
  <2>2. StoreTypeOK'
    BY <2>1, ZeroValues DEF StartPurchase, UpdateRow, StoreTypeOK
  <2> QED
    BY <2>1, <2>2 DEF StartPurchase, confirmVars, issueVars, ConfirmTypeOK,
                      IssueTypeOK, Busy
<1>2. CASE \E k \in Contents : EditCatalog(k)
  <2>1. StoreTypeOK'
    BY <1>2 DEF EditCatalog, StoreTypeOK, ContentStatus
  <2> QED
    BY <1>2, <2>1 DEF EditCatalog, confirmVars, issueVars, ConfirmTypeOK,
                      IssueTypeOK, Busy
<1>3. CASE \E c \in Charges : Pay(c) /\ UNCHANGED issueVars
  <2>1. charged' \subseteq Charges
    BY <1>3 DEF Pay, ConfirmTypeOK
  <2> QED
    BY <1>3, <2>1 DEF Pay, storeVars, issueVars, StoreTypeOK, ConfirmTypeOK,
                      IssueTypeOK, Busy
<1>4. CASE \E w \in Workers : HandlerStep(w)
  <2>1. PICK w \in Workers : HandlerStep(w)
    BY <1>4
  <2>2. StoreTypeOK' /\ ConfirmTypeOK'
    BY <2>1, ConfirmStepType DEF HandlerStep
  <2>3. IssueTypeOK'
    BY <2>1, HandlerKeepsOutbox DEF HandlerStep, issueVars, IssueTypeOK, Busy
  <2> QED
    BY <2>2, <2>3
<1>5. CASE (ProcessorStep \/ IssueFails) /\ UNCHANGED confirmVars
  <2>1. StoreTypeOK' /\ IssueTypeOK'
    BY <1>5, ProcessorStepType
  <2> QED
    BY <1>5, <2>1 DEF confirmVars, ConfirmTypeOK
<1>6. CASE Crash
  <2>1. StoreTypeOK'
    BY <1>6 DEF Crash, StoreTypeOK
  <2>2. ConfirmTypeOK'
    BY <1>6, ZeroValues DEF Crash, ConfirmTypeOK, ConfirmCopy, Idle
  <2>3. IssueTypeOK'
    BY <1>6, ZeroValues DEF Crash, IssueTypeOK, Asleep, IssuePoint, Busy
  <2> QED
    BY <2>1, <2>2, <2>3
<1>7. CASE UNCHANGED vars
  BY <1>7 DEF vars, storeVars, confirmVars, issueVars, StoreTypeOK, ConfirmTypeOK,
              IssueTypeOK, Busy
<1> QED
  BY <1>1, <1>2, <1>3, <1>4, <1>5, <1>6, <1>7 DEF Next

\* Type correctness: whatever overlaps, fails or crashes, every variable keeps
\* the type of the table or Go value it stands for, and every position the
\* processor holds is that of an event in the outbox.
THEOREM TypeCorrect == Spec => []TypeOK
BY InitType, NextType, PTL DEF Spec

-----------------------------------------------------------------------------
(***************************************************************************)
(* Nothing is taken back: the facts every handler may rely on while the    *)
(* others run.                                                             *)
(***************************************************************************)

Forward ==
  /\ charged \subseteq charged'
  /\ paymentEvents \subseteq paymentEvents'
  /\ accessGrants \subseteq accessGrants'
  /\ \A p \in Purchases : PaidRow(purchases[p]) => PaidRow(purchases'[p])
  /\ Len(outboxEvents) <= Len(outboxEvents')
  /\ \A i \in 1 .. Len(outboxEvents) : outboxEvents'[i] = outboxEvents[i]

\* What MarkPaid, MarkAccessIssued and RegisterIssueAccessFailure make of a
\* row that holds a payment still holds it.
LEMMA PaidRows ==
  ASSUME NEW row \in Row
  PROVE  /\ \A c \in Charges : PaidRow(MarkPaid(row, c))
         /\ PaidRow(row) => PaidRow(MarkAccessIssued(row))
         /\ PaidRow(row) => PaidRow(RegisterIssueAccessFailure(row))
         /\ ~ PaidRow(NoRow) /\ ~ PaidRow(PendingRow)
BY NoChargeAssumption
   DEF PaidRow, MarkPaid, MarkAccessIssued, RegisterIssueAccessFailure, Row,
       NoRow, PendingRow

\* Every step of the system goes forward.
LEMMA StepsGoForward == IInv /\ [Next]_vars => Forward
<1> SUFFICES ASSUME IInv, [Next]_vars PROVE Forward
  OBVIOUS
<1>0. TypeOK
  BY DEF IInv
<1>1. CASE \E p \in Purchases : StartPurchase(p)
  <2>1. PICK p \in Purchases : StartPurchase(p)
    BY <1>1
  <2>2. ~ PaidRow(purchases[p])
    BY <2>1 DEF StartPurchase, PaidRow
  <2> QED
    BY <1>0, <2>1, <2>2
       DEF StartPurchase, UpdateRow, Forward, confirmVars, issueVars, TypeOK, StoreTypeOK
<1>2. CASE \E k \in Contents : EditCatalog(k)
  BY <1>0, <1>2 DEF EditCatalog, Forward, confirmVars, issueVars, TypeOK, StoreTypeOK
<1>3. CASE \E c \in Charges : Pay(c) /\ UNCHANGED issueVars
  BY <1>0, <1>3 DEF Pay, Forward, storeVars, issueVars, TypeOK, StoreTypeOK
<1>4. CASE \E w \in Workers : HandlerStep(w)
  <2>1. PICK w \in Workers : HandlerStep(w)
    BY <1>4
  <2>2. /\ Len(outboxEvents) <= Len(outboxEvents')
        /\ \A i \in 1 .. Len(outboxEvents) : outboxEvents'[i] = outboxEvents[i]
    BY <1>0, <2>1, HandlerKeepsOutbox DEF HandlerStep
  <2>3. /\ charged' = charged
        /\ accessGrants' = accessGrants
        /\ paymentEvents \subseteq paymentEvents'
    BY <2>1 DEF HandlerStep, ConfirmStep, CheckProcessed, Lookup, UpdatePaid,
                SavePaymentEvent, Publish, MarkProcessed, Reply, ConfirmFails,
                Deliver, storeVars, issueVars
  <2>4. CASE UpdatePaid(w)
    <3>1. PaidRow(confirms[w].row)
      BY <2>4 DEF IInv, WorkerInv, UpdatePaid, At
    <3>2. purchases' = [purchases EXCEPT ![PurchaseAt(w)] = confirms[w].row]
      BY <2>4 DEF UpdatePaid, UpdateRow
    <3> QED
      BY <1>0, <2>2, <2>3, <3>1, <3>2 DEF Forward, TypeOK, StoreTypeOK
  <2>5. CASE ~ UpdatePaid(w)
    <3>1. purchases' = purchases
      BY <2>1, <2>5 DEF HandlerStep, ConfirmStep, CheckProcessed, Lookup,
                        SavePaymentEvent, Publish, MarkProcessed, Reply,
                        ConfirmFails, Deliver, storeVars
    <3> QED
      BY <2>2, <2>3, <3>1 DEF Forward
  <2> QED
    BY <2>4, <2>5
<1>5. CASE (ProcessorStep \/ IssueFails) /\ UNCHANGED confirmVars
  <2>1. /\ outboxEvents' = outboxEvents
        /\ charged' = charged
        /\ paymentEvents' = paymentEvents
        /\ accessGrants \subseteq accessGrants'
    BY <1>5 DEF ProcessorStep, Tick, EndOfBatch, LoadEvent, CheckContent,
                ProviderAnswers, ProviderFails, CreateGrant, SaveIssued,
                SendLink, MarkPublished, IssueFails, storeVars, confirmVars
  <2>2. Len(outboxEvents) \in Nat
    BY <1>0 DEF TypeOK, StoreTypeOK
  <2>3. Busy => /\ PaidRow(proc.row)
                /\ PaidRow(MarkAccessIssued(proc.row))
                /\ PaidRow(RegisterIssueAccessFailure(proc.row))
    BY <1>0, PaidRows DEF IInv, ProcessorInv, TypeOK, IssueTypeOK
  <2>4. \A p \in Purchases : PaidRow(purchases[p]) => PaidRow(purchases'[p])
    <3>1. CASE purchases' = purchases
      BY <3>1
    <3>2. CASE ProviderFails
      BY <1>0, <2>3, <3>2 DEF ProviderFails, Busy, UpdateRow, TypeOK, StoreTypeOK
    <3>3. CASE SaveIssued
      BY <1>0, <2>3, <3>3 DEF SaveIssued, Busy, UpdateRow, TypeOK, StoreTypeOK
    <3> QED
      BY <1>5, <3>1, <3>2, <3>3
         DEF ProcessorStep, Tick, EndOfBatch, LoadEvent, CheckContent,
             ProviderAnswers, CreateGrant, SendLink, MarkPublished, IssueFails,
             storeVars
  <2> QED
    BY <2>1, <2>2, <2>4 DEF Forward
<1>6. CASE Crash
  BY <1>0, <1>6 DEF Crash, Forward, TypeOK, StoreTypeOK
<1>7. CASE UNCHANGED vars
  BY <1>0, <1>7 DEF vars, storeVars, confirmVars, issueVars, Forward, TypeOK, StoreTypeOK
<1> QED
  BY <1>1, <1>2, <1>3, <1>4, <1>5, <1>6, <1>7 DEF Next

\* Forward steps keep payments on record and events in the outbox.
LEMMA ForwardKeeps ==
  ASSUME TypeOK, Forward, NEW p
  PROVE  /\ Logged(p) => Logged(p)'
         /\ Queued(p) => Queued(p)'
<1>1. Len(outboxEvents) \in Nat
  BY DEF TypeOK, StoreTypeOK
<1>2. Logged(p) => Logged(p)'
  BY DEF Forward, Logged
<1>3. Queued(p) => Queued(p)'
  <2> SUFFICES ASSUME Queued(p) PROVE Queued(p)'
    OBVIOUS
  <2>1. PICK i \in 1 .. Len(outboxEvents) : outboxEvents[i] = p
    BY DEF Queued
  <2>2. outboxEvents'[i] = p /\ Len(outboxEvents) <= Len(outboxEvents')
    BY <2>1 DEF Forward
  <2>3. i \in 1 .. Len(outboxEvents')
    BY <1>1, <2>1, <2>2
  <2> QED
    BY <2>2, <2>3 DEF Queued
<1> QED
  BY <1>2, <1>3

-----------------------------------------------------------------------------
(***************************************************************************)
(* The inductive invariant, one conjunct at a time.                        *)
(***************************************************************************)

\* Initially nobody is paid, queued, granted or served.
LEMMA InitInv == Init => IInv
<1> SUFFICES ASSUME Init PROVE IInv
  OBVIOUS
<1>1. TypeOK
  BY InitType
<1>2. \A w \in Workers : WorkerInv(w)
  BY DEF Init, ConfirmInit, WorkerInv, Idle
<1>3. RecordInv
  BY DEF Init, StoreInit, ConfirmInit, RecordInv
<1>4. ProcessorInv
  BY DEF Init, IssueInit, ProcessorInv, Asleep, Busy
<1>5. GrantInv
  BY DEF Init, StoreInit, IssueInit, GrantInv, IssuedHasGrant, OneLinkPerPurchase,
         PublishedMeansSent, NoRow
<1> QED
  BY <1>1, <1>2, <1>3, <1>4, <1>5 DEF IInv

\* What a handler knows stays true while others step.
LEMMA WorkerUnmoved ==
  ASSUME IInv, Forward, NEW w \in Workers, confirms'[w] = confirms[w]
  PROVE  WorkerInv(w)'
<1>0. TypeOK /\ WorkerInv(w)
  BY DEF IInv
<1>1. confirms[w].pc # "idle" => PurchaseAt(w) \in Purchases
  BY <1>0, PurchaseOfAssumption DEF TypeOK, ConfirmTypeOK, PurchaseAt
<1>2. PurchaseAt(w)' = PurchaseAt(w)
  BY DEF PurchaseAt
<1>3. Queued(PurchaseAt(w)) => Queued(PurchaseAt(w))'
  BY <1>0, <1>2, ForwardKeeps DEF Queued
<1> QED
  BY <1>0, <1>1, <1>2, <1>3 DEF WorkerInv, Forward, PaidRow

\* What a handler knows after a statement of its own.
LEMMA WorkerMoved ==
  ASSUME IInv, TypeOK', Forward, NEW w \in Workers, HandlerStep(w)
  PROVE  WorkerInv(w)'
<1>0. TypeOK /\ WorkerInv(w) /\ RecordInv
  BY DEF IInv
<1>1. /\ confirms \in [Workers -> ConfirmCopy]
      /\ confirms[w].pc # "idle" => /\ confirms[w].charge \in Charges
                                    /\ PurchaseAt(w) \in Purchases
  BY <1>0, PurchaseOfAssumption DEF TypeOK, ConfirmTypeOK, ConfirmCopy, PurchaseAt
<1>2. Queued(PurchaseAt(w)) /\ PurchaseAt(w)' = PurchaseAt(w) => Queued(PurchaseAt(w))'
  BY <1>0, ForwardKeeps DEF Queued
<1>3. CASE CheckProcessed(w)
  <2>1. /\ confirms'[w].charge = confirms[w].charge
        /\ confirms'[w].pc = IF confirms[w].charge \in idempotencyKeys
                             THEN "reply" ELSE "lookup"
        /\ charged' = charged
    BY <1>1, <1>3, OrderOfStatements DEF CheckProcessed, At, Goto, ConfirmCopy
  <2>2. confirms[w].charge \in idempotencyKeys => Queued(PurchaseAt(w))
    BY <1>0 DEF RecordInv, PurchaseAt
  <2> QED
    BY <1>0, <1>2, <1>3, <2>1, <2>2 DEF WorkerInv, CheckProcessed, At, PurchaseAt
<1>4. CASE Lookup(w)
  <2>1. CASE purchases[PurchaseAt(w)].status = "pending"
    <3>1. confirms'[w] = [pc |-> "update", charge |-> confirms[w].charge,
                          row |-> MarkPaid(purchases[PurchaseAt(w)], confirms[w].charge)]
      BY <1>1, <1>4, <2>1, OrderOfStatements DEF Lookup
    <3>2. PaidRow(MarkPaid(purchases[PurchaseAt(w)], confirms[w].charge))
      BY <1>0, <1>1, <1>4, PaidRows DEF Lookup, At, TypeOK, StoreTypeOK
    <3>3. MarkPaid(purchases[PurchaseAt(w)], confirms[w].charge).status = "paid"
      BY DEF MarkPaid
    <3> QED
      BY <1>0, <1>4, <3>1, <3>2, <3>3 DEF WorkerInv, Lookup, At, PaidRow
  <2>2. CASE purchases[PurchaseAt(w)].status # "pending"
    BY <1>1, <1>4, <2>2 DEF Lookup, Return, Idle, WorkerInv
  <2> QED
    BY <2>1, <2>2
<1>5. CASE UpdatePaid(w)
  <2>1. /\ confirms'[w].charge = confirms[w].charge
        /\ confirms'[w].pc = "log"
        /\ purchases'[PurchaseAt(w)] = confirms[w].row
        /\ PaidRow(confirms[w].row)
    BY <1>0, <1>1, <1>5, OrderOfStatements
       DEF UpdatePaid, At, Goto, UpdateRow, ConfirmCopy, WorkerInv, TypeOK, StoreTypeOK
  <2> QED
    BY <1>0, <1>5, <2>1 DEF WorkerInv, UpdatePaid, At, PurchaseAt, PaidRow
<1>6. CASE SavePaymentEvent(w)
  <2>1. /\ confirms'[w].charge = confirms[w].charge
        /\ confirms'[w].pc = "publish"
    BY <1>1, <1>6, OrderOfStatements DEF SavePaymentEvent, Goto, ConfirmCopy
  <2> QED
    BY <1>0, <1>6, <2>1 DEF WorkerInv, SavePaymentEvent, At, PurchaseAt, PaidRow
<1>7. CASE Publish(w)
  <2>1. /\ confirms'[w].charge = confirms[w].charge
        /\ confirms'[w].pc = "mark"
        /\ PurchaseAt(w)' = PurchaseAt(w)
    BY <1>1, <1>7, OrderOfStatements DEF Publish, Goto, ConfirmCopy, PurchaseAt
  <2>2. Queued(PurchaseAt(w))'
    <3>1. outboxEvents' = Append(outboxEvents, PurchaseAt(w))
      BY <1>7 DEF Publish, PublishPurchaseConfirmed
    <3>2. /\ Len(outboxEvents') = Len(outboxEvents) + 1
          /\ Len(outboxEvents) \in Nat
          /\ outboxEvents'[Len(outboxEvents) + 1] = PurchaseAt(w)
      BY <1>0, <1>1, <1>7, <3>1 DEF TypeOK, StoreTypeOK, Publish, At
    <3>3. Len(outboxEvents) + 1 \in 1 .. Len(outboxEvents')
      BY <3>2
    <3> QED
      BY <2>1, <3>2, <3>3 DEF Queued
  <2> QED
    BY <1>0, <1>7, <2>1, <2>2 DEF WorkerInv, Publish, At, PurchaseAt
<1>8. CASE MarkProcessed(w)
  <2>1. /\ confirms'[w].charge = confirms[w].charge
        /\ confirms'[w].pc = "reply"
        /\ PurchaseAt(w)' = PurchaseAt(w)
    BY <1>1, <1>8, OrderOfStatements DEF MarkProcessed, Goto, ConfirmCopy, PurchaseAt
  <2> QED
    BY <1>0, <1>2, <1>8, <2>1 DEF WorkerInv, MarkProcessed, At
<1>9. CASE Reply(w) \/ ConfirmFails(w)
  BY <1>1, <1>9 DEF Reply, ConfirmFails, Return, Idle, WorkerInv
<1>10. CASE \E c \in Charges : Deliver(w, c)
  BY <1>1, <1>10 DEF Deliver, WorkerInv
<1> QED
  BY <1>3, <1>4, <1>5, <1>6, <1>7, <1>8, <1>9, <1>10 DEF HandlerStep, ConfirmStep

\* The records say what they said, when a step writes none of them.
LEMMA RecordUnmoved ==
  ASSUME IInv, Forward,
         UNCHANGED <<paymentEvents, outboxEvents, idempotencyKeys, acked>>
  PROVE  RecordInv'
<1>0. TypeOK /\ RecordInv
  BY DEF IInv
<1>1. paymentEvents' \subseteq charged'
  BY <1>0 DEF RecordInv, Forward
<1>2. ASSUME NEW i \in 1 .. Len(outboxEvents)
      PROVE  Logged(outboxEvents[i])' /\ PaidRow(purchases'[outboxEvents'[i]])
  <2>1. Logged(outboxEvents[i]) /\ PaidRow(purchases[outboxEvents[i]])
    BY <1>0 DEF RecordInv
  <2>2. outboxEvents[i] \in Purchases
    BY <1>0 DEF TypeOK, StoreTypeOK
  <2> QED
    BY <2>1, <2>2 DEF Forward, Logged
<1>3. \A c \in idempotencyKeys \cup acked : Queued(PurchaseOf[c])'
  BY <1>0 DEF RecordInv, Queued
<1> QED
  BY <1>1, <1>2, <1>3 DEF RecordInv, Logged, PaidRow, Queued

\* What a statement of a payment handler records is true.
LEMMA RecordMoved ==
  ASSUME IInv, Forward, NEW w \in Workers, HandlerStep(w)
  PROVE  RecordInv'
<1>0. TypeOK /\ WorkerInv(w) /\ RecordInv
  BY DEF IInv
<1>1. confirms[w].pc # "idle" => confirms[w].charge \in Charges
  BY <1>0 DEF TypeOK, ConfirmTypeOK
<1>2. CASE SavePaymentEvent(w)
  <2>1. /\ paymentEvents' = paymentEvents \cup {confirms[w].charge}
        /\ UNCHANGED <<charged, purchases, outboxEvents, idempotencyKeys, acked>>
        /\ confirms[w].charge \in charged
    BY <1>0, <1>2 DEF SavePaymentEvent, WorkerInv, At
  <2> QED
    BY <1>0, <2>1 DEF RecordInv, Logged, PaidRow, Queued
<1>3. CASE Publish(w)
  <2>1. /\ outboxEvents' = Append(outboxEvents, PurchaseAt(w))
        /\ UNCHANGED <<charged, purchases, paymentEvents, idempotencyKeys, acked>>
    BY <1>3 DEF Publish, PublishPurchaseConfirmed
  <2>2. /\ Len(outboxEvents) \in Nat
        /\ Len(outboxEvents') = Len(outboxEvents) + 1
        /\ outboxEvents'[Len(outboxEvents) + 1] = PurchaseAt(w)
        /\ \A i \in 1 .. Len(outboxEvents) : outboxEvents'[i] = outboxEvents[i]
    <3>1. outboxEvents \in Seq(Purchases) /\ PurchaseAt(w) \in Purchases
      BY <1>0, <1>1, <1>3, PurchaseOfAssumption
         DEF TypeOK, StoreTypeOK, PurchaseAt, Publish, At
    <3> QED
      BY <2>1, <3>1
  <2>3. Logged(PurchaseAt(w)) /\ PaidRow(purchases[PurchaseAt(w)])
    BY <1>0, <1>3 DEF WorkerInv, Publish, At, Logged, PurchaseAt
  <2>4. \A i \in 1 .. Len(outboxEvents') :
          i \in 1 .. Len(outboxEvents) \/ i = Len(outboxEvents) + 1
    BY <2>2
  <2>5. \A i \in 1 .. Len(outboxEvents') :
          Logged(outboxEvents'[i]) /\ PaidRow(purchases[outboxEvents'[i]])
    BY <1>0, <2>2, <2>3, <2>4 DEF RecordInv
  <2>6. \A c \in idempotencyKeys \cup acked : Queued(PurchaseOf[c])'
    BY <1>0, ForwardKeeps DEF RecordInv, Queued
  <2> QED
    BY <1>0, <2>1, <2>5, <2>6 DEF RecordInv, Logged, PaidRow, Queued
<1>4. CASE MarkProcessed(w) \/ Reply(w)
  <2>1. /\ UNCHANGED <<charged, purchases, paymentEvents, outboxEvents>>
        /\ idempotencyKeys' \cup acked' \subseteq
             idempotencyKeys \cup acked \cup {confirms[w].charge}
    BY <1>4 DEF MarkProcessed, Reply, storeVars
  <2>2. Queued(PurchaseOf[confirms[w].charge])
    BY <1>0, <1>4 DEF WorkerInv, MarkProcessed, Reply, At, PurchaseAt
  <2> QED
    BY <1>0, <2>1, <2>2 DEF RecordInv, Logged, PaidRow, Queued
<1>5. CASE ~ SavePaymentEvent(w) /\ ~ Publish(w) /\ ~ MarkProcessed(w) /\ ~ Reply(w)
  <2>1. UNCHANGED <<paymentEvents, outboxEvents, idempotencyKeys, acked>>
    BY <1>5 DEF HandlerStep, ConfirmStep, CheckProcessed, Lookup, UpdatePaid,
                ConfirmFails, Deliver, storeVars
  <2> QED
    BY <2>1, RecordUnmoved
<1> QED
  BY <1>2, <1>3, <1>4, <1>5

\* What the processor knows stays true while handlers step.
LEMMA ProcessorUnmoved ==
  ASSUME IInv, Forward, UNCHANGED <<proc, sent>>
  PROVE  ProcessorInv'
<1>0. TypeOK /\ ProcessorInv
  BY DEF IInv
<1>1. Busy => Current' = Current
  BY <1>0 DEF TypeOK, IssueTypeOK, Current, Forward
<1>2. Busy' = Busy
  BY DEF Busy
<1>3. proc.pc \in {"save", "send", "settle"} => Busy
  BY DEF Busy
<1> QED
  BY <1>0, <1>1, <1>2, <1>3 DEF ProcessorInv, Forward, PaidRow

\* What the processor knows after a step of its own.
LEMMA ProcessorMoved ==
  ASSUME IInv, ProcessorStep \/ IssueFails
  PROVE  ProcessorInv'
<1>0. TypeOK /\ ProcessorInv /\ RecordInv /\ GrantInv
  BY DEF IInv
<1>1. Busy => Current \in Purchases
  BY <1>0 DEF TypeOK, StoreTypeOK, IssueTypeOK, Current
<1>2. CASE proc'.pc \in {"idle", "next"}
  BY <1>2 DEF ProcessorInv, Busy
<1>3. CASE LoadEvent /\ proc'.pc \notin {"idle", "next"}
  <2>1. PICK i \in proc.batch :
          proc' = IF purchases[outboxEvents[i]].status = "none"
                  THEN Between(proc.batch \ {i})
                  ELSE [pc |-> "content", batch |-> proc.batch \ {i},
                        event |-> i, row |-> purchases[outboxEvents[i]]]
    BY <1>3 DEF LoadEvent
  <2>2. /\ proc'.pc = "content"
        /\ proc'.event = i
        /\ proc'.row = purchases[outboxEvents[i]]
    BY <1>3, <2>1 DEF Between
  <2>3. i \in 1 .. Len(outboxEvents) /\ outboxEvents[i] \in Purchases
    BY <1>0 DEF TypeOK, StoreTypeOK, IssueTypeOK
  <2>4. /\ PaidRow(purchases[outboxEvents[i]])
        /\ purchases[outboxEvents[i]].status = "access_issued"
             => outboxEvents[i] \in accessGrants
    BY <1>0, <2>3 DEF RecordInv, GrantInv, IssuedHasGrant
  <2>5. outboxEvents' = outboxEvents /\ accessGrants' = accessGrants
    BY <1>3 DEF LoadEvent, storeVars
  <2> QED
    BY <2>2, <2>4, <2>5 DEF ProcessorInv, Current, PaidRow
<1>4. CASE (CheckContent \/ ProviderAnswers) /\ proc'.pc \notin {"idle", "next"}
  <2>1. /\ Busy
        /\ proc'.pc \in {"provider", "create"}
        /\ proc'.event = proc.event
        /\ proc'.row = proc.row
        /\ UNCHANGED <<outboxEvents, accessGrants>>
    BY <1>0, <1>4 DEF CheckContent, ProviderAnswers, NextEvent, Between, Busy,
                      storeVars, TypeOK, IssueTypeOK
  <2> QED
    BY <1>0, <2>1 DEF ProcessorInv, Current, PaidRow
<1>5. CASE CreateGrant /\ proc'.pc \notin {"idle", "next"}
  <2>1. Current \notin accessGrants
    BY <1>5 DEF CreateGrant, NextEvent, Between
  <2>2. /\ Busy
        /\ proc'.pc = "save"
        /\ proc'.event = proc.event
        /\ proc'.row = proc.row
        /\ accessGrants' = accessGrants \cup {Current}
        /\ UNCHANGED <<outboxEvents, sent>>
    BY <1>0, <1>5, <2>1 DEF CreateGrant, Busy, storeVars, TypeOK, IssueTypeOK
  <2>3. sent[Current] = 0
    BY <1>0, <1>1, <2>1, <2>2 DEF GrantInv, TypeOK, IssueTypeOK
  <2> QED
    BY <1>0, <2>2, <2>3 DEF ProcessorInv, Current, PaidRow
<1>6. CASE SaveIssued /\ proc'.pc \notin {"idle", "next"}
  <2>1. /\ Busy
        /\ proc.pc = "save"
        /\ proc'.pc = "send"
        /\ proc'.event = proc.event
        /\ proc'.row = proc.row
        /\ UNCHANGED <<outboxEvents, accessGrants, sent>>
    BY <1>0, <1>6 DEF SaveIssued, NextEvent, Between, Busy, TypeOK, IssueTypeOK
  <2> QED
    BY <1>0, <2>1 DEF ProcessorInv, Current, PaidRow
<1>7. CASE SendLink
  <2>1. /\ Busy
        /\ proc.pc = "send"
        /\ proc'.pc = "settle"
        /\ proc'.event = proc.event
        /\ proc'.row = proc.row
        /\ UNCHANGED <<outboxEvents, accessGrants>>
    BY <1>0, <1>7 DEF SendLink, Busy, storeVars, TypeOK, IssueTypeOK
  <2>2. BotEnabled => sent'[Current] = 1
    BY <1>0, <1>1, <1>7, <2>1 DEF SendLink, ProcessorInv, TypeOK, IssueTypeOK
  <2> QED
    BY <1>0, <2>1, <2>2 DEF ProcessorInv, Current, PaidRow
<1> QED
  BY <1>2, <1>3, <1>4, <1>5, <1>6, <1>7
     DEF ProcessorStep, Tick, EndOfBatch, ProviderFails, MarkPublished, IssueFails,
         NextEvent, Between, Asleep

\* Grants, links and published events stay justified while handlers step.
LEMMA GrantUnmoved ==
  ASSUME IInv, Forward, UNCHANGED <<accessGrants, sent, published>>,
         \A p \in Purchases : purchases'[p].status = "access_issued"
                                => purchases[p].status = "access_issued"
  PROVE  GrantInv'
<1>0. TypeOK /\ GrantInv
  BY DEF IInv
<1>1. \A p \in accessGrants : Logged(p)'
  BY <1>0, ForwardKeeps DEF GrantInv, Forward, Logged
<1>2. \A i \in published : outboxEvents'[i] = outboxEvents[i]
  BY <1>0 DEF TypeOK, StoreTypeOK, Forward
<1> QED
  BY <1>0, <1>1, <1>2
     DEF GrantInv, IssuedHasGrant, OneLinkPerPurchase, PublishedMeansSent, Logged

\* A step of the processor grants, sends and retires events justifiably.
LEMMA GrantMoved ==
  ASSUME IInv, ProcessorStep \/ IssueFails
  PROVE  GrantInv'
<1>0. TypeOK /\ ProcessorInv /\ RecordInv /\ GrantInv
  BY DEF IInv
<1>1. Busy => Current \in Purchases
  BY <1>0 DEF TypeOK, StoreTypeOK, IssueTypeOK, Current
<1>2. UNCHANGED <<outboxEvents, paymentEvents>>
  BY DEF ProcessorStep, Tick, EndOfBatch, LoadEvent, CheckContent,
         ProviderAnswers, ProviderFails, CreateGrant, SaveIssued,
         SendLink, MarkPublished, IssueFails, storeVars
<1> USE DEF GrantInv, IssuedHasGrant, OneLinkPerPurchase, PublishedMeansSent
<1>3. CASE ProviderFails
  <2>1. /\ purchases' = [purchases EXCEPT ![Current] =
                           RegisterIssueAccessFailure(proc.row)]
        /\ Current \in Purchases
        /\ UNCHANGED <<accessGrants, sent, published>>
    BY <1>1, <1>3 DEF ProviderFails, UpdateRow, Busy
  <2>2. RegisterIssueAccessFailure(proc.row).status = "access_issued"
          => Current \in accessGrants
    BY <1>0, <1>3 DEF ProviderFails, Busy, ProcessorInv, RegisterIssueAccessFailure
  <2> QED
    BY <1>0, <1>2, <2>1, <2>2 DEF TypeOK, StoreTypeOK, Logged
<1>4. CASE CreateGrant
  <2>1. /\ accessGrants' \subseteq accessGrants \cup {Current}
        /\ accessGrants \subseteq accessGrants'
        /\ UNCHANGED <<purchases, sent, published>>
    BY <1>4 DEF CreateGrant, storeVars
  <2>2. Logged(Current)
    BY <1>0, <1>4 DEF CreateGrant, Busy, Current, RecordInv, TypeOK, IssueTypeOK
  <2> QED
    BY <1>0, <1>2, <2>1, <2>2 DEF Logged
<1>5. CASE SaveIssued
  <2>1. Current \in accessGrants /\ Current \in Purchases
    BY <1>0, <1>1, <1>5 DEF SaveIssued, Busy, ProcessorInv
  <2>2. /\ UNCHANGED <<accessGrants, sent, published>>
        /\ \/ UNCHANGED purchases
           \/ purchases' = [purchases EXCEPT ![Current] = MarkAccessIssued(proc.row)]
    BY <1>5 DEF SaveIssued, UpdateRow
  <2> QED
    BY <1>0, <1>2, <2>1, <2>2 DEF TypeOK, StoreTypeOK, Logged
<1>6. CASE SendLink
  <2>1. Current \in accessGrants /\ sent[Current] = 0 /\ Current \in Purchases
    BY <1>0, <1>1, <1>6 DEF SendLink, Busy, ProcessorInv
  <2>2. UNCHANGED <<purchases, accessGrants, published>>
    BY <1>6 DEF SendLink, storeVars
  <2>3. CASE BotEnabled
    <3>1. sent' = [sent EXCEPT ![Current] = sent[Current] + 1]
      BY <1>6, <2>3 DEF SendLink
    <3>2. \A p \in Purchases : sent'[p] = IF p = Current THEN 1 ELSE sent[p]
      BY <1>0, <2>1, <3>1 DEF TypeOK, IssueTypeOK
    <3>3. \A i \in published : outboxEvents[i] \in Purchases
      BY <1>0 DEF TypeOK, StoreTypeOK
    <3> QED
      BY <1>0, <1>2, <2>1, <2>2, <3>2, <3>3 DEF Logged
  <2>4. CASE ~ BotEnabled
    BY <1>0, <1>2, <1>6, <2>2, <2>4 DEF SendLink, Logged
  <2> QED
    BY <2>3, <2>4
<1>7. CASE MarkPublished
  <2>1. /\ published' = published \cup {proc.event}
        /\ UNCHANGED <<purchases, accessGrants, sent>>
        /\ BotEnabled => sent[outboxEvents[proc.event]] = 1
    BY <1>0, <1>7 DEF MarkPublished, ProcessorInv, Current
  <2> QED
    BY <1>0, <1>2, <2>1 DEF Logged
<1>8. CASE UNCHANGED <<purchases, accessGrants, sent, published>>
  BY <1>0, <1>2, <1>8 DEF Logged
<1> QED
  BY <1>3, <1>4, <1>5, <1>6, <1>7, <1>8
     DEF ProcessorStep, Tick, EndOfBatch, LoadEvent, CheckContent,
         ProviderAnswers, IssueFails, storeVars

\* Every step of the system keeps the invariant.
LEMMA NextInv == IInv /\ [Next]_vars => IInv'
<1> SUFFICES ASSUME IInv, [Next]_vars PROVE IInv'
  OBVIOUS
<1>0. TypeOK /\ TypeOK' /\ Forward
  BY NextType, StepsGoForward DEF IInv
<1>1. CASE \E p \in Purchases : StartPurchase(p)
  <2>1. PICK p \in Purchases : StartPurchase(p)
    BY <1>1
  <2>2. \A q \in Purchases : purchases'[q].status = "access_issued"
                               => purchases[q].status = "access_issued"
    BY <1>0, <2>1 DEF StartPurchase, UpdateRow, PendingRow, NoRow, TypeOK, StoreTypeOK
  <2> QED
    BY <1>0, <2>1, <2>2, WorkerUnmoved, RecordUnmoved, ProcessorUnmoved, GrantUnmoved
       DEF StartPurchase, confirmVars, issueVars, IInv
<1>2. CASE \E k \in Contents : EditCatalog(k)
  BY <1>0, <1>2, WorkerUnmoved, RecordUnmoved, ProcessorUnmoved, GrantUnmoved
     DEF EditCatalog, confirmVars, issueVars, IInv
<1>3. CASE \E c \in Charges : Pay(c) /\ UNCHANGED issueVars
  BY <1>0, <1>3, WorkerUnmoved, RecordUnmoved, ProcessorUnmoved, GrantUnmoved
     DEF Pay, storeVars, issueVars, IInv
<1>4. CASE \E w \in Workers : HandlerStep(w)
  <2>1. PICK w \in Workers : HandlerStep(w)
    BY <1>4
  <2>2. \A v \in Workers : v # w => confirms'[v] = confirms[v]
    BY <1>0, <2>1
       DEF HandlerStep, ConfirmStep, CheckProcessed, Lookup, UpdatePaid,
           SavePaymentEvent, Publish, MarkProcessed, Reply, ConfirmFails,
           Deliver, Goto, Return, TypeOK, ConfirmTypeOK
  <2>3. \A v \in Workers : WorkerInv(v)'
    BY <1>0, <2>1, <2>2, WorkerUnmoved, WorkerMoved
  <2>4. RecordInv'
    BY <1>0, <2>1, RecordMoved
  <2>5. UNCHANGED <<proc, sent, accessGrants, published>>
    BY <2>1 DEF HandlerStep, ConfirmStep, CheckProcessed, Lookup, UpdatePaid,
                SavePaymentEvent, Publish, MarkProcessed, Reply, ConfirmFails,
                Deliver, storeVars, issueVars
  <2>6. \A p \in Purchases : purchases'[p].status = "access_issued"
                               => purchases[p].status = "access_issued"
    <3>1. CASE UpdatePaid(w)
      <4>1. confirms[w].row.status # "access_issued"
        BY <3>1 DEF IInv, WorkerInv, UpdatePaid, At
      <4> QED
        BY <1>0, <3>1, <4>1 DEF UpdatePaid, UpdateRow, TypeOK, StoreTypeOK
    <3>2. CASE ~ UpdatePaid(w)
      BY <2>1, <3>2 DEF HandlerStep, ConfirmStep, CheckProcessed, Lookup,
                        SavePaymentEvent, Publish, MarkProcessed, Reply,
                        ConfirmFails, Deliver, storeVars
    <3> QED
      BY <3>1, <3>2
  <2> QED
    BY <1>0, <2>3, <2>4, <2>5, <2>6, ProcessorUnmoved, GrantUnmoved DEF IInv
<1>5. CASE (ProcessorStep \/ IssueFails) /\ UNCHANGED confirmVars
  <2>1. UNCHANGED <<paymentEvents, outboxEvents, idempotencyKeys, acked, confirms>>
    BY <1>5 DEF ProcessorStep, Tick, EndOfBatch, LoadEvent, CheckContent,
                ProviderAnswers, ProviderFails, CreateGrant, SaveIssued,
                SendLink, MarkPublished, IssueFails, storeVars, confirmVars
  <2> QED
    BY <1>0, <1>5, <2>1, WorkerUnmoved, RecordUnmoved, ProcessorMoved, GrantMoved DEF IInv
<1>6. CASE Crash
  <2>1. \A w \in Workers : WorkerInv(w)'
    BY <1>6 DEF Crash, WorkerInv, Idle
  <2>2. ProcessorInv'
    BY <1>6 DEF Crash, ProcessorInv, Busy, Asleep
  <2> QED
    BY <1>0, <1>6, <2>1, <2>2, RecordUnmoved, GrantUnmoved DEF Crash, IInv
<1>7. CASE UNCHANGED vars
  BY <1>0, <1>7, WorkerUnmoved, RecordUnmoved, ProcessorUnmoved, GrantUnmoved
     DEF vars, storeVars, confirmVars, issueVars, IInv
<1> QED
  BY <1>1, <1>2, <1>3, <1>4, <1>5, <1>6, <1>7 DEF Next

\* The invariant holds always: what each statement may rely on when it runs.
THEOREM Invariant == Spec => []IInv
BY InitInv, NextInv, PTL DEF Spec

-----------------------------------------------------------------------------
(***************************************************************************)
(* The properties.                                                         *)
(***************************************************************************)

\* Whatever the interleaving, failures and crashes, nobody gets a grant without
\* a charge on record, although issue_access does not look at the status.
THEOREM AccessIsPaid == Spec => []NoAccessWithoutPayment
<1>1. IInv => NoAccessWithoutPayment
  BY DEF IInv, GrantInv, RecordInv, Logged, NoAccessWithoutPayment
<1> QED
  BY <1>1, Invariant, PTL

\* A payment answered OK is answered with a link or waits in the outbox: no
\* failure or crash between the statements can lose it.
THEOREM AckedIsSafe == Spec => []AckedIsDeliveredOrQueued
<1>1. IInv => AckedIsDeliveredOrQueued
  <2> SUFFICES ASSUME IInv, BotEnabled, NEW c \in acked
               PROVE  sent[PurchaseOf[c]] > 0 \/ Waiting(PurchaseOf[c])
    BY DEF AckedIsDeliveredOrQueued
  <2>1. PICK i \in 1 .. Len(outboxEvents) : outboxEvents[i] = PurchaseOf[c]
    BY DEF IInv, RecordInv, Queued
  <2>2. i \in published => sent[PurchaseOf[c]] = 1
    BY <2>1 DEF IInv, GrantInv, PublishedMeansSent
  <2> QED
    BY <2>1, <2>2 DEF Waiting, UnpublishedIds
<1> QED
  BY <1>1, Invariant, PTL

\* A purchase in access_issued has a grant, although every writer of the row
\* may be stale.
THEOREM IssuedIsGranted == Spec => []IssuedHasGrant
<1>1. IInv => IssuedHasGrant
  BY DEF IInv, GrantInv
<1> QED
  BY <1>1, Invariant, PTL

\* No purchase is sent two links by issue_access, although its events are
\* duplicated and retried.
THEOREM OneLink == Spec => []OneLinkPerPurchase
<1>1. IInv => OneLinkPerPurchase
  BY DEF IInv, GrantInv
<1> QED
  BY <1>1, Invariant, PTL

\* The processor retires an event only when the link of its purchase was sent,
\* whatever fails between the grant, the row, the message and the outbox.
THEOREM PublishedIsSent == Spec => []PublishedMeansSent
<1>1. IInv => PublishedMeansSent
  BY DEF IInv, GrantInv
<1> QED
  BY <1>1, Invariant, PTL

-----------------------------------------------------------------------------
(***************************************************************************)
(* The attempts of issuance and the status error.                          *)
(***************************************************************************)
\* What RetryInv says of one row.
Settled(row) == row.status = "error" <=> Exhausted(row)

LEMMA SettledRows ==
  ASSUME NEW row \in Row, Settled(row)
  PROVE  /\ row.status = "pending" => \A c \in Charges : Settled(MarkPaid(row, c))
         /\ row.status = "paid" => Settled(MarkAccessIssued(row))
         /\ Settled(RegisterIssueAccessFailure(row))
BY BoundAssumption
   DEF Settled, Exhausted, Row, MarkPaid, MarkAccessIssued, RegisterIssueAccessFailure

LEMMA SettledZero == Settled(NoRow) /\ Settled(PendingRow)
BY BoundAssumption DEF Settled, Exhausted, NoRow, PendingRow

LEMMA RetryParts ==
  RetryInv <=> /\ \A p \in Purchases : Settled(purchases[p])
               /\ \A w \in Workers : Settled(confirms[w].row)
               /\ Settled(proc.row)
BY DEF RetryInv, Settled

LEMMA InitRetry == Init => RetryInv
<1> SUFFICES ASSUME Init PROVE RetryInv
  OBVIOUS
<1>1. /\ \A p \in Purchases : purchases[p] = NoRow
      /\ \A w \in Workers : confirms[w].row = NoRow
      /\ proc.row = NoRow
  BY DEF Init, StoreInit, ConfirmInit, IssueInit, Idle, Asleep
<1> QED
  BY <1>1, SettledZero, RetryParts

\* Every step keeps it: each copy was a row once, and each row is a copy.
LEMMA NextRetry == TypeOK /\ RetryInv /\ [Next]_vars => RetryInv'
<1> SUFFICES ASSUME TypeOK, RetryInv, [Next]_vars PROVE RetryInv'
  OBVIOUS
<1>0. /\ purchases \in [Purchases -> Row]
      /\ confirms \in [Workers -> [pc : ConfirmPoint, charge : Charges \cup {NoCharge}, row : Row]]
      /\ \A w \in Workers : confirms[w].pc # "idle" => confirms[w].charge \in Charges
      /\ proc.row \in Row
      /\ \A p \in Purchases : Settled(purchases[p])
      /\ \A w \in Workers : Settled(confirms[w].row)
      /\ Settled(proc.row)
  BY RetryParts DEF TypeOK, StoreTypeOK, ConfirmTypeOK, IssueTypeOK
<1>1. \A p \in Purchases : Settled(purchases'[p])
  <2>1. CASE UNCHANGED purchases
    BY <1>0, <2>1
  <2>2. ASSUME NEW p \in Purchases, StartPurchase(p)
        PROVE  \A q \in Purchases : Settled(purchases'[q])
    BY <1>0, <2>2, SettledZero DEF StartPurchase, UpdateRow
  <2>3. ASSUME NEW w \in Workers, UpdatePaid(w)
        PROVE  \A q \in Purchases : Settled(purchases'[q])
    BY <1>0, <2>3 DEF UpdatePaid, UpdateRow
  <2>4. CASE ProviderFails
    BY <1>0, <2>4, SettledRows DEF ProviderFails, UpdateRow
  <2>5. CASE SaveIssued
    BY <1>0, <2>5, SettledRows DEF SaveIssued, UpdateRow
  <2> QED
    BY <2>1, <2>2, <2>3, <2>4, <2>5
       DEF Next, EditCatalog, Pay, HandlerStep, ConfirmStep, ConfirmFails, Deliver,
           CheckProcessed, Lookup, SavePaymentEvent, Publish, MarkProcessed, Reply,
           ProcessorStep, IssueFails, Tick, EndOfBatch, LoadEvent, CheckContent,
           ProviderAnswers, CreateGrant, SendLink, MarkPublished, Crash,
           storeVars, vars
<1>2. ASSUME NEW v \in Workers PROVE Settled(confirms'[v].row)
  <2>1. CASE UNCHANGED confirms \/ Crash
    BY <1>0, <2>1, SettledZero DEF Crash, Idle
  <2>2. ASSUME NEW w \in Workers, HandlerStep(w), w # v
        PROVE  confirms'[v] = confirms[v]
    BY <1>0, <2>2 DEF HandlerStep, ConfirmStep, ConfirmFails, Deliver, CheckProcessed,
           Lookup, UpdatePaid, SavePaymentEvent, Publish, MarkProcessed, Reply,
           Goto, Return
  <2>3. CASE HandlerStep(v)
    <3>1. CASE Lookup(v)
      <4>1. /\ purchases[PurchaseAt(v)] \in Row
            /\ Settled(purchases[PurchaseAt(v)])
            /\ confirms[v].charge \in Charges
        BY <1>0, <3>1, PurchaseOfAssumption DEF Lookup, At, PurchaseAt
      <4> QED
        BY <1>0, <3>1, <4>1, SettledRows, SettledZero DEF Lookup, Return, Idle
    <3>2. CASE ~ Lookup(v)
      BY <1>0, <2>3, <3>2, SettledZero
         DEF HandlerStep, ConfirmStep, ConfirmFails, Deliver, CheckProcessed, UpdatePaid,
             SavePaymentEvent, Publish, MarkProcessed, Reply, Goto, Return, Idle
    <3> QED
      BY <3>1, <3>2
  <2> QED
    BY <1>0, <2>1, <2>2, <2>3
       DEF Next, StartPurchase, EditCatalog, Pay, confirmVars, vars
<1>3. Settled(proc'.row)
  <2>1. CASE UNCHANGED proc \/ Crash
    BY <1>0, <2>1, SettledZero DEF Crash, Asleep
  <2>2. CASE LoadEvent
    BY <1>0, <2>2, SettledZero DEF LoadEvent, Between, TypeOK, StoreTypeOK, IssueTypeOK
  <2>3. CASE (ProcessorStep /\ ~ LoadEvent) \/ IssueFails
    <3>1. proc'.row \in {proc.row, NoRow}
      BY <1>0, <2>3
         DEF ProcessorStep, IssueFails, Tick, EndOfBatch, CheckContent, ProviderAnswers,
             ProviderFails, CreateGrant, SaveIssued, SendLink, MarkPublished,
             NextEvent, Between, Asleep, TypeOK, IssueTypeOK
    <3> QED
      BY <1>0, <3>1, SettledZero
  <2> QED
    BY <2>1, <2>2, <2>3
       DEF Next, StartPurchase, EditCatalog, Pay, HandlerStep, issueVars, vars
<1>4. /\ (RetryInv <=> /\ \A p \in Purchases : Settled(purchases[p])
                       /\ \A w \in Workers : Settled(confirms[w].row)
                       /\ Settled(proc.row))'
  BY DEF RetryInv, Settled
<1>5. (\A p \in Purchases : Settled(purchases[p]))'
  BY <1>1 DEF Settled, Exhausted
<1>6. (\A w \in Workers : Settled(confirms[w].row))' /\ Settled(proc.row)'
  BY <1>2, <1>3 DEF Settled, Exhausted
<1> QED
  BY <1>4, <1>5, <1>6

\* A purchase is in error exactly when its attempts are used up, however many
\* stale copies of its row are written back.
THEOREM ErrorIsFinalCount == Spec => []ErrorMeansExhausted
<1>1. RetryInv => ErrorMeansExhausted
  BY DEF RetryInv, ErrorMeansExhausted
<1> QED
  BY <1>1, InitRetry, NextRetry, TypeCorrect, PTL DEF Spec

-----------------------------------------------------------------------------

\* No stale copy of a row ever erases a payment.
THEOREM PaymentsStick == Spec => PaymentIsSticky
<1>1. IInv /\ [Next]_vars
        => [\A p \in Purchases : PaidRow(purchases[p]) => PaidRow(purchases'[p])]_vars
  BY StepsGoForward DEF Forward
<1> QED
  BY <1>1, Invariant, PTL DEF Spec, PaymentIsSticky

-----------------------------------------------------------------------------
(***************************************************************************)
(* What stale writes make of a status.                                     *)
(***************************************************************************)
\* How a step changes the table purchases: one row, in one of four ways.
LEMMA RowWrites ==
  ASSUME [Next]_vars
  PROVE  \/ UNCHANGED purchases
         \/ \E p \in Purchases : /\ StartPurchase(p)
                                 /\ purchases' = [purchases EXCEPT ![p] = PendingRow]
         \/ \E w \in Workers :
              /\ UpdatePaid(w)
              /\ purchases' = [purchases EXCEPT ![PurchaseAt(w)] = confirms[w].row]
         \/ /\ ProviderFails
            /\ purchases' = [purchases EXCEPT ![Current] = RegisterIssueAccessFailure(proc.row)]
         \/ /\ SaveIssued
            /\ proc.row.status = "paid"
            /\ purchases' = [purchases EXCEPT ![Current] = MarkAccessIssued(proc.row)]
BY DEF Next, StartPurchase, EditCatalog, Pay, HandlerStep, ConfirmStep, ConfirmFails,
       Deliver, CheckProcessed, Lookup, UpdatePaid, SavePaymentEvent, Publish,
       MarkProcessed, Reply, ProcessorStep, IssueFails, Tick, EndOfBatch, LoadEvent,
       CheckContent, ProviderAnswers, ProviderFails, CreateGrant, SaveIssued, SendLink,
       MarkPublished, Crash, UpdateRow, storeVars, vars

\* What the invariants say of the copies that are about to be written.
LEMMA CopyFacts ==
  ASSUME IInv, CopyInv
  PROVE  /\ purchases \in [Purchases -> Row]
         /\ \A p \in Purchases : purchases[p].status \in Status \ {"expired"}
         /\ \A w \in Workers :
              At(w, "update") =>
                /\ PurchaseAt(w) \in Purchases
                /\ purchases[PurchaseAt(w)].status # "none"
                /\ confirms[w].row.status = "paid"
         /\ proc.row \in Row
         /\ proc.pc \in BeforeSave =>
              /\ Busy
              /\ Current \in Purchases
              /\ proc.row.status \in {"paid", "access_issued", "error"}
              /\ purchases[Current] = proc.row \/ purchases[Current].status = "paid"
<1>1. TypeOK /\ RecordInv /\ ProcessorInv /\ \A w \in Workers : WorkerInv(w)
  BY DEF IInv
<1>2. /\ purchases \in [Purchases -> Row]
      /\ \A p \in Purchases : purchases[p].status \in Status \ {"expired"}
      /\ proc.row \in Row
  BY <1>1 DEF TypeOK, StoreTypeOK, IssueTypeOK, CopyInv, Row
<1>3. ASSUME NEW w \in Workers, At(w, "update")
      PROVE  /\ PurchaseAt(w) \in Purchases
             /\ purchases[PurchaseAt(w)].status # "none"
             /\ confirms[w].row.status = "paid"
  BY <1>1, <1>3, PurchaseOfAssumption
     DEF At, PurchaseAt, CopyInv, WorkerInv, TypeOK, ConfirmTypeOK
<1>4. ASSUME proc.pc \in BeforeSave
      PROVE  /\ Busy
             /\ Current \in Purchases
             /\ proc.row.status \in {"paid", "access_issued", "error"}
             /\ purchases[Current] = proc.row \/ purchases[Current].status = "paid"
  <2>1. Busy
    BY <1>4 DEF BeforeSave, Busy
  <2>2. Current \in Purchases
    BY <1>1, <2>1 DEF TypeOK, StoreTypeOK, IssueTypeOK, Current
  <2> QED
    BY <1>1, <1>2, <1>4, <2>1, <2>2 DEF ProcessorInv, PaidRow, CopyInv
<1> QED
  BY <1>2, <1>3, <1>4

Reopening ==
  Lifecycle \cup {<<"access_issued", "error">>, <<"access_issued", "paid">>, <<"error", "paid">>}

\* Every write moves a status along one of these arrows.
LEMMA RowsReopen ==
  ASSUME IInv, CopyInv, [Next]_vars
  PROVE  StatusesMoveBy(Reopening) /\ \A p \in Purchases : purchases'[p].status # "expired"
<1> DEFINE Moves(p) == /\ purchases'[p].status # "expired"
                       /\ purchases[p].status # purchases'[p].status =>
                            <<purchases[p].status, purchases'[p].status>> \in Reopening
<1>1. \A p \in Purchases : purchases'[p] = purchases[p] => Moves(p)
  BY CopyFacts
<1>2. ASSUME NEW q \in Purchases, StartPurchase(q),
             purchases' = [purchases EXCEPT ![q] = PendingRow]
      PROVE  \A p \in Purchases : Moves(p)
  <2>1. PendingRow.status = "pending" /\ purchases[q].status = "none"
    BY <1>2 DEF StartPurchase, PendingRow, NoRow
  <2> QED
    BY <1>1, <1>2, <2>1, CopyFacts DEF Reopening, Lifecycle
<1>3. ASSUME NEW w \in Workers, UpdatePaid(w),
             purchases' = [purchases EXCEPT ![PurchaseAt(w)] = confirms[w].row]
      PROVE  \A p \in Purchases : Moves(p)
  <2>1. /\ PurchaseAt(w) \in Purchases
        /\ purchases[PurchaseAt(w)].status \in Status \ {"expired", "none"}
        /\ confirms[w].row.status = "paid"
    BY <1>3, CopyFacts DEF UpdatePaid
  <2> QED
    BY <1>1, <1>3, <2>1, CopyFacts DEF Reopening, Lifecycle, Status
<1>4. ASSUME ProviderFails,
             purchases' = [purchases EXCEPT ![Current] = RegisterIssueAccessFailure(proc.row)]
      PROVE  \A p \in Purchases : Moves(p)
  <2>1. proc.pc \in BeforeSave
    BY <1>4 DEF ProviderFails, BeforeSave
  <2>2. RegisterIssueAccessFailure(proc.row).status \in {proc.row.status, "error"}
    BY DEF RegisterIssueAccessFailure
  <2>3. Moves(Current)
    BY <1>4, <2>1, <2>2, CopyFacts DEF Reopening, Lifecycle
  <2> QED
    BY <1>1, <1>4, <2>1, <2>3, CopyFacts
<1>5. ASSUME SaveIssued, proc.row.status = "paid",
             purchases' = [purchases EXCEPT ![Current] = MarkAccessIssued(proc.row)]
      PROVE  \A p \in Purchases : Moves(p)
  <2>1. proc.pc \in BeforeSave
    BY <1>5 DEF SaveIssued, BeforeSave
  <2>2. MarkAccessIssued(proc.row).status = "access_issued"
    BY CopyFacts DEF MarkAccessIssued, Row
  <2>3. Moves(Current)
    BY <1>5, <2>1, <2>2, CopyFacts DEF Reopening, Lifecycle
  <2> QED
    BY <1>1, <1>5, <2>1, <2>3, CopyFacts
<1>6. \A p \in Purchases : Moves(p)
  BY <1>1, <1>2, <1>3, <1>4, <1>5, RowWrites
<1> QED
  BY <1>6 DEF StatusesMoveBy

LEMMA InitCopy == Init => CopyInv
BY DEF Init, StoreInit, ConfirmInit, IssueInit, Asleep, NoRow, CopyInv, BeforeSave

\* A row that the processor has read changes under it only to paid.
LEMMA NextCopy == IInv /\ CopyInv /\ [Next]_vars => CopyInv'
<1> SUFFICES ASSUME IInv, CopyInv, [Next]_vars PROVE CopyInv'
  OBVIOUS
<1>1. \A c \in charged' : purchases'[PurchaseOf[c]].status # "none"
  <2>1. \A c \in charged' : c \in charged \/ purchases[PurchaseOf[c]].status # "none"
    BY DEF Next, StartPurchase, EditCatalog, Pay, HandlerStep, ConfirmStep, ConfirmFails,
           Deliver, CheckProcessed, Lookup, UpdatePaid, SavePaymentEvent, Publish,
           MarkProcessed, Reply, Crash, confirmVars, vars
  <2>2. \A c \in charged' : PurchaseOf[c] \in Purchases
    BY NextType, PurchaseOfAssumption DEF IInv, TypeOK, ConfirmTypeOK
  <2>3. \A p \in Purchases : purchases[p].status # "none" => purchases'[p].status # "none"
    BY RowsReopen DEF StatusesMoveBy, Reopening, Lifecycle
  <2> QED
    BY <2>1, <2>2, <2>3 DEF CopyInv
<1>2. ASSUME proc'.pc \in BeforeSave
      PROVE  purchases'[Current'] = proc'.row \/ purchases'[Current'].status = "paid"
  <2>1. CASE LoadEvent
    BY <1>2, <2>1 DEF LoadEvent, Between, BeforeSave, Current, storeVars
  <2>2. CASE ~ LoadEvent
    <3>1. /\ proc.pc \in BeforeSave /\ proc'.row = proc.row /\ proc'.event = proc.event
          /\ ~ ProviderFails /\ ~ SaveIssued
      BY <1>2, <2>2
         DEF Next, StartPurchase, EditCatalog, Pay, HandlerStep, ProcessorStep, IssueFails,
             Tick, EndOfBatch, CheckContent, ProviderAnswers, ProviderFails, CreateGrant,
             SaveIssued, SendLink, MarkPublished, NextEvent, Between, Asleep, Crash,
             BeforeSave, issueVars, vars, IInv, TypeOK, IssueTypeOK
    <3>2. Busy /\ Current \in Purchases
      BY <3>1, CopyFacts
    <3>3. Current' = Current
      BY <3>1, <3>2, StepsGoForward DEF Forward, Current, IInv, TypeOK, IssueTypeOK
    <3>4. \A p \in Purchases : StartPurchase(p) => p # Current
      BY <3>1, CopyFacts DEF StartPurchase
    <3>5. purchases'[Current] = purchases[Current] \/ purchases'[Current].status = "paid"
      BY <3>1, <3>2, <3>4, RowWrites, CopyFacts DEF UpdatePaid
    <3> QED
      BY <3>1, <3>3, <3>5, CopyFacts
  <2> QED
    BY <2>1, <2>2
<1>3. proc'.row.status # "expired"
  <2>1. NoRow.status # "expired"
    BY DEF NoRow
  <2>2. CASE LoadEvent
    BY <2>1, <2>2, CopyFacts
       DEF LoadEvent, Between, IInv, TypeOK, StoreTypeOK, IssueTypeOK
  <2>3. CASE ~ LoadEvent
    BY <2>1, <2>3
       DEF Next, StartPurchase, EditCatalog, Pay, HandlerStep, ProcessorStep, IssueFails,
           Tick, EndOfBatch, CheckContent, ProviderAnswers, ProviderFails, CreateGrant,
           SaveIssued, SendLink, MarkPublished, NextEvent, Between, Asleep, Crash,
           issueVars, vars, IInv, TypeOK, IssueTypeOK, CopyInv
  <2> QED
    BY <2>2, <2>3
<1> QED
  BY <1>1, <1>2, <1>3, RowsReopen DEF CopyInv

\* However many handlers and copies there are, a stale write does no worse to a
\* purchase than to put it back to paid; what is in error is not issued.
THEOREM StaleWritesOnlyReopen == Spec => StaleWritesReopen
<1>1. IInv /\ CopyInv /\ [Next]_vars => [StatusesMoveBy(Reopening)]_vars
  BY RowsReopen
<1> QED
  BY <1>1, InitCopy, NextCopy, Invariant, PTL DEF Spec, StaleWritesReopen, Reopening

-----------------------------------------------------------------------------
(***************************************************************************)
(* Refinement: the handlers implement AccessPromise.                       *)
(***************************************************************************)

Recorded == {p \in Purchases : Logged(p)}

\* A step that neither logs, grants nor sends is a stutter of the promise.
LEMMA PromiseStutters ==
  ASSUME UNCHANGED <<paymentEvents, accessGrants, sent>>
  PROVE  UNCHANGED Promise!vars
BY DEF Promise!vars, Logged

\* A statement of a payment handler at most records a payment.
LEMMA HandlerKeepsPromise ==
  ASSUME IInv, NEW w \in Workers, HandlerStep(w)
  PROVE  [Promise!Next]_(Promise!vars)
<1>1. CASE SavePaymentEvent(w)
  <2> DEFINE p == PurchaseAt(w)
  <2>1. /\ paymentEvents' = paymentEvents \cup {confirms[w].charge}
        /\ p \in Purchases
        /\ UNCHANGED <<accessGrants, sent>>
    BY <1>1, PurchaseOfAssumption
       DEF HandlerStep, issueVars, IInv, TypeOK, ConfirmTypeOK, PurchaseAt,
           SavePaymentEvent, At
  <2>2. Recorded' = Recorded \cup {p}
    BY <2>1 DEF Recorded, Logged, PurchaseAt
  <2>3. CASE p \in Recorded
    BY <2>1, <2>2, <2>3 DEF Promise!vars, Recorded
  <2>4. CASE p \notin Recorded
    <3>1. Promise!Pay(p)
      BY <2>1, <2>2, <2>4 DEF Promise!Pay, Recorded
    <3> QED
      BY <2>1, <3>1 DEF Promise!Next
  <2> QED
    BY <2>3, <2>4
<1>2. CASE ~ SavePaymentEvent(w)
  <2>1. UNCHANGED <<paymentEvents, accessGrants, sent>>
    BY <1>2 DEF HandlerStep, ConfirmStep, CheckProcessed, Lookup, UpdatePaid,
                Publish, MarkProcessed, Reply, ConfirmFails, Deliver, storeVars,
                issueVars
  <2> QED
    BY <2>1, PromiseStutters
<1> QED
  BY <1>1, <1>2

\* A step of the processor grants what is paid or sends what is granted, once.
LEMMA ProcessorKeepsPromise ==
  ASSUME IInv, ProcessorStep \/ IssueFails
  PROVE  [Promise!Next]_(Promise!vars)
<1>0. TypeOK /\ ProcessorInv /\ RecordInv
  BY DEF IInv
<1>1. Busy => Current \in Purchases /\ Logged(Current)
  BY <1>0 DEF TypeOK, StoreTypeOK, IssueTypeOK, Current, RecordInv
<1>2. Recorded' = Recorded
  BY DEF ProcessorStep, Tick, EndOfBatch, LoadEvent, CheckContent,
         ProviderAnswers, ProviderFails, CreateGrant, SaveIssued,
         SendLink, MarkPublished, IssueFails, storeVars, Recorded, Logged
<1>3. CASE CreateGrant /\ Current \notin accessGrants
  <2>1. Promise!Grant(Current)
    BY <1>1, <1>2, <1>3 DEF CreateGrant, Busy, Promise!Grant, Recorded
  <2> QED
    BY <1>1, <1>3, <2>1 DEF CreateGrant, Busy, Promise!Next
<1>4. CASE SendLink /\ BotEnabled
  <2>1. Current \in Purchases /\ Current \in accessGrants /\ sent[Current] = 0
    BY <1>0, <1>1, <1>4 DEF SendLink, Busy, ProcessorInv
  <2>2. Promise!Deliver(Current)
    BY <1>2, <1>4, <2>1 DEF SendLink, Promise!Deliver, Recorded
  <2> QED
    BY <2>1, <2>2 DEF Promise!Next
<1>5. CASE UNCHANGED <<accessGrants, sent>>
  BY <1>2, <1>5 DEF Promise!vars, Recorded
<1> QED
  BY <1>3, <1>4, <1>5
     DEF ProcessorStep, Tick, EndOfBatch, LoadEvent, CheckContent,
         ProviderAnswers, ProviderFails, CreateGrant, SaveIssued,
         SendLink, MarkPublished, IssueFails, storeVars

\* The handlers, the processor, the crashes and the retries implement the
\* promise: each payment on record at most one grant, each grant one link.
THEOREM PromiseKept == Spec => KeepsPromise
<1>1. Init => Promise!Init
  BY DEF Init, StoreInit, IssueInit, Promise!Init, Logged
<1>2. IInv /\ [Next]_vars => [Promise!Next]_(Promise!vars)
  <2> SUFFICES ASSUME IInv, [Next]_vars PROVE [Promise!Next]_(Promise!vars)
    OBVIOUS
  <2>1. CASE \E w \in Workers : HandlerStep(w)
    BY <2>1, HandlerKeepsPromise
  <2>2. CASE ProcessorStep \/ IssueFails
    BY <2>2, ProcessorKeepsPromise
  <2>3. CASE UNCHANGED <<paymentEvents, accessGrants, sent>>
    BY <2>3, PromiseStutters
  <2> QED
    BY <2>1, <2>2, <2>3
       DEF Next, StartPurchase, EditCatalog, Pay, Crash, vars, storeVars, issueVars
<1> QED
  BY <1>1, <1>2, Invariant, PTL DEF Spec, KeepsPromise, Promise!Spec
=============================================================================
