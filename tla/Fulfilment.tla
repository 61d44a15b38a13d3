----------------------------- MODULE Fulfilment -----------------------------
(***************************************************************************)
(* From the invoice to the access link: the payment handlers and the       *)
(* outbox processor over the shared tables, with the catalog changing      *)
(* underneath and the whole process crashing.                              *)
(***************************************************************************)
EXTENDS ConfirmPayment, IssueAccess

vars == <<storeVars, confirmVars, issueVars>>

Init == StoreInit /\ ConfirmInit /\ IssueInit

\* start_purchase.Handler: a purchasable content, a fresh id, a pending row.
\* One step, although the content is read before the row is inserted: nobody
\* looks at the row before the handler has returned its payload.
StartPurchase(p) ==
  /\ CanBePurchased(ContentOf[p])
  /\ purchases[p].status = "none"
  /\ UpdateRow(p, PendingRow)
  /\ UNCHANGED <<content, paymentEvents, idempotencyKeys, outboxEvents,
                 published, faults, confirmVars, issueVars>>

\* An admin or the library sync upserts or deletes a content, or an operator
\* sets its active column.
EditCatalog(k) ==
  /\ \E s \in ContentStatus \ {content[k]} : content' = [content EXCEPT ![k] = s]
  /\ UNCHANGED <<purchases, paymentEvents, idempotencyKeys, outboxEvents,
                 published, faults, confirmVars, issueVars>>

\* The process dies and is started again: main does not wait for handlers.
\* Whatever was in memory is gone; tables, redis and Telegram keep theirs.
Crash ==
  /\ \A w \in Workers : confirms[w].pc \in FaultPoints \cup {"idle"}
  /\ proc.pc \in FaultPoints \cup {"idle", "next"}
  /\ faults < MaxFaults
  /\ faults' = faults + 1
  /\ confirms' = [w \in Workers |-> Idle]
  /\ proc' = Asleep
  /\ UNCHANGED <<purchases, content, paymentEvents, idempotencyKeys,
                 outboxEvents, published, charged, acked,
                 accessGrants, sent>>

HandlerStep(w) ==
  /\ ConfirmStep(w) \/ ConfirmFails(w) \/ \E c \in Charges : Deliver(w, c)
  /\ UNCHANGED issueVars

Next ==
  \/ \E p \in Purchases : StartPurchase(p)
  \/ \E k \in Contents : EditCatalog(k)
  \/ \E c \in Charges : Pay(c) /\ UNCHANGED issueVars
  \/ \E w \in Workers : HandlerStep(w)
  \/ (ProcessorStep \/ IssueFails) /\ UNCHANGED confirmVars
  \/ Crash

Spec == Init /\ [][Next]_vars

\* The ticker fires for ever, a running handler is scheduled, and the caller
\* of the webhook repeats a notification until it is answered OK (strongly
\* fair, for a free worker comes and goes).  Nothing makes a user buy, a
\* statement fail or the catalog change.  The bot's polling loop has no such
\* caller: what LiveSpec promises, it promises for the webhook.
Fairness ==
  /\ WF_vars(ProcessorStep /\ UNCHANGED confirmVars)
  /\ \A w \in Workers : WF_vars(ConfirmStep(w) /\ UNCHANGED issueVars)
  /\ \A c \in Charges : SF_vars(Redeliver(c) /\ UNCHANGED issueVars)

LiveSpec == Spec /\ Fairness

-----------------------------------------------------------------------------

\* Every variable holds values of the Go types and tables it stands for.
TypeOK == StoreTypeOK /\ ConfirmTypeOK /\ IssueTypeOK

Queued(p) == \E i \in 1 .. Len(outboxEvents) : outboxEvents[i] = p
Waiting(p) == \E i \in UnpublishedIds : outboxEvents[i] = p
Logged(p) == \E c \in paymentEvents : PurchaseOf[c] = p
PaidRow(row) ==
  /\ row.status \in {"paid", "access_issued", "expired", "error"}
  /\ row.charge # NoCharge

\* issue_access checks no purchase status: that nobody gets a grant without
\* having been charged, and the charge being on record in payment_events, rests
\* on the order of confirm_payment's statements alone.
NoAccessWithoutPayment ==
  \A p \in accessGrants : \E c \in paymentEvents \cap charged : PurchaseOf[c] = p

\* A payment whose notification was answered OK, and so is never sent again,
\* has been answered with a link or still waits in the outbox, whatever
\* failed, crashed or ran twice in between.
AckedIsDeliveredOrQueued ==
  BotEnabled =>
    \A c \in acked : sent[PurchaseOf[c]] > 0 \/ Waiting(PurchaseOf[c])

\* A row says access_issued only when the grant is in access_grants, although
\* every writer of the row writes back a copy it read earlier.
IssuedHasGrant ==
  \A p \in Purchases : purchases[p].status = "access_issued" => p \in accessGrants

\* Duplicate notifications, duplicate outbox events and retries after a
\* failure never send a second link for a purchase.
OneLinkPerPurchase == \A p \in Purchases : sent[p] <= 1

\* The processor retires an event only when its buyer has been sent the link.
PublishedMeansSent ==
  BotEnabled => \A i \in published : sent[outboxEvents[i]] = 1

\* A recorded payment is never overwritten by a stale copy of the row from
\* before the payment.
PaymentIsSticky ==
  [][\A p \in Purchases : PaidRow(purchases[p]) => PaidRow(purchases'[p])]_vars

\* A purchase is handed to support exactly when its attempts are used up:
\* neither a stale copy written over the count, nor a retry that the status
\* does not stop, separates issue_link_attempts from the status error.
Exhausted(row) == row.attempts >= MaxRetries
ErrorMeansExhausted ==
  \A p \in Purchases : purchases[p].status = "error" <=> Exhausted(purchases[p])

\* The lifecycle drawn in the README.
Lifecycle ==
  {<<"none", "pending">>, <<"pending", "paid">>, <<"paid", "access_issued">>,
   <<"access_issued", "expired">>, <<"pending", "error">>, <<"paid", "error">>}

StatusesMoveBy(arrows) ==
  \A p \in Purchases :
    LET before == purchases[p].status
        after == purchases'[p].status
    IN before # after => <<before, after>> \in arrows

\* What the writers of a row make of its status, each with a copy of its own
\* age.  Beyond the README's arrows, a purchase that is issued again may run
\* out of attempts, and a late payment handler may put it back to paid.  They
\* do nothing worse: a purchase in error is never issued from there.
StaleWritesReopen ==
  [][StatusesMoveBy(Lifecycle \cup {<<"access_issued", "error">>,
                                    <<"access_issued", "paid">>, <<"error", "paid">>})]_vars

Promise == INSTANCE AccessPromise
             WITH paid <- {p \in Purchases : Logged(p)},
                  granted <- accessGrants,
                  links <- sent

\* The handlers implement the promise: record a payment, grant once, send once.
KeepsPromise == Promise!Spec

\* A purchase somebody was charged for is answered with a link, if its content
\* ends up purchasable.  It is checked where failures stop, hit only points the
\* handlers can be repeated from, and the provider fails fewer than MaxRetries
\* times (after that the purchase is in error, for support to look at).
DeliveredIfSellable ==
  (\A k \in Contents : <>[](content[k] = "active")) =>
    \A c \in Charges : (c \in charged) ~> (sent[PurchaseOf[c]] > 0)

-----------------------------------------------------------------------------
(***************************************************************************)
(* What the README says and the code does not do.                          *)
(***************************************************************************)

\* A purchase only moves along the arrows of the lifecycle.
LifecycleFollowsDiagram == [][StatusesMoveBy(Lifecycle)]_vars

\* The buyer is charged at most once for a content.
NoDoubleCharge ==
  \A c, d \in charged :
    ContentOf[PurchaseOf[c]] = ContentOf[PurchaseOf[d]] => c = d

\* Delivery of a purchase is guaranteed by the outbox, whatever becomes of the
\* purchases before it in the outbox.
DeliveredWhateverOthers ==
  \A c \in Charges :
    <>[](content[ContentOf[PurchaseOf[c]]] = "active") =>
      ((c \in charged) ~> (sent[PurchaseOf[c]] > 0))

-----------------------------------------------------------------------------
(***************************************************************************)
(* The inductive invariant.                                                *)
(***************************************************************************)
\* What each statement of confirm_payment leaves behind for the next ones.
WorkerInv(w) ==
  /\ confirms[w].pc # "idle" => confirms[w].charge \in charged
  /\ confirms[w].pc = "update" => /\ PaidRow(confirms[w].row)
                                  /\ confirms[w].row.status = "paid"
  /\ confirms[w].pc \in {"log", "publish"} => PaidRow(purchases[PurchaseAt(w)])
  /\ confirms[w].pc = "publish" => confirms[w].charge \in paymentEvents
  /\ confirms[w].pc \in {"mark", "reply"} => Queued(PurchaseAt(w))

\* What an event in the outbox, a key or an answer says of the payment.
RecordInv ==
  /\ paymentEvents \subseteq charged
  /\ \A i \in 1 .. Len(outboxEvents) :
       Logged(outboxEvents[i]) /\ PaidRow(purchases[outboxEvents[i]])
  /\ \A c \in idempotencyKeys \cup acked : Queued(PurchaseOf[c])

\* What the processor knows of the event it handles.
ProcessorInv ==
  /\ Busy =>
       /\ PaidRow(proc.row)
       /\ proc.row.status = "access_issued" => Current \in accessGrants
  /\ proc.pc \in {"save", "send"} => Current \in accessGrants /\ sent[Current] = 0
  /\ proc.pc = "settle" /\ BotEnabled => sent[Current] = 1

GrantInv ==
  /\ \A p \in accessGrants : Logged(p)
  /\ \A p \in Purchases : sent[p] > 0 => p \in accessGrants
  /\ IssuedHasGrant
  /\ OneLinkPerPurchase
  /\ PublishedMeansSent

\* ErrorMeansExhausted for the rows and every copy of one.
RetryInv ==
  \A row \in {purchases[p] : p \in Purchases}
              \cup {confirms[w].row : w \in Workers} \cup {proc.row} :
    row.status = "error" <=> Exhausted(row)

\* What StaleWritesReopen rests on.  Up to its write of the row the processor
\* holds a copy of it, unless a payment handler has made it paid meanwhile.
\* (Purchase has a method MarkExpired, which nothing calls.)
BeforeSave == {"content", "provider", "create", "save"}
CopyInv ==
  /\ proc.row.status # "expired"
  /\ \A p \in Purchases : purchases[p].status # "expired"
  /\ \A c \in charged : purchases[PurchaseOf[c]].status # "none"
  /\ proc.pc \in BeforeSave =>
       purchases[Current] = proc.row \/ purchases[Current].status = "paid"

IInv ==
  /\ TypeOK
  /\ \A w \in Workers : WorkerInv(w)
  /\ RecordInv
  /\ ProcessorInv
  /\ GrantInv
=============================================================================
