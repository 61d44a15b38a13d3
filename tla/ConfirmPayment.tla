--------------------------- MODULE ConfirmPayment ---------------------------
(***************************************************************************)
(* confirm_payment.Handler, run by any number of concurrent workers (one   *)
(* goroutine per HTTP request, plus the bot's polling loop), and the part  *)
(* of Telegram it depends on: a charge happens when the bot accepts the    *)
(* pre-checkout query, and the notification of it is delivered any number  *)
(* of times, repeatedly until it is answered with success.                 *)
(***************************************************************************)
EXTENDS PurchaseStore

CONSTANT Workers   \* handlers of payment notifications that may overlap

VARIABLES
  charged,   \* Telegram: the charges it has taken money for
  acked,     \* Telegram: the charges whose notification was answered OK
  confirms   \* per worker: program point, charge, and its copy of the row

confirmVars == <<charged, acked, confirms>>

ConfirmPoint ==
  {"idle", "check", "lookup", "update", "log", "publish", "mark", "reply"}

Idle == [pc |-> "idle", charge |-> NoCharge, row |-> NoRow]

ConfirmTypeOK ==
  /\ charged \subseteq Charges
  /\ acked \subseteq Charges
  /\ confirms \in [Workers -> [pc : ConfirmPoint,
                               charge : Charges \cup {NoCharge}, row : Row]]
  /\ \A w \in Workers : confirms[w].pc # "idle" => confirms[w].charge \in Charges

ConfirmInit ==
  /\ charged = {}
  /\ acked = {}
  /\ confirms = [w \in Workers |-> Idle]

\* Mutants of the statement order: the audit row is left out, the key is
\* marked before the event is published, or the event is published first.
ConfirmThenUnlogged ==
  [check |-> "lookup", lookup |-> "update", update |-> "publish",
   log |-> "publish", publish |-> "mark", mark |-> "reply"]
ConfirmThenMarkedFirst ==
  [check |-> "lookup", lookup |-> "update", update |-> "log",
   log |-> "mark", mark |-> "publish", publish |-> "reply"]
ConfirmThenPublishedFirst ==
  [check |-> "lookup", lookup |-> "publish", update |-> "mark",
   log |-> "update", publish |-> "log", mark |-> "reply"]

\* The order of the handler's statements: the point reached after one succeeds.
ConfirmThen ==
  [check |-> "lookup", lookup |-> "update", update |-> "log",
   log |-> "publish", publish |-> "mark", mark |-> "reply"]

At(w, pc) == confirms[w].pc = pc
PurchaseAt(w) == PurchaseOf[confirms[w].charge]
Goto(w, pc) == confirms' = [confirms EXCEPT ![w].pc = pc]
Return(w) == confirms' = [confirms EXCEPT ![w] = Idle]

\* The user pays an invoice.  The bot's pre-checkout answer requires the row
\* of the payload to exist (owner and amount match by construction of the
\* invoice) and looks at neither its status nor the content.  An admin's
\* /forcebuy is the same to the handler: a charge id nobody has used before.
Pay(c) ==
  /\ c \notin charged
  /\ purchases[PurchaseOf[c]].status # "none"
  /\ charged' = charged \cup {c}
  /\ UNCHANGED <<storeVars, acked, confirms>>

\* A notification of a charge arrives, possibly for the umpteenth time.
Deliver(w, c) ==
  /\ At(w, "idle")
  /\ c \in charged
  /\ confirms' =
       [confirms EXCEPT ![w] = [pc |-> "check", charge |-> c, row |-> NoRow]]
  /\ UNCHANGED <<storeVars, charged, acked>>

\* Idempotency.IsProcessed: a processed charge is answered OK at once.
CheckProcessed(w) ==
  /\ At(w, "check")
  /\ Goto(w, IF confirms[w].charge \in idempotencyKeys
             THEN "reply" ELSE ConfirmThen.check)
  /\ UNCHANGED <<storeVars, charged, acked>>

\* Mutant: the status of the purchase is not looked at.
LookupAnyStatus(w) ==
  LET row == purchases[PurchaseAt(w)] IN
  /\ At(w, "lookup")
  /\ confirms' = [confirms EXCEPT ![w] =
       [pc |-> ConfirmThen.lookup,
        charge |-> confirms[w].charge,
        row |-> MarkPaid(row, confirms[w].charge)]]
  /\ UNCHANGED <<storeVars, charged, acked>>

\* Purchases.GetByPayload and MarkPaid on the copy read: a purchase that is
\* missing or not pending ends the call with an error.
Lookup(w) ==
  LET row == purchases[PurchaseAt(w)] IN
  /\ At(w, "lookup")
  /\ IF row.status = "pending"
     THEN confirms' = [confirms EXCEPT ![w] =
            [pc |-> ConfirmThen.lookup,
             charge |-> confirms[w].charge,
             row |-> MarkPaid(row, confirms[w].charge)]]
     ELSE Return(w)
  /\ UNCHANGED <<storeVars, charged, acked>>

\* Purchases.Update writes the copy, whatever the row has become meanwhile.
UpdatePaid(w) ==
  /\ At(w, "update")
  /\ UpdateRow(PurchaseAt(w), confirms[w].row)
  /\ Goto(w, ConfirmThen.update)
  /\ UNCHANGED <<content, paymentEvents, idempotencyKeys, outboxEvents,
                 published, faults, charged, acked>>

\* EventLog.SavePaymentEvent: ON CONFLICT (charge_id) DO NOTHING.
SavePaymentEvent(w) ==
  /\ At(w, "log")
  /\ paymentEvents' = paymentEvents \cup {confirms[w].charge}
  /\ Goto(w, ConfirmThen.log)
  /\ UNCHANGED <<purchases, content, idempotencyKeys, outboxEvents,
                 published, faults, charged, acked>>

\* Outbox.PublishPurchaseConfirmed: the row id holds the time, so every call
\* inserts a new event.
Publish(w) ==
  /\ At(w, "publish")
  /\ PublishPurchaseConfirmed(PurchaseAt(w))
  /\ Goto(w, ConfirmThen.publish)
  /\ UNCHANGED <<purchases, content, paymentEvents, idempotencyKeys,
                 published, faults, charged, acked>>

\* Idempotency.MarkProcessed: ON CONFLICT (event_id) DO NOTHING.
MarkProcessed(w) ==
  /\ At(w, "mark")
  /\ idempotencyKeys' = idempotencyKeys \cup {confirms[w].charge}
  /\ Goto(w, ConfirmThen.mark)
  /\ UNCHANGED <<purchases, content, paymentEvents, outboxEvents,
                 published, faults, charged, acked>>

\* Handle returned nil and the OK answer reaches the sender.
Reply(w) ==
  /\ At(w, "reply")
  /\ acked' = acked \cup {confirms[w].charge}
  /\ Return(w)
  /\ UNCHANGED <<storeVars, charged>>

\* The statement at the worker's point fails, or the answer is lost: the
\* error goes to the sender and nothing that was written is undone.
ConfirmFails(w) ==
  /\ FaultAt(confirms[w].pc)
  /\ Return(w)
  /\ UNCHANGED <<purchases, content, paymentEvents, idempotencyKeys,
                 outboxEvents, published, charged, acked>>

ConfirmStep(w) ==
  \/ CheckProcessed(w)
  \/ Lookup(w)
  \/ UpdatePaid(w)
  \/ SavePaymentEvent(w)
  \/ Publish(w)
  \/ MarkProcessed(w)
  \/ Reply(w)

\* The webhook's caller repeats a notification it has no OK answer for (the
\* handler replies 400 to it).  An update that the bot's polling loop took is
\* not repeated: such a charge is one that is never redelivered.
Redeliver(c) == c \notin acked /\ \E w \in Workers : Deliver(w, c)
=============================================================================
