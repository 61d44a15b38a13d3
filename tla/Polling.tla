------------------------------ MODULE Polling ------------------------------
(***************************************************************************)
(* The bot: one goroutine of the Telegram library fetches updates into a   *)
(* channel, and one goroutine of the program handles them one at a time,   *)
(* payments among them, over the tables of Fulfilment.                     *)
(*                                                                         *)
(* Telegram drops an update as soon as the library asks for the next ones, *)
(* whether or not it has been handled; it hands out again, after a         *)
(* restart, the updates of the last answer.                                *)
(***************************************************************************)
EXTENDS Fulfilment

CONSTANTS
  bot,       \* the worker that handles payments for the polling loop
  Messages,  \* what users may say to the bot, each at most once
  Ratings,   \* the ratings somebody tries to give over HTTP
  Buffer,    \* capacity of the library's channel (100)
  Backlog    \* bound: users wait while as many updates are not fetched

\* The bot takes updates only where nobody else delivers payments to the
\* program; overlapping deliveries are the subject of Fulfilment.
ASSUME PollingAssumption ==
  /\ Workers = {bot}
  /\ BotEnabled
  /\ Buffer \in Nat
  /\ Backlog \in Nat

\* /adminmode with the right secret, /buy or a buy button, /forcebuy and
\* /review or a rating button.  n tells apart messages with the same words.
Message ==
  [kind : {"adminmode"}, n : Nat]
    \cup [kind : {"buy", "forcebuy"}, content : Contents, n : Nat]
    \cup [kind : {"review"}, purchase : Purchases, stars : Int, n : Nat]

ASSUME MessagesAssumption == Messages \subseteq Message /\ Ratings \subseteq Int

Query(c) == [kind |-> "query", charge |-> c]      \* a pre-checkout query
Notice(c) == [kind |-> "notice", charge |-> c]    \* a successful payment
Forced(p) == [kind |-> "forced", purchase |-> p]  \* /forcebuy, p inserted
NoUpdate == [kind |-> "none"]

Update == Messages \cup {Query(c) : c \in Charges} \cup {Notice(c) : c \in Charges}

VARIABLES
  loop,      \* Bot.Start: before SetMenu, in the loop, or returned
  admin,     \* whether the operator is in Bot.adminUsers
  updates,   \* Telegram: updates not fetched yet
  fetched,   \* Telegram: updates fetched and not confirmed yet
  buffer,    \* the channel, and what the library waits to put into it
  up,        \* the update being handled
  said,      \* history: the messages sent
  invoices,  \* Telegram: the purchases whose invoice it accepted
  reviews    \* table reviews: the rating of a purchase, or Unrated

pollingVars == <<loop, admin, updates, fetched, buffer, up, said, invoices, reviews>>
botVars == <<vars, pollingVars>>

Unrated == 0

PollingTypeOK ==
  /\ loop \in {"starting", "polling", "stopped"}
  /\ admin \in BOOLEAN
  /\ updates \in Seq(Update)
  /\ fetched \in Seq(Update)
  /\ buffer \in Seq(Update)
  /\ up \in Update \cup {Forced(p) : p \in Purchases} \cup {NoUpdate}
  /\ said \subseteq Messages
  /\ invoices \subseteq Purchases
  /\ reviews \in [Purchases -> 0 .. 5]

PollingInit ==
  /\ Init
  /\ loop = "starting"
  /\ admin = FALSE
  /\ updates = << >>
  /\ fetched = << >>
  /\ buffer = << >>
  /\ up = NoUpdate
  /\ said = {}
  /\ invoices = {}
  /\ reviews = [p \in Purchases |-> Unrated]

(***************************************************************************)
(* Users, Telegram and the library.                                        *)
(***************************************************************************)
Say(m) ==
  /\ m \notin said
  /\ Len(updates) < Backlog
  /\ said' = said \cup {m}
  /\ updates' = Append(updates, m)
  /\ UNCHANGED <<vars, loop, admin, fetched, buffer, up, invoices, reviews>>

\* A user presses the pay button of an invoice.
PressPay(c) ==
  /\ PurchaseOf[c] \in invoices
  /\ c \notin charged
  /\ Len(updates) < Backlog
  /\ updates' = Append(updates, Query(c))
  /\ UNCHANGED <<vars, loop, admin, fetched, buffer, up, said, invoices, reviews>>

\* Mutants: the offset is not advanced, or updates for which the channel has
\* no room are dropped.
PollSameOffset ==
  /\ loop = "polling"
  /\ Len(buffer) <= Buffer
  /\ updates \o fetched # << >>
  /\ buffer' = buffer \o fetched \o updates
  /\ fetched' = updates
  /\ updates' = << >>
  /\ UNCHANGED <<vars, loop, admin, up, said, invoices, reviews>>
PollAndDrop ==
  /\ loop = "polling"
  /\ updates \o fetched # << >>
  /\ buffer' = IF Len(buffer) <= Buffer THEN buffer \o updates ELSE buffer
  /\ fetched' = updates
  /\ updates' = << >>
  /\ UNCHANGED <<vars, loop, admin, up, said, invoices, reviews>>

\* GetUpdatesChan: once the last answer is in the channel, getUpdates with the
\* offset after it confirms it and brings what has come in since.
Poll ==
  /\ loop = "polling"
  /\ Len(buffer) <= Buffer
  /\ updates \o fetched # << >>
  /\ buffer' = buffer \o updates
  /\ fetched' = updates
  /\ updates' = << >>
  /\ UNCHANGED <<vars, loop, admin, up, said, invoices, reviews>>

(***************************************************************************)
(* Bot.Start and Bot.handleUpdate.                                         *)
(***************************************************************************)
\* SetMenu succeeds, or the bot is never heard of again while the rest of the
\* process goes on.
Begin ==
  /\ loop = "starting"
  /\ loop' \in {"polling", "stopped"}
  /\ UNCHANGED <<vars, admin, updates, fetched, buffer, up, said, invoices, reviews>>

\* The loop takes the next update when the handler of the last one is done.
Receive ==
  /\ loop = "polling"
  /\ up = NoUpdate
  /\ At(bot, "idle")
  /\ buffer # << >>
  /\ up' = Head(buffer)
  /\ buffer' = Tail(buffer)
  /\ UNCHANGED <<vars, loop, admin, updates, fetched, said, invoices, reviews>>

Done == up' = NoUpdate

\* Pre-checkout: OK if the purchase is there, and then Telegram charges the
\* user and says so; or it is refused, or the answer fails or comes too late.
AnswerQuery(c) ==
  /\ up = Query(c)
  /\ \/ /\ Pay(c) /\ UNCHANGED issueVars
        /\ updates' = Append(updates, Notice(c))
     \/ UNCHANGED <<vars, updates>>
  /\ Done
  /\ UNCHANGED <<loop, admin, fetched, buffer, said, invoices, reviews>>

\* Mutant: a payment message is handled after the commands, and so ignored.
TakeNoticeAsCommand(c) ==
  /\ up = Notice(c)
  /\ Done
  /\ UNCHANGED <<vars, loop, admin, updates, fetched, buffer, said, invoices, reviews>>

\* A payment message: confirm_payment.Handle is called, once.  The loop waits
\* for it; an error is told to the user and to nobody else.
TakeNotice(c) ==
  /\ up = Notice(c)
  /\ Deliver(bot, c) /\ UNCHANGED issueVars
  /\ Done
  /\ UNCHANGED <<loop, admin, updates, fetched, buffer, said, invoices, reviews>>

\* /adminmode with the right secret toggles.
ToggleAdmin ==
  /\ up.kind = "adminmode"
  /\ admin' = ~ admin
  /\ Done
  /\ UNCHANGED <<vars, loop, updates, fetched, buffer, said, invoices, reviews>>

\* Mutant: the content is not looked at.
BuyAnything ==
  /\ up.kind = "buy"
  /\ \E p \in Purchases :
       /\ ContentOf[p] = up.content
       /\ purchases[p].status = "none"
       /\ UpdateRow(p, PendingRow)
       /\ invoices' \in {invoices, invoices \cup {p}}
  /\ Done
  /\ UNCHANGED <<content, paymentEvents, idempotencyKeys, outboxEvents, published,
                 faults, confirmVars, issueVars,
                 loop, admin, updates, fetched, buffer, said, reviews>>

\* A purchase is started, and its invoice is sent or not; or start_purchase
\* refuses the content or fails before it has inserted the row.
Buy ==
  /\ up.kind = "buy"
  /\ \/ \E p \in Purchases :
          /\ ContentOf[p] = up.content
          /\ StartPurchase(p)
          /\ invoices' \in {invoices, invoices \cup {p}}
     \/ UNCHANGED <<vars, invoices>>
  /\ Done
  /\ UNCHANGED <<loop, admin, updates, fetched, buffer, said, reviews>>

\* Mutant: /forcebuy is anybody's.
ForceBuyByAnybody ==
  /\ up.kind = "forcebuy"
  /\ \/ \E p \in Purchases : /\ ContentOf[p] = up.content
                             /\ StartPurchase(p)
                             /\ up' = Forced(p)
     \/ UNCHANGED vars /\ Done
  /\ UNCHANGED <<loop, admin, updates, fetched, buffer, said, invoices, reviews>>

\* /forcebuy: an admin's starts a purchase as /buy does, and goes on with it.
ForceBuy ==
  /\ up.kind = "forcebuy"
  /\ \/ \E p \in Purchases : /\ admin
                             /\ ContentOf[p] = up.content
                             /\ StartPurchase(p)
                             /\ up' = Forced(p)
     \/ UNCHANGED vars /\ Done
  /\ UNCHANGED <<loop, admin, updates, fetched, buffer, said, invoices, reviews>>

\* It invents a charge and goes on as for a payment message.
ForceCharge(c) ==
  /\ up = Forced(PurchaseOf[c])
  /\ Pay(c) /\ UNCHANGED issueVars
  /\ up' = Notice(c)
  /\ UNCHANGED <<loop, admin, updates, fetched, buffer, said, invoices, reviews>>

\* Mutant: a second review replaces the first.
InsertReviewOver(p, stars) == [reviews EXCEPT ![p] = stars]

\* INSERT INTO reviews ... ON CONFLICT (purchase_id) DO NOTHING.
InsertReview(p, stars) ==
  IF reviews[p] = Unrated THEN [reviews EXCEPT ![p] = stars] ELSE reviews

\* Mutant: the rating is not looked at.
SubmitReviewOfAnyRating(p, stars) ==
  /\ purchases[p].status # "none"
  /\ reviews' = InsertReview(p, stars)

\* submit_review.Handler: any purchase can be reviewed, paid or not.
SubmitReview(p, stars) ==
  /\ stars \in 1 .. 5
  /\ purchases[p].status # "none"
  /\ reviews' = InsertReview(p, stars)

TakeReview ==
  /\ up.kind = "review"
  /\ SubmitReview(up.purchase, up.stars) \/ UNCHANGED reviews
  /\ Done
  /\ UNCHANGED <<vars, loop, admin, updates, fetched, buffer, said, invoices>>

\* POST /review/submit, at any time and by anybody.
ReviewOverHTTP ==
  /\ \E p \in Purchases, stars \in Ratings : SubmitReview(p, stars)
  /\ UNCHANGED <<vars, loop, admin, updates, fetched, buffer, up, said, invoices>>

HandleUpdate ==
  \/ \E c \in Charges : AnswerQuery(c) \/ TakeNotice(c) \/ ForceCharge(c)
  \/ ToggleAdmin
  \/ Buy
  \/ ForceBuy
  \/ TakeReview

\* The channel, the update at hand and the admins are gone; Telegram hands out
\* again what it has no confirmation for.
Restart ==
  /\ Crash
  /\ loop' = "starting"
  /\ admin' = FALSE
  /\ updates' = fetched \o updates
  /\ fetched' = << >>
  /\ buffer' = << >>
  /\ Done
  /\ UNCHANGED <<said, invoices, reviews>>

\* The steps of Fulfilment that go on beside the loop, or for it.
Confirming == (ConfirmStep(bot) \/ ConfirmFails(bot)) /\ UNCHANGED issueVars
Beside ==
  /\ \/ Confirming
     \/ (ProcessorStep \/ IssueFails) /\ UNCHANGED confirmVars
     \/ \E k \in Contents : EditCatalog(k)
  /\ UNCHANGED pollingVars

PollingNext ==
  \/ \E m \in Messages : Say(m)
  \/ \E c \in Charges : PressPay(c)
  \/ Poll
  \/ Begin
  \/ Receive
  \/ HandleUpdate
  \/ ReviewOverHTTP
  \/ Beside
  \/ Restart

PollingSpec == PollingInit /\ [][PollingNext]_botVars

\* Both goroutines and the processor are scheduled.  Nobody repeats a payment
\* message, and nothing makes a user say anything or a content purchasable.
PollingFairness ==
  /\ WF_botVars(Begin)
  /\ WF_botVars(Poll)
  /\ WF_botVars(Receive \/ HandleUpdate)
  /\ WF_botVars(ConfirmStep(bot) /\ UNCHANGED <<issueVars, pollingVars>>)
  /\ WF_botVars(ProcessorStep /\ UNCHANGED <<confirmVars, pollingVars>>)

FairPolling == PollingSpec /\ PollingFairness

-----------------------------------------------------------------------------

In(u, s) == \E i \in 1 .. Len(s) : s[i] = u

\* Not handled yet, by this life of the process.
Pending(u) == In(u, updates) \/ In(u, buffer) \/ up = u

Handling(c) == ~ At(bot, "idle") /\ confirms[bot].charge = c

\* No payment slips through the loop: as long as nothing fails, the notice of
\* a charge that was not answered OK is on its way or in the handler, or it
\* was refused because another charge has paid the purchase.
NoticeTracked ==
  faults = 0 =>
    \A c \in charged \ acked :
      \/ Pending(Notice(c))
      \/ Handling(c)
      \/ purchases[PurchaseOf[c]].charge \notin {c, NoCharge}

\* Each message is handled once, in whatever portions it was fetched: no more
\* purchases than /buy and /forcebuy said and done.  (A crash makes Telegram
\* hand out the last answer again, and a /buy in it starts a second purchase.)
Orders == {m \in said : m.kind \in {"buy", "forcebuy"}}
OnePurchasePerOrder ==
  faults = 0 =>
    Cardinality({p \in Purchases : purchases[p].status # "none"})
      <= Cardinality({m \in Orders : ~ Pending(m)})

\* The admin mode is what the operator's messages make it, in whatever
\* portions and among whatever else they were fetched.
Toggles == {m \in said : m.kind = "adminmode"}
AdminAsAsked ==
  faults = 0 => (admin <=> Cardinality({m \in Toggles : ~ Pending(m)}) % 2 = 1)

\* Nobody is given a purchase for nothing unless the operator has been admin:
\* a purchase that is paid without an invoice was forced after an /adminmode,
\* crashes and redelivered updates included.
FreeMeansAdmin ==
  \A c \in charged : PurchaseOf[c] \in invoices \/ Toggles # {}

\* The rating of a purchase is the first one given, although messages are
\* handed out twice and reviews come in over HTTP at the same time.
FirstReviewStays ==
  [][\A p \in Purchases : reviews[p] # Unrated => reviews'[p] = reviews[p]]_botVars

\* One handler of payments at a time keeps the order of the README's lifecycle,
\* which overlapping ones do not: no copy of a row that a later write has made
\* stale, no repeated notice and no restart takes a purchase back.  There is
\* one arrow the README does not draw: a purchase whose link failed to be
\* sent, or whose event failed to be retired, is issued again, and when the
\* provider then fails too often it goes from access_issued to error.
MovesForward ==
  [][StatusesMoveBy(Lifecycle \cup {<<"access_issued", "error">>})]_botVars

\* The bot only ever does to the tables what Fulfilment says: a purchase is
\* started for a purchasable content, a payment handled by confirm_payment.
BotFulfils == Spec

\* If nothing fails and the bot gets through SetMenu, everybody who was
\* charged is sent the link, once the content stays purchasable: the loop
\* hands each payment to the handler the one time that is needed.
ServedByPolling ==
  /\ [](faults = 0 /\ loop # "stopped")
  /\ \A k \in Contents : <>[](content[k] = "active")
  => \A c \in Charges : (c \in charged) ~> (sent[PurchaseOf[c]] > 0)

-----------------------------------------------------------------------------
(***************************************************************************)
(* The inductive invariant for the theorems: what an update on its way     *)
(* says is so.                                                             *)
(***************************************************************************)
Known ==
  said \cup {Query(c) : c \in {d \in Charges : PurchaseOf[d] \in invoices}}
       \cup {Notice(c) : c \in charged}

UpdatesInv ==
  /\ updates \in Seq(Known)
  /\ fetched \in Seq(Known)
  /\ buffer \in Seq(Known)
  /\ up \in Known \cup {Forced(p) : p \in Purchases} \cup {NoUpdate}

AdminInv ==
  /\ admin => Toggles # {}
  /\ up.kind = "forced" => Toggles # {}
  /\ FreeMeansAdmin

PollingInv == PollingTypeOK /\ UpdatesInv /\ AdminInv

\* One worker at a time: a row holds a charge from its payment on, and a copy
\* is of the row as it still is when the copy is written.  (Purchase has a
\* method MarkExpired, which nothing calls.)
RowInv ==
  /\ \A p \in Purchases : purchases[p].status # "expired"
  /\ \A p \in Purchases :
       purchases[p].status \in {"none", "pending"} <=> purchases[p].charge = NoCharge
  /\ \A c \in charged : purchases[PurchaseOf[c]].status # "none"
  /\ At(bot, "update") =>
       /\ purchases[PurchaseAt(bot)].status = "pending"
       /\ confirms[bot].row.charge = confirms[bot].charge
  /\ proc.pc \in BeforeSave => proc.row = purchases[Current]

\* What makes OnePurchasePerOrder and AdminAsAsked inductive: as long as
\* nothing fails, a message is nowhere twice.
Once(s) ==
  \A i, j \in 1 .. Len(s) : s[i] \in Messages /\ s[i] = s[j] => i = j
OnceInv ==
  faults = 0 =>
    /\ Once(updates) /\ Once(buffer)
    /\ \A m \in Messages :
         /\ In(m, updates) => ~ In(m, buffer)
         /\ In(m, updates) \/ In(m, buffer) => up # m

\* What makes NoticeTracked inductive: a charge that is in its row but not
\* answered OK is past the update.
PastUpdate(c) ==
  Handling(c) /\ confirms[bot].pc \in {"log", "publish", "mark", "reply"}
ChargeInv ==
  faults = 0 =>
    \A c \in Charges \ acked :
      purchases[PurchaseOf[c]].charge = c => PastUpdate(c)
=============================================================================
