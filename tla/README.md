# Verification of StreamingBot

TLA+ specifications of the Telegram shop in this repository: a buyer pays an
invoice in Telegram Stars, the bot confirms the payment, a background job
creates an access grant and sends a one-time link, the link is redeemed, and the
catalog is kept in step with a Bunny Stream library. The modules are checked
with TLC on small instances and the main safety properties are proved with TLAPS
for every value of the constants.

Paths below are relative to `src/internal/` unless they start with `src/`.

## 1. Inventory

| Component | Code | State it keeps | Operations |
|---|---|---|---|
| Start of a purchase | `app/start_purchase` | table `purchases` | check the content, insert a pending row |
| Payment confirmation | `app/confirm_payment` | `purchases`, `payment_events`, `outbox_events`, `idempotency_keys` | one handler of six statements, called by the webhook and by the bot's polling loop |
| Outbox processor and issuance | `jobs`, `app/issue_access` | `access_grants`, `purchases`, `outbox_events.published` | every 2 s: read a batch, per event load, ask the provider, create the grant, update the row, send the link, retire the event |
| Redemption | `app/use_access` | `access_grants.used_at` | load the grant by token hash, check, mark used |
| Library sync | `adapters/streaming` (`sync.go`, `ListLibraryVideos`) | table `content` | a scan of pages, per video a read and an upsert |
| Catalog administration | `adapters/telegram/bot.go` | table `content` | `/createcontent`, `/deletecontent`, `/setcontent` |
| Bot | `adapters/telegram/bot.go` | admin set, the library's channel of updates | `Start`, `handleUpdate`: pre-checkout, payment messages, `/buy`, `/forcebuy`, `/adminmode`, `/review`, buttons |
| HTTP API | `adapters/httpapi` | none | the payment webhook, `use-access`, purchase, review |
| Reviews | `app/submit_review`, `app/request_review` | table `reviews`, `purchases.review_requested_at` | insert a review; ask for one (not wired) |
| Redis cache | `adapters/storage/redis` | token hashes | put, get, delete; no result is ever used |
| Users, config, ids, tokens, logger | `domain/user`, `platform/*` | none that a handler reads | |

How they interact. There are four kinds of concurrent actors in one process: HTTP
requests (any number), the bot's polling loop (one goroutine), the scheduler
(one goroutine, never overlapping itself) and the library sync (one goroutine).
The library that fetches Telegram's updates adds a goroutine of its own, which
fills a channel of 100 updates while the polling loop handles one at a time.
They share nothing else in memory; they meet in Postgres, where **every repository call
is one autocommitted statement**: no handler opens a transaction, and an entity
that is read, changed and saved is saved as a whole row. `confirm_payment` hands
over to `issue_access` through the outbox table.

What is hard, and what makes each component correct:

* *Confirmation*: notifications are repeated and overlap, and any statement may
  fail after earlier ones have taken effect. A payment that was answered OK must
  have its link sent or its event waiting; a payment on record must stay on
  record.
* *Issuance*: the processor works on a copy of the row it read before slow
  external calls; it meets duplicate events; it retries what failed at any step.
  One grant and one link per purchase, a grant only after a payment, an event
  retired only after the link was sent, and a link for every payment in the end.
* *Redemption*: check and update are separate. The first use is final, and
  nobody who asks after it is let in.
* *Bot*: Telegram forgets an update when the next ones are asked for, handled or
  not, and hands out the last answer again after a restart. Each update must be
  handled once and in order; in the absence of failures no payment may slip
  between the answer, the channel and the handler; nothing is paid for nothing
  but by an admin.
* *Reviews*: they come in by message, button, HTTP and redelivery; the first of a
  purchase counts.
* *Catalog*: sync and admins write the same rows, and pages are numbered in a list
  that changes during the scan. A scan undoes no edit but one that falls between its
  read and its write of the row, it misses nothing, and the catalog catches up.

The full list of hazards, each at its line, is in `PROJECT.json`.

## 2. Modules

| Module | Models | Remarks |
|---|---|---|
| `PurchaseStore` | the tables and the `Purchase` entity's methods | constants and their assumptions; a failure budget |
| `ConfirmPayment` | `confirm_payment.Handler.Handle`, pre-checkout, the sender of notifications | one action per statement; `ConfirmThen` is their order |
| `IssueAccess` | `OutboxProcessor.RunOnce`, `issue_access.Handler.Handle`, `Sender` | one action per call |
| `Fulfilment` | the two over the shared tables, `start_purchase`, catalog changes, crashes | all properties of the payment path |
| `AccessPromise` | what the shop promises: pay, grant once, send once | abstract; refined by `Fulfilment` |
| `Polling` | `Bot.Start`, the channel, `handleUpdate` and everything it calls that changes state, `submit_review` also over HTTP | extends `Fulfilment`: payments go through its handler, the processor runs beside |
| `UseAccess` | `use_access.Handler.Handle` over the grants and a clock | independent of the others: it only needs that a token belongs to one grant |
| `Catalog` | `SyncLibraryContent`, `ListLibraryVideos`, the admin's content commands | `Fulfilment.EditCatalog` stands for all of its writers |
| `FulfilmentProofs`, `PollingProofs`, `UseAccessProofs`, `CatalogProofs` | theorems | |
| `MCFulfilment`, `MCPolling`, `MCUseAccess`, `MCCatalog` | instances for TLC | |

Correspondence. A handler in progress is a record: `pc`, the statement it is
about to execute, and the local variables that survive it: `confirms[w]` (charge
and the changed copy of the row), `proc` (rest of the batch, event, copy of the
row), `requests[r]` (copy of the grant), and in `Catalog` `sync` and `admin` (copy of the content
row). The rest of a page in `sync.todo` is a set of videos with the positions they
were listed at, which the loop takes in that order (`Turn`). Two variables of `Catalog`
are history, read by no action of the code: `scan`, what the last scan has upserted,
and `edits`, the row as its last edit by an admin or an operator left it, with what a
scan between its read and its write of that row had read then. Reading fills the copy, `Update` and `Upsert` write it back whole. In-memory
methods of the entity (`MarkPaid`, `MarkAccessIssued`,
`RegisterIssueAccessFailure`) are evaluated in the step of the read or write next
to them, for nothing else can see them happen.

Failures. A statement that fails before it takes effect, one that takes effect
while its answer is lost, a cancelled context and a killed goroutine all leave the
same thing behind: a handler that stops at some point with everything before it
written. So one action (`ConfirmFails`, `IssueFails`, `Fail`, `ScanFails`) ends the
handler at whatever point it is at; `FaultPoints` says where it may do so and
`MaxFaults` how often. `Crash` and `Restart` do it to all of them at once. A lost
answer to statement n is the failure at point n + 1.

The polling loop. `updates` is what Telegram holds and has not handed out,
`fetched` its last answer, which it forgets (`Poll`) when the library asks for the
next one, `buffer` the channel together with what the library still waits to put
into it, `up` the update at hand. `Receive` takes an update when the handler of the
last one has returned (`At(bot, "idle")`: the call of `confirm_payment` is
synchronous); one action per kind of update handles it. `/forcebuy` calls two
handlers and so takes two steps, `ForceBuy` and `ForceCharge`. `Restart` loses
`buffer`, `up` and `admin`, and gives `fetched` back to `updates`. A `SetMenu` that
fails ends the loop for good (`loop = "stopped"`). An update that is not modelled
(`/start`, `/help`, `/catalog`, wrong arguments, a wrong secret) changes no state.
`Polling` assumes a polling deployment: the bot exists, and the webhook delivers no
payment beside it (`Workers = {bot}`), nor does anybody start purchases over HTTP;
both are in `Fulfilment`.

Telegram is external and modelled by its observable part: the charges it has taken
(`charged`), the notifications that were answered OK (`acked`), the links it
accepted (`sent`). `/forcebuy` invents a charge id nobody has used; to the handler
it is a charge like any other.

## 3. Runs

| Run | Instance | Question |
|---|---|---|
| `race` | 1 purchase, 2 charges for it, 2 overlapping handlers, 2 failures or crashes anywhere, up to 2 provider failures | Does any order of the handlers' statements, the processor's and the failures break the safety of the payment path or the abstract promise? |
| `batch` | 2 purchases of 2 contents, 1 handler, batches of 1 event, 1 failure | Can one purchase's event settle or damage the other's? |
| `live` | 1 purchase, 1 charge, 2 handlers, 1 repeatable failure, 1 provider failure | Does every charge end in a link? |
| `use_access` | 1 token, 3 requests, a clock of 3 instants | Is the first use final, and is everybody refused who asks after it or after the expiry? |
| `catalog` | 3 videos, pages of 2, one change of the library, one edited content on the second page, with and without a blank item before it, 2 prices, any number of scans and edits, 1 failure | Are scans complete, which edits can they undo, does the catalog catch up? |
| `polling` | 1 content, 1 purchase, 1 charge; an `/adminmode`, a `/buy`, a `/forcebuy`, a review, and a second rating over HTTP; channel of 1, at most 1 unfetched update; 1 crash or failed statement of the handler | Is each update handled once, and does the bot keep to `Fulfilment`? |

Each is expected to pass. In `use_access` requests are one-shot, so the system may
stop and deadlock is not an error there.

What the properties of the passing runs say:

* `NoAccessWithoutPayment`: `issue_access` never looks at the status; that a grant
  implies a logged charge follows from the order of statements in
  `confirm_payment` and from nothing else.
* `AckedIsDeliveredOrQueued`: an answered payment is not lost by any failure,
  crash or overlap. (It is weaker than "ends in a link": see `lost_link`.)
* `IssuedHasGrant`, `OneLinkPerPurchase`, `PublishedMeansSent`: row, grants,
  messages and outbox agree although every writer of the row is stale and events
  are duplicated and retried.
* `ErrorMeansExhausted`: a row is in `error` exactly when its attempts are used up,
  though `issue_access` goes on counting there and copies with different counts
  are written over one another.
* `PaymentIsSticky`: a stale copy may take a row from `access_issued` to `paid`,
  but never to before the payment.
* `StaleWritesReopen`: all that stale copies make of a status. Beyond the diagram in
  `src/README.md:497` there are three arrows: from `access_issued` or `error` back to
  `paid`, by a late payment handler, and from `access_issued` to `error`, by an event
  that is handled again. In particular a purchase in `error` is never issued from
  there, though the processor checks the status on its copy only.
* `KeepsPromise`: the refinement of `AccessPromise`, with `paid` the purchases in
  `payment_events`, `granted` the table `access_grants` and `links` the messages.
* `DeliveredIfSellable`: liveness, under the premises in section 4.
* `UsedForEver`, `ValidMeansUsed`, `NoLateUse`; `FreshCopyInv` is what makes them
  inductive.
* `LateIsRefused`: whoever is let in asked no later than the expiry. The code
  checks the expiry on a copy and marks the token later, so `used_at` itself may be
  after the expiry. At the very instant of the expiry the token still counts
  (`now.After`); `src/README.md:901` wants `expires_at > now`, one tick less.
* `NoticeTracked`: a charge that was not answered OK has its notice on its way or in
  the handler, or another charge has paid the purchase: nothing slips between
  Telegram's answer, the channel and the handler. `ServedByPolling` is the same to
  the end: everybody who is charged is sent a link. Both speak of behaviours
  without failures; with one, a payment is lost to the loop, which asks once.
* `OnePurchasePerOrder`, `AdminAsAsked`: updates are handled once, in whatever
  portions they are fetched. After a crash the last answer is handed out again, and
  a `/buy` in it does start a second purchase, an `/adminmode` in it may flip the
  mode: both properties are for behaviours without failures. `AdminAsAsked` is
  relative to one life of the process for that reason too: the set of admins is in
  memory only.
* `FreeMeansAdmin`: what is paid without an invoice was forced after an `/adminmode`,
  crashes included.
* `FirstReviewStays`: the first rating of a purchase stays.
* `MovesForward`: where the bot alone calls `confirm_payment`, no purchase goes back to
  an earlier status; what `stale_write` shows needs two overlapping handlers. It is
  the README's diagram and one arrow more, `access_issued` to `error`: when the
  message cannot be sent or the event not retired, the event is issued again, and
  a provider that fails `MaxRetries` times then puts the purchase in `error`
  (`RegisterIssueAccessFailure` looks at no status). The `polling` run has no provider
  failures; the theorem is for any number of them.
* `BotFulfils`: the refinement of `Fulfilment`'s `Spec`: whatever the bot does to the
  tables is one of `Fulfilment`'s steps.
* `ScanIsComplete`: a scan that ends without an error over a library that stood still
  and has no blank item has upserted every video.
* `EditsOutliveScans`: the hazard of `sync.go:58`, a read and a write of a row with an
  edit in between, does happen, and the property says how far the damage goes. The row
  carries its last edit (`Carries`: same price and visibility, a description that is
  filled in only where it was missing, a deletion undone at most by a fresh row at the
  default price), or it carries what the scan that was between its two statements *at
  that edit* had read. So no scan brings back anything older, none mixes two edits, and
  a deleted content returns with its old price, or hidden, only in that window. It is
  an invariant over any number of later scans, failures and restarts. Both halves are
  needed: without the second TLC finds the lost edit. `/setcontent` writes a copy of the
  row too; what an operator changes between its read and its write is overwritten and
  belongs to its edit.
* `CatalogCatchesUp`: a video that stays in a library without blank items is in the
  catalog again and again. It is about presence only.

Six more runs are expected to find a violation. Each states what
`src/README.md` says, and TLC shows a behaviour of the code that does otherwise:

| Run | `src/README.md` | What happens |
|---|---|---|
| `stale_write` | 497, the lifecycle | the slower of two overlapping confirmations puts an issued purchase back to paid |
| `double_charge` | 304, no content is paid for twice | pre-checkout accepts any invoice whose row exists; the second charge is taken and answered with an error |
| `lost_event` | 580, the scheduler can replay after a failed publication | the purchase is paid, no event exists, the retry is refused, nothing replays |
| `lost_link` | 910-913, the scheduler retries a failed sending | the retry stops at the grant it has already created |
| `starvation` | 109, issuing is guaranteed by the outbox | permanently failing events fill the batch and block later ones |
| `simultaneous_use` | 712, a token cannot be used twice | concurrent requests read the grant unused and are all let in |

Bounds, and why they are enough. The shapes of interest in the payment path need two
writers of one row (two handlers, or one and the processor), a second charge for
one invoice, and one failure after which something is retried; a second failure
adds the retry that fails as well. Handlers beyond two only repeat the second one's
role, for each holds one copy of one row: the theorems, which hold for any number of
everything, confirm it. `AttemptCap` bounds `issue_link_attempts`, which the code
lets grow for ever once the provider keeps failing; it reaches `MaxRetries` in
`race`, so that the status `error` occurs. Two purchases and a batch of one are the
smallest outbox that can be full. Three requests for a token are two that overlap
and one that comes later. Three videos on pages of two are the smallest library
with a second page, and one removal shifts a video across its edge. Both libraries of
`catalog` list the edited video last, so that a scan reaches it over the page's edge,
or does not reach it where the blank item shortens the page. In `polling` the
channel of 1 and a library that fetches whenever it fits give every portion: an
update alone, two in one answer, one waiting for room; several can be in `fetched`,
`buffer` and `up` at once. With one purchase id `/buy` and `/forcebuy` compete for it.
A failure may strike `confirm_payment` at each of its statements or be a crash;
those of the processor are the subject of `race`. Handlers are
interchangeable, so `race` uses symmetry (it checks no liveness).

## 4. Fairness

`LiveSpec` of `Fulfilment` assumes

* weak fairness of the processor: the scheduler's ticker fires every 2 s until the
  process ends and a ticking job runs to its end; a crash is followed by a restart;
* weak fairness of every handler in progress: a goroutine is scheduled;
* strong fairness of the redelivery of a notification without an OK answer: the
  webhook replies 400 to every error and `src/README.md:578` counts on the retry by
  Telegram. Strong, because a free handler comes and goes. The polling loop has
  no such retry: what `live` shows, it shows for the webhook.

`FairPolling` of `Polling` assumes weak fairness of the two goroutines of the bot
(`Begin`, `Poll`; `Receive` and the handlers), of the payment handler it is blocked
on and of the processor. Nobody repeats a payment message. `ServedByPolling` has the
premises that nothing fails, that `SetMenu` does not stop the loop and that the
content stays purchasable.

Nothing makes users buy, statements fail, providers answer badly for ever or
catalogs change. Failures are finite in number by `MaxFaults`; in `live` they are
confined to `RepeatablePoints`, the points from which a repetition gets through.
The remaining points are the subject of `lost_event` and `lost_link` (and of a
failure between the update and the audit row, which ends like `lost_event`). The
provider fails fewer than `MaxRetries` times, for after that the purchase is in
`error` and left to support (`src/README.md:522`).

`LiveSpec` of `Catalog` assumes weak fairness of the sync: its ticker fires and a
scan goes on. `CatalogCatchesUp` is for a video that stays in a library without
blank items: the client drops items without a GUID before `sync.go:64` compares
the length of the page with 100, so that one blank item on a full page ends every
scan there.

## 5. Proofs

`tlapm` proves, for any sets of purchases, contents, charges, workers, tokens,
requests and videos and any bounds, from the assumptions named in the modules:

| Theorem | States |
|---|---|
| `FulfilmentProofs!TypeCorrect` | `Spec => []TypeOK` |
| `FulfilmentProofs!Invariant` | `Spec => []IInv` |
| `FulfilmentProofs!AccessIsPaid` | `Spec => []NoAccessWithoutPayment` |
| `FulfilmentProofs!AckedIsSafe` | `Spec => []AckedIsDeliveredOrQueued` |
| `FulfilmentProofs!IssuedIsGranted`, `OneLink`, `PublishedIsSent` | `Spec => []IssuedHasGrant`, `[]OneLinkPerPurchase`, `[]PublishedMeansSent` |
| `FulfilmentProofs!ErrorIsFinalCount` | `Spec => []ErrorMeansExhausted` |
| `FulfilmentProofs!PaymentsStick` | `Spec => PaymentIsSticky` |
| `FulfilmentProofs!StaleWritesOnlyReopen` | `Spec => StaleWritesReopen` |
| `FulfilmentProofs!PromiseKept` | `Spec => KeepsPromise`, the refinement |
| `PollingProofs!BotIsAHandler` | `PollingSpec => BotFulfils`, the refinement |
| `PollingProofs!PollingInvariant`, `PollingTypes` | `PollingSpec => []PollingInv`, `[]PollingTypeOK` |
| `PollingProofs!NoPaymentSlips` | `PollingSpec => []NoticeTracked` |
| `PollingProofs!FreeIsTheAdmins`, `AccessIsPaidOrForced` | `PollingSpec => []FreeMeansAdmin`, and what it means for access grants |
| `PollingProofs!FirstReviewIsKept` | `PollingSpec => FirstReviewStays` |
| `PollingProofs!PurchasesMoveForward` | `PollingSpec => MovesForward` |
| `PollingProofs!OrdersAreHandledOnce` | `PollingSpec => []OnePurchasePerOrder` |
| `PollingProofs!AdminModeIsAsAsked` | `PollingSpec => []AdminAsAsked` |
| `UseAccessProofs!TypeCorrect`, `CopiesAreFresh`, `LettingInUses` | `Spec => []TypeOK`, `[]FreshCopyInv`, `[]ValidMeansUsed` |
| `UseAccessProofs!OneTime` | `Spec => []NoLateUse` |
| `UseAccessProofs!ExpiryIsKept` | `Spec => []LateIsRefused` |
| `UseAccessProofs!FirstUseIsFinal` | `Spec => UsedForEver` |
| `CatalogProofs!EditsStand` | `Spec => []EditsOutliveScans` |
| `CatalogProofs!Invariant`, `TypeCorrect` | `Spec => []IInv`, `[]TypeOK` |
| `CatalogProofs!ScansAreComplete` | `Spec => []ScanIsComplete` |

The inductive invariant `IInv` of `Fulfilment` is needed because the properties
are about tables only, while the reason they hold is in the handlers' copies. It
has a part per actor. `WorkerInv` says what each statement of `confirm_payment`
leaves for the next: a copy about to be written is paid, a worker past the update
has a paid row, one past the log has its charge in `payment_events`, one past the
publication has its event in the outbox. `RecordInv` says what an event, a key or an
answer means for the payment. `ProcessorInv` says that the processor's copy is a
paid row, that it may say `access_issued` only if a grant exists, and how many
links were sent at each point. `GrantInv` relates grants, rows, links and retired
events.

The argument goes in two layers. First, a step only moves *forward*
(`StepsGoForward`): logs, outbox, keys, grants and paid rows never shrink. So an
actor that does not move keeps its part of the invariant whatever the others do
(`WorkerUnmoved`, `RecordUnmoved`, `ProcessorUnmoved`, `GrantUnmoved`), which is the
interleaving argument made once and not per pair of actions. Then each actor's own
steps keep its part (`WorkerMoved`, ...), action by action. The refinement maps
every step to one payment, one grant, one first link, or a stutter; the first link
is first because of `ProcessorInv`.

`ErrorMeansExhausted` needs `RetryInv`: the rows agree, and so does the copy that
the processor or a handler is about to write. It rests on `IInv` and is proved on
top of it.

`StaleWritesReopen` needs `CopyInv`: between the processor's read of a row and its
write, nobody but a payment handler writes the row, and that makes it `paid`. So the
copy is the row or the row is `paid`, and each of the four writes (`RowWrites`) can
be looked at alone.

`Polling` is proved in three steps. `BotFulfils` is shown action by action, so that
every theorem of `Fulfilment` holds of the bot; `AccessIsPaidOrForced` is one that
uses it. `PollingInv` says what an update on its way tells: a query is for an invoice
that was sent, a notice for a charge that was taken, whatever was handed out
twice. `NoticeTracked` is not inductive: it has to know that a charge in its row and
not yet answered is past the update in the handler (`ChargeInv`), which rests on the
handler being alone (`RowInv`: the charge of a row is the charge of each copy of it).
With overlapping handlers this would be false, and `stale_write` shows it.

`RowInv` also carries `MovesForward`. With one handler a copy is still the row when
it is written: the handler's because the processor leaves pending rows alone, the
processor's (`BeforeSave`) because the handler leaves paid rows alone. So every
write takes the row as it is one step on (`RowMoves`), and `RowInv` says which
statuses come with a charge.

The two counting properties rest on `OnceInv`: while nothing fails a message is in
one place, and there once. What a step does to the messages that are handled is
said once (`HandledMoves`): the message at hand joins them when the loop is done
with it, and no other. Then the number of handled toggles changes with the mode
(`NextToggles`), and an order that is handled starts one purchase or none
(`NextOrders`); `CountInv` holds the two properties and that all the sets counted are
finite.

In `UseAccess` the key is `FreshCopyInv`: a copy that is still unused was read
before anybody was let in with its token. For the expiry it is `ExpiryInv`: a
request that passed the check began no later than the expiry in its copy, and that
is the token's, for no grant's expiry moves.

In `Catalog` the inductive part is how far a scan has come (`ScanInv`): before page
`n` is listed everything on earlier pages was upserted; while page `n` is worked
off, everything up to its end was upserted or waits in `todo`; and a page that does
not count as full is the last. The lemma it turns on is about the client
(`PageOfNoBlanks`): without blank items a page holds every position of its window,
so that its length is what `sync.go:64` takes it for. With one blank item the lemma
is false, and so would the property be without its premise. That an upload, a
removal or a failure during a scan does no harm is only that the premise is gone:
nothing is claimed of what such a scan has seen.

`EditsOutliveScans` is not inductive, for it says nothing of the copy that a scan is
about to write. `CopyInv` does: of the row it is about to write a scan holds a copy that
carries the last edit or what was read before it. A read makes the copy the row, of which
the property holds (`NextEdits`); an edit in between takes note of the copy
(`EditsAreRecent`); and the write makes of the copy a row that carries whatever the copy
does (`SyncedCarries`, the lemma about `Synced`, `UpsertsAreRecent`). `OneTurn` says that a
scan has one such row at a time, so that the edits of other contents do not matter.

Only model-checked: `DeliveredIfSellable`, `ServedByPolling` and `CatalogCatchesUp`
(liveness is out of the prover's reach). Every other property of the passing runs
is stated by a theorem.

## 6. Not modelled

* The redis cache: `use_access` discards what it reads from it and every error.
* Amounts, prices of a purchase and users: pre-checkout compares them with the row
  they were taken from. One buyer per purchase.
* Title and `external_ref` of a content: every scan sets them from the library,
  including what an admin typed.
* Links, signatures, message texts, JSON, routing, configuration, the secret
  checks. Users and their texts in the bot, but for the operator's admin mode.
* `BotEnabled = FALSE`: with `TELEGRAM_POLLING` off, and outside production after a
  failed `NewBot`, there is no bot and `Sender` drops every link and reports success.
  Nothing of what is said about links holds there.
* `Purchase.MarkExpired`, which nothing calls: no purchase becomes `expired`,
  although `src/README.md:521` says the scheduler does it.
* `request_review`, which nothing calls, and so `review_requested_at`; text and author
  of a review.
* The `user` repository, which no handler uses.

## 7. Plan

Done: `PurchaseStore`, `ConfirmPayment`, `IssueAccess`, `Fulfilment`, `AccessPromise`,
`Polling`, `UseAccess`, `Catalog` and their proofs.

What could come next:

1. Composition of `Catalog` with `Fulfilment`: `EditCatalog` refined by `Catalog`'s
   writers, and of `UseAccess` with `IssueAccess`: a token for each grant.
2. `Polling` with more messages: two toggles and two purchases multiply the states of
   `polling` beyond a few minutes of TLC.
3. What a manual repair of a purchase in `error` must restore for its delivery to go
   on.
