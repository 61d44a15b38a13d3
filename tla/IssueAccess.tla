---------------------------- MODULE IssueAccess ----------------------------
(***************************************************************************)
(* The outbox processor (one goroutine, driven by the scheduler's ticker)  *)
(* and issue_access.Handler, which it calls for each event of a batch.     *)
(***************************************************************************)
EXTENDS PurchaseStore

CONSTANTS
  BatchLimit,   \* events RunOnce reads per tick (20 in the code)
  BotEnabled    \* a Sender without a bot drops messages and reports success

ASSUME IssueAssumption ==
  /\ BatchLimit \in Nat \ {0}
  /\ BotEnabled \in BOOLEAN

VARIABLES
  accessGrants,  \* table access_grants: purchases that have a grant
  sent,          \* Telegram: access links it accepted, per purchase
  proc           \* the processor: program point, rest of the batch, event, row

issueVars == <<accessGrants, sent, proc>>

IssuePoint ==
  {"idle", "next", "content", "provider", "create", "save", "send", "settle"}

Asleep == [pc |-> "idle", batch |-> {}, event |-> 0, row |-> NoRow]
Between(batch) == [pc |-> "next", batch |-> batch, event |-> 0, row |-> NoRow]

\* An event is being handled.
Busy == proc.pc \notin {"idle", "next"}

IssueTypeOK ==
  /\ accessGrants \subseteq Purchases
  /\ sent \in [Purchases -> Nat]
  /\ proc \in [pc : IssuePoint, batch : SUBSET (1 .. Len(outboxEvents)),
               event : Nat, row : Row]
  /\ Busy => proc.event \in 1 .. Len(outboxEvents)

IssueInit ==
  /\ accessGrants = {}
  /\ sent = [p \in Purchases |-> 0]
  /\ proc = Asleep

\* The purchase of the event being handled.
Current == outboxEvents[proc.event]

\* Handle returns: RunOnce goes on with the rest of the batch.
NextEvent == proc' = Between(proc.batch)

\* Outbox.Unpublished: the oldest BatchLimit unpublished events.
Batch == {i \in UnpublishedIds :
            Cardinality({j \in UnpublishedIds : j < i}) < BatchLimit}

\* A tick of the scheduler that finds something to do.
Tick ==
  /\ proc.pc = "idle"
  /\ Batch # {}
  /\ proc' = Between(Batch)
  /\ UNCHANGED <<storeVars, accessGrants, sent>>

EndOfBatch ==
  /\ proc.pc = "next"
  /\ proc.batch = {}
  /\ proc' = Asleep
  /\ UNCHANGED <<storeVars, accessGrants, sent>>

\* The next event and Purchases.GetByID: the purchase must be there, but its
\* status is not looked at.  (If that read fails the event is passed over,
\* just as when the next read, at "content", fails.)
LoadEvent ==
  /\ proc.pc = "next"
  /\ \E i \in proc.batch :
       LET row == purchases[outboxEvents[i]]
           rest == proc.batch \ {i}
       IN
       /\ \A j \in rest : i < j
       /\ proc' = IF row.status = "none"
                  THEN Between(rest)
                  ELSE [pc |-> "content", batch |-> rest, event |-> i, row |-> row]
  /\ UNCHANGED <<storeVars, accessGrants, sent>>

\* Contents.GetByID: only a content that can be bought is delivered.
CheckContent ==
  /\ proc.pc = "content"
  /\ IF CanBePurchased(ContentOf[Current])
     THEN proc' = [proc EXCEPT !.pc = "provider"]
     ELSE NextEvent
  /\ UNCHANGED <<storeVars, accessGrants, sent>>

\* Provider.IssueAccessLink answers with a link.
ProviderAnswers ==
  /\ proc.pc = "provider"
  /\ proc' = [proc EXCEPT !.pc = "create"]
  /\ UNCHANGED <<storeVars, accessGrants, sent>>

\* Provider.IssueAccessLink fails: the attempt is counted on the copy read
\* when the event was loaded, and the whole copy is written back.  (That
\* write's own error is ignored: then it is IssueFails.)
ProviderFails ==
  LET row == RegisterIssueAccessFailure(proc.row) IN
  /\ proc.pc = "provider"
  /\ proc.row.attempts < AttemptCap
  /\ UpdateRow(Current, row)
  /\ NextEvent
  /\ UNCHANGED <<content, paymentEvents, idempotencyKeys, outboxEvents,
                 published, faults, accessGrants, sent>>

\* Mutant: the insert of a second grant for a purchase is not refused.
CreateGrantAgain ==
  /\ proc.pc = "create"
  /\ proc' = [proc EXCEPT !.pc = "save"]
  /\ accessGrants' = accessGrants \cup {Current}
  /\ UNCHANGED <<storeVars, sent>>

\* Mutant: the grant is not inserted.
CreateGrantNot ==
  /\ proc.pc = "create"
  /\ IF Current \in accessGrants
     THEN NextEvent
     ELSE proc' = [proc EXCEPT !.pc = "save"]
  /\ UNCHANGED <<storeVars, accessGrants, sent>>

\* Grants.Create, refused by the unique grant id when the purchase has one.
\* The Cache.Put that follows is left out: its failure is ignored, and no
\* answer of use_access depends on what the cache holds.
CreateGrant ==
  /\ proc.pc = "create"
  /\ IF Current \in accessGrants
     THEN NextEvent /\ UNCHANGED accessGrants
     ELSE /\ proc' = [proc EXCEPT !.pc = "save"]
          /\ accessGrants' = accessGrants \cup {Current}
  /\ UNCHANGED <<storeVars, sent>>

\* Mutant: MarkAccessIssued accepts a purchase in any status.
SaveIssuedAnyStatus ==
  /\ proc.pc = "save"
  /\ UpdateRow(Current, MarkAccessIssued(proc.row))
  /\ proc' = [proc EXCEPT !.pc = "send"]
  /\ UNCHANGED <<content, paymentEvents, idempotencyKeys, outboxEvents,
                 published, faults, accessGrants, sent>>

\* MarkAccessIssued on the copy read at the start, and Purchases.Update.
SaveIssued ==
  LET row == MarkAccessIssued(proc.row) IN
  /\ proc.pc = "save"
  /\ IF proc.row.status = "paid"
     THEN UpdateRow(Current, row) /\ proc' = [proc EXCEPT !.pc = "send"]
     ELSE UNCHANGED purchases /\ NextEvent
  /\ UNCHANGED <<content, paymentEvents, idempotencyKeys, outboxEvents,
                 published, faults, accessGrants, sent>>

\* Sender.SendAccessLink: Telegram accepts the message.
SendLink ==
  /\ proc.pc = "send"
  /\ sent' = IF BotEnabled THEN [sent EXCEPT ![Current] = @ + 1] ELSE sent
  /\ proc' = [proc EXCEPT !.pc = "settle"]
  /\ UNCHANGED <<storeVars, accessGrants>>

\* Mutant: the whole outbox is marked, not the event that was handled.
MarkPublishedAll ==
  /\ proc.pc = "settle"
  /\ published' = 1 .. Len(outboxEvents)
  /\ NextEvent
  /\ UNCHANGED <<purchases, content, paymentEvents, idempotencyKeys,
                 outboxEvents, faults, accessGrants, sent>>

\* Handle returned nil: Outbox.MarkPublished.
MarkPublished ==
  /\ proc.pc = "settle"
  /\ published' = published \cup {proc.event}
  /\ NextEvent
  /\ UNCHANGED <<purchases, content, paymentEvents, idempotencyKeys,
                 outboxEvents, faults, accessGrants, sent>>

\* Mutant: an event whose handler failed is marked as published.
IssueFailsButPublished ==
  /\ FaultAt(proc.pc)
  /\ NextEvent
  /\ published' = published \cup {proc.event}
  /\ UNCHANGED <<purchases, content, paymentEvents, idempotencyKeys,
                 outboxEvents, accessGrants, sent>>

\* The call at the processor's point fails: Handle returns the error and
\* RunOnce continues; the error of MarkPublished is ignored.
IssueFails ==
  /\ FaultAt(proc.pc)
  /\ NextEvent
  /\ UNCHANGED <<purchases, content, paymentEvents, idempotencyKeys,
                 outboxEvents, published, accessGrants, sent>>

ProcessorStep ==
  \/ Tick
  \/ EndOfBatch
  \/ LoadEvent
  \/ CheckContent
  \/ ProviderAnswers
  \/ ProviderFails
  \/ CreateGrant
  \/ SaveIssued
  \/ SendLink
  \/ MarkPublished
=============================================================================
