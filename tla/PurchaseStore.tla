--------------------------- MODULE PurchaseStore ---------------------------
(***************************************************************************)
(* The Postgres tables the payment and issuance handlers share, and the    *)
(* methods of the Purchase entity that compute a new row.                  *)
(*                                                                         *)
(* Every repository call in the code is one autocommitted SQL statement:   *)
(* no handler opens a transaction.  So a handler that reads a row, changes *)
(* its copy and calls Update is modelled by separate read and write        *)
(* actions, and Update writes back the WHOLE row it read.                  *)
(***************************************************************************)
EXTENDS Integers, FiniteSets, Sequences

CONSTANTS
  Purchases,      \* the purchase ids idgen will hand out
  Contents,       \* content ids
  Charges,        \* Telegram charge ids, one per payment
  NoCharge,       \* telegram_charge_id IS NULL
  PurchaseOf,     \* the purchase whose invoice payload a charge carries
  ContentOf,      \* the content a purchase is for
  MaxRetries,     \* issue_access.Handler.MaxRetries
  AttemptCap,     \* bound: issue_link_attempts stays at or below it
  FaultPoints,    \* the program points where a statement may fail
  MaxFaults       \* bound: failed statements and crashes in a behaviour

ASSUME NoChargeAssumption == NoCharge \notin Charges
ASSUME PurchaseOfAssumption == PurchaseOf \in [Charges -> Purchases]
ASSUME ContentOfAssumption == ContentOf \in [Purchases -> Contents]
ASSUME BoundAssumption ==
  /\ MaxRetries \in Nat \ {0}
  /\ AttemptCap \in Nat
  /\ MaxFaults \in Nat

VARIABLES
  purchases,        \* table purchases
  content,          \* table content, reduced to whether a row can be bought
  paymentEvents,    \* table payment_events: the charge ids logged
  idempotencyKeys,  \* table idempotency_keys: the charge ids processed
  outboxEvents,     \* table outbox_events in created_at order: purchase ids
  published,        \* positions of outboxEvents whose published is TRUE
  faults            \* failed statements and crashes so far

storeVars == <<purchases, content, paymentEvents, idempotencyKeys,
               outboxEvents, published, faults>>

Status == {"none", "pending", "paid", "access_issued", "expired", "error"}

\* Of a purchases row, the columns some handler changes.  Status "none" is
\* the absence of the row.
Row == [status : Status, charge : Charges \cup {NoCharge}, attempts : Nat]
NoRow == [status |-> "none", charge |-> NoCharge, attempts |-> 0]

\* "inactive" is active = FALSE: no code writes it, operators do by SQL.
ContentStatus == {"absent", "inactive", "active"}

StoreTypeOK ==
  /\ purchases \in [Purchases -> Row]
  /\ content \in [Contents -> ContentStatus]
  /\ paymentEvents \subseteq Charges
  /\ idempotencyKeys \subseteq Charges
  /\ outboxEvents \in Seq(Purchases)
  /\ published \subseteq 1 .. Len(outboxEvents)
  /\ faults \in Nat

StoreInit ==
  /\ purchases = [p \in Purchases |-> NoRow]
  /\ content = [k \in Contents |-> "active"]
  /\ paymentEvents = {}
  /\ idempotencyKeys = {}
  /\ outboxEvents = << >>
  /\ published = {}
  /\ faults = 0

(***************************************************************************)
(* The Purchase entity.                                                    *)
(***************************************************************************)
\* Mutant: the new purchase is left without a status.
PendingRowUnset == [NoRow EXCEPT !.status = ""]

PendingRow == [NoRow EXCEPT !.status = "pending"]

MarkPaid(row, c) ==
  [status |-> "paid", charge |-> c, attempts |-> row.attempts]

MarkAccessIssued(row) == [row EXCEPT !.status = "access_issued"]

\* Mutant: one attempt too many is allowed.
RegisterIssueAccessFailureLate(row) ==
  [status |-> IF row.attempts >= MaxRetries THEN "error" ELSE row.status,
   charge |-> row.charge,
   attempts |-> row.attempts + 1]

RegisterIssueAccessFailure(row) ==
  [status |-> IF row.attempts + 1 >= MaxRetries THEN "error" ELSE row.status,
   charge |-> row.charge,
   attempts |-> row.attempts + 1]

CanBePurchased(k) == content[k] = "active"

(***************************************************************************)
(* SQL statements.                                                         *)
(***************************************************************************)
\* The UNIQUE telegram_charge_id never refuses the row: a charge carries the
\* payload of one purchase, so no other row can hold it.
UpdateRow(p, row) == purchases' = [purchases EXCEPT ![p] = row]

PublishPurchaseConfirmed(p) == outboxEvents' = Append(outboxEvents, p)

UnpublishedIds == (1 .. Len(outboxEvents)) \ published

\* A statement at program point pc fails: the database is unreachable, the
\* request context is cancelled, or the process is killed there.
FaultAt(pc) ==
  /\ pc \in FaultPoints
  /\ faults < MaxFaults
  /\ faults' = faults + 1
=============================================================================
