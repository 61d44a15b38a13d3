------------------------------ MODULE Catalog ------------------------------
(***************************************************************************)
(* The content table and its three writers: the library sync (one          *)
(* goroutine, one scan at a time), the admin commands of the bot (one      *)
(* goroutine, one command at a time) and operators with SQL.               *)
(*                                                                         *)
(* Sync and /setcontent read a row, change a copy and write the whole copy *)
(* back in a second statement.                                             *)
(*                                                                         *)
(* A scan asks the provider for one page of the library after the other,   *)
(* while videos come and go.  Title and external_ref are left out: every   *)
(* scan sets them from the library, whatever an admin wrote there.         *)
(***************************************************************************)
EXTENDS Integers, FiniteSets, Sequences

CONSTANTS
  Videos,        \* GUIDs of the library, which sync takes as content ids
  Edited,        \* bound: the contents that admins and operators touch
  Blank,         \* an item of the library without a GUID
  Prices,        \* prices an admin types
  DefaultPrice,  \* defaultPrice: of a video that has no row yet
  PageSize,      \* items per page (100 in the code)
  Libraries,     \* bound: what the library holds when the program starts
  MaxChanges,    \* bound: changes of the library in a behaviour
  MaxFaults      \* bound: failed scans and crashes in a behaviour

ASSUME CatalogAssumption ==
  /\ Edited \subseteq Videos
  /\ Blank \notin Videos
  /\ DefaultPrice \in Prices
  /\ Prices \subseteq Nat \ {0}
  /\ PageSize \in Nat \ {0}
  /\ Libraries \subseteq Seq(Videos \cup {Blank})
  /\ MaxChanges \in Nat /\ MaxFaults \in Nat

VARIABLES
  library,  \* the provider: its items in the order it lists them
  rows,     \* table content
  sync,     \* the scan: point, page, rest of the page, whether the page was full, copy
  admin,    \* the command: point, content, copy
  changes,  \* changes of the library so far
  faults,   \* failures so far
  scan,     \* history: contents upserted by the last scan, whether it ran to
            \* its end, and whether the library stood still
  edits     \* history: per content, the row as its last edit left it, and the
            \* row as a scan that had not written it yet had read it then

vars == <<library, rows, sync, admin, changes, faults, scan, edits>>

\* A description is none, the library's or an admin's.
Author == {"none", "library", "admin"}
NoRow == [there |-> FALSE, price |-> 0, active |-> FALSE, description |-> "none"]
Row == {NoRow} \cup [there : {TRUE}, price : Nat, active : BOOLEAN, description : Author]
Content(p, active, description) ==
  [there |-> TRUE, price |-> p, active |-> active, description |-> description]

\* A video on a page, and where in the library it was listed.
Listed == [at : Nat, id : Videos]

Resting == [pc |-> "idle", page |-> 0, todo |-> {}, full |-> FALSE, copy |-> NoRow]
Listing(n) == [pc |-> "list", page |-> n, todo |-> {}, full |-> FALSE, copy |-> NoRow]
NoCommand(v) == [pc |-> "idle", id |-> v, copy |-> NoRow]

SyncTypeOK ==
  /\ sync \in [pc : {"idle", "list", "read", "upsert"}, page : Nat,
               todo : SUBSET Listed, full : BOOLEAN, copy : Row]
  /\ sync.pc # "idle" => sync.page > 0
  /\ sync.pc \in {"read", "upsert"} <=> sync.todo # {}

TypeOK ==
  /\ library \in Seq(Videos \cup {Blank})
  /\ rows \in [Videos -> Row]
  /\ SyncTypeOK
  /\ admin \in [pc : {"idle", "set"}, id : Videos, copy : Row]
  /\ changes \in Nat /\ faults \in Nat
  /\ scan \in [seen : SUBSET Videos, ended : BOOLEAN, still : BOOLEAN]
  /\ edits \in [Videos -> [last : Row, read : Row]]

Init ==
  /\ library \in Libraries
  /\ rows = [v \in Videos |-> NoRow]
  /\ sync = Resting
  /\ \E v \in Videos : admin = NoCommand(v)
  /\ changes = 0 /\ faults = 0
  /\ scan = [seen |-> {}, ended |-> FALSE, still |-> FALSE]
  /\ edits = [v \in Videos |-> [last |-> NoRow, read |-> NoRow]]

InLibrary(v) == \E i \in DOMAIN library : library[i] = v

-----------------------------------------------------------------------------
(* The provider. *)

ChangeLibrary ==
  /\ changes < MaxChanges
  /\ changes' = changes + 1
  /\ scan' = [scan EXCEPT !.still = FALSE]
  /\ UNCHANGED <<rows, sync, admin, faults, edits>>

\* A video, or an item without a GUID, appears anywhere in the list.
Upload(v) ==
  /\ ~ InLibrary(v)
  /\ \E n \in 0 .. Len(library) :
       library' = SubSeq(library, 1, n) \o <<v>> \o SubSeq(library, n + 1, Len(library))
  /\ ChangeLibrary

Remove ==
  /\ \E n \in DOMAIN library :
       library' = SubSeq(library, 1, n - 1) \o SubSeq(library, n + 1, Len(library))
  /\ ChangeLibrary

\* The positions of page n, which at the end of the library are fewer.
Window(n) ==
  (n - 1) * PageSize + 1 ..
    IF n * PageSize < Len(library) THEN n * PageSize ELSE Len(library)

\* Mutants: items without a GUID are not dropped, and pages count from 0.
PageUnfiltered(n) == {[at |-> i, id |-> library[i]] : i \in Window(n)}
PageFromZero(n) ==
  {[at |-> i, id |-> library[i]] : i \in {j \in Window(n + 1) : library[j] # Blank}}

\* What ListLibraryVideos makes of page n: the items that have a GUID.
Page(n) ==
  {[at |-> i, id |-> library[i]] : i \in {j \in Window(n) : library[j] # Blank}}

-----------------------------------------------------------------------------
(* SyncLibraryContent. *)

EndScan(ended) ==
  /\ sync' = Resting
  /\ scan' = [scan EXCEPT !.ended = ended]

\* The scan at startup, or a tick of the sync's ticker.
StartScan ==
  /\ sync.pc = "idle"
  /\ sync' = Listing(1)
  /\ scan' = [seen |-> {}, ended |-> FALSE, still |-> TRUE]
  /\ UNCHANGED <<library, rows, admin, changes, faults, edits>>

\* Mutant: the test for a short page is one off, and ends the scan after a
\* full page.
ListPageShort ==
  LET videos == Page(sync.page) IN
  /\ sync.pc = "list"
  /\ IF videos = {}
     THEN EndScan(TRUE)
     ELSE /\ sync' = [pc |-> "read", page |-> sync.page, todo |-> videos,
                      full |-> Cardinality(videos) > PageSize, copy |-> NoRow]
          /\ UNCHANGED scan
  /\ UNCHANGED <<library, rows, admin, changes, faults, edits>>

\* An empty page ends the scan.  A page is taken for full when PageSize
\* videos are left of it, that is, after items without a GUID were dropped.
ListPage ==
  LET videos == Page(sync.page) IN
  /\ sync.pc = "list"
  /\ IF videos = {}
     THEN EndScan(TRUE)
     ELSE /\ sync' = [pc |-> "read", page |-> sync.page, todo |-> videos,
                      full |-> Cardinality(videos) >= PageSize, copy |-> NoRow]
          /\ UNCHANGED scan
  /\ UNCHANGED <<library, rows, admin, changes, faults, edits>>

\* The videos of a page are taken in the order they were listed in.
Turn(t) == \A u \in sync.todo \ {t} : t.at < u.at

\* repo.GetByID.
ReadRow ==
  /\ sync.pc = "read"
  /\ \E t \in sync.todo :
       /\ Turn(t)
       /\ sync' = [sync EXCEPT !.pc = "upsert", !.copy = rows[t.id]]
  /\ UNCHANGED <<library, rows, admin, changes, faults, scan, edits>>

\* Mutant: the price of a content that is there is not kept.
SyncedAtDefault(copy) ==
  IF copy.there
  THEN Content(DefaultPrice, copy.active, copy.description)
  ELSE Content(DefaultPrice, TRUE, "library")

\* The item written for a video: price, active and a description that is
\* not empty are those of the copy.  (Every video has a description.)
Synced(copy) ==
  IF copy.there
  THEN Content(copy.price, copy.active,
                IF copy.description = "none" THEN "library" ELSE copy.description)
  ELSE Content(DefaultPrice, TRUE, "library")

\* repo.Upsert, then the next video of the page or, after a full page, the
\* next page.
UpsertRow ==
  /\ sync.pc = "upsert"
  /\ \E t \in sync.todo :
       LET rest == sync.todo \ {t}
           upserted == [scan EXCEPT !.seen = @ \cup {t.id}]
       IN
       /\ Turn(t)
       /\ rows' = [rows EXCEPT ![t.id] = Synced(sync.copy)]
       /\ \/ /\ rest # {}
             /\ sync' = [sync EXCEPT !.pc = "read", !.todo = rest]
             /\ scan' = upserted
          \/ /\ rest = {} /\ sync.full
             /\ sync' = Listing(sync.page + 1)
             /\ scan' = upserted
          \/ /\ rest = {} /\ ~ sync.full
             /\ sync' = Resting
             /\ scan' = [upserted EXCEPT !.ended = TRUE]
  /\ UNCHANGED <<library, admin, changes, faults, edits>>

\* A request or a statement of the scan fails: the scan is given up, what it
\* has written stays, and the next tick starts over.
ScanFails ==
  /\ sync.pc # "idle"
  /\ faults < MaxFaults
  /\ faults' = faults + 1
  /\ EndScan(FALSE)
  /\ UNCHANGED <<library, rows, admin, changes, edits>>

SyncStep == StartScan \/ ListPage \/ ReadRow \/ UpsertRow

-----------------------------------------------------------------------------
(* The admin commands and the operators. *)

\* A scan has read row v and not written it yet.
Scanning(v) == sync.pc = "upsert" /\ \E t \in sync.todo : Turn(t) /\ t.id = v

Edit(v, row) ==
  /\ rows' = [rows EXCEPT ![v] = row]
  /\ edits' = [edits EXCEPT ![v] =
                 [last |-> row, read |-> IF Scanning(v) THEN sync.copy ELSE row]]

\* /createcontent: an upsert of a whole new row, whatever is there.
CreateContent(v) ==
  /\ admin.pc = "idle"
  /\ \E p \in Prices, d \in {"none", "admin"} : Edit(v, Content(p, TRUE, d))
  /\ UNCHANGED <<library, sync, admin, changes, faults, scan>>

\* /deletecontent.
DeleteContent(v) ==
  /\ admin.pc = "idle"
  /\ Edit(v, NoRow)
  /\ UNCHANGED <<library, sync, admin, changes, faults, scan>>

\* /setcontent, first statement: the content must be there.
ReadForEdit(v) ==
  /\ admin.pc = "idle"
  /\ rows[v].there
  /\ admin' = [pc |-> "set", id |-> v, copy |-> rows[v]]
  /\ UNCHANGED <<library, rows, sync, changes, faults, scan, edits>>

\* /setcontent, second statement: the new price, and a new description if
\* one was typed, in the copy.  If the statement fails nothing is written.
WriteEdit ==
  /\ admin.pc = "set"
  /\ \/ \E p \in Prices, d \in {admin.copy.description, "admin"} :
          Edit(admin.id, Content(p, admin.copy.active, d))
     \/ UNCHANGED <<rows, edits>>
  /\ admin' = NoCommand(admin.id)
  /\ UNCHANGED <<library, sync, changes, faults, scan>>

\* An operator hides or shows a content: no code writes active = FALSE.
FlipActive(v) ==
  /\ rows[v].there
  /\ Edit(v, Content(rows[v].price, ~ rows[v].active, rows[v].description))
  /\ UNCHANGED <<library, sync, admin, changes, faults, scan>>

-----------------------------------------------------------------------------

\* The process dies and is started again.
Restart ==
  /\ faults < MaxFaults
  /\ faults' = faults + 1
  /\ EndScan(FALSE)
  /\ admin' = NoCommand(admin.id)
  /\ UNCHANGED <<library, rows, changes, edits>>

Next ==
  \/ \E v \in Videos \cup {Blank} : Upload(v)
  \/ Remove
  \/ SyncStep
  \/ ScanFails
  \/ \E v \in Edited :
       CreateContent(v) \/ DeleteContent(v) \/ ReadForEdit(v) \/ FlipActive(v)
  \/ WriteEdit
  \/ Restart

Spec == Init /\ [][Next]_vars

\* The ticker of the sync fires for ever and a scan that runs goes on.
LiveSpec == Spec /\ WF_vars(SyncStep)

-----------------------------------------------------------------------------

\* What scans may make of an edit: they fill in a missing description, and
\* bring back a content that was deleted, as a new one.
Carries(row, edit) ==
  IF edit.there
  THEN /\ row.there /\ row.price = edit.price /\ row.active = edit.active
       /\ edit.description \in {"none", row.description}
  ELSE row \in {NoRow, Content(DefaultPrice, TRUE, "library")}

\* However many scans, failures and restarts follow it, the last edit of a
\* content stands, or the row is what a scan that was under way had read before
\* the edit.  Nothing older comes back, no mixture of two edits, and a deleted
\* content returns with its old price or hidden only in that one case.
EditsOutliveScans ==
  \A v \in Videos : Carries(rows[v], edits[v].last) \/ Carries(rows[v], edits[v].read)

HasBlank == InLibrary(Blank)

\* A scan that ends without an error over a library that stood still, all of
\* whose items have a GUID, has upserted every video, on whichever page.
ScanIsComplete ==
  scan.ended /\ scan.still /\ ~ HasBlank =>
    \A v \in Videos : InLibrary(v) => v \in scan.seen

\* A video that stays in a library without blank items is in the catalog
\* again and again, whatever failed, moved between pages during a scan or was
\* deleted by an admin.
CatalogCatchesUp ==
  \A v \in Videos :
    <>[](InLibrary(v) /\ ~ HasBlank) => []<>(rows[v].there)

-----------------------------------------------------------------------------
(***************************************************************************)
(* The inductive invariant: how far a scan has come, and what it copied.   *)
(***************************************************************************)
\* Every item up to position n was upserted, or waits in the rest of the page.
CoveredUpTo(n) ==
  \A i \in DOMAIN library :
    i <= n => library[i] \in scan.seen \/ [at |-> i, id |-> library[i]] \in sync.todo

ScanInv ==
  scan.still /\ ~ HasBlank =>
    /\ sync.pc = "list" => CoveredUpTo((sync.page - 1) * PageSize)
    /\ sync.pc \in {"read", "upsert"} =>
         /\ CoveredUpTo(sync.page * PageSize)
         /\ ~ sync.full => Len(library) <= sync.page * PageSize

\* The copy that a scan is about to write is as old as the edits allow.
CopyInv ==
  \A v \in Videos :
    Scanning(v) =>
      Carries(sync.copy, edits[v].last) \/ Carries(sync.copy, edits[v].read)

IInv ==
  /\ TypeOK
  /\ ScanInv
  /\ ScanIsComplete
  /\ CopyInv
  /\ EditsOutliveScans
=============================================================================
