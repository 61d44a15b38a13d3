--------------------------- MODULE CatalogProofs ---------------------------
(***************************************************************************)
(* Theorems of Catalog for any library, page size and number of edits.     *)
(***************************************************************************)
EXTENDS Catalog, FiniteSetTheorems, FunctionTheorems, SequenceTheorems, TLAPS

-----------------------------------------------------------------------------
(***************************************************************************)
(* Pages.                                                                  *)
(***************************************************************************)
\* A page holds videos of the library, at the positions of its window.
LEMMA PageOfVideos ==
  ASSUME TypeOK, NEW n \in Nat \ {0}
  PROVE  /\ Window(n) \subseteq DOMAIN library
         /\ Page(n) \subseteq Listed
<1>1. (n - 1) * PageSize \in Nat /\ n * PageSize \in Nat
  BY CatalogAssumption
<1>2. Len(library) \in Nat /\ DOMAIN library = 1 .. Len(library)
  BY DEF TypeOK
<1>3. Window(n) \subseteq 1 .. Len(library)
  BY <1>1, <1>2 DEF Window
<1>4. ASSUME NEW i \in Window(n), library[i] # Blank
      PROVE  [at |-> i, id |-> library[i]] \in Listed
  BY <1>2, <1>3, <1>4 DEF TypeOK, Listed
<1> QED
  BY <1>2, <1>3, <1>4 DEF Page

\* Without blank items an empty page is past the end of the library, and one
\* of fewer than PageSize videos reaches its end.
LEMMA PageOfNoBlanks ==
  ASSUME TypeOK, ~ HasBlank, NEW n \in Nat \ {0}
  PROVE  /\ \A i \in DOMAIN library :
              (n - 1) * PageSize < i /\ i <= n * PageSize
                => [at |-> i, id |-> library[i]] \in Page(n)
         /\ Page(n) = {} => Len(library) <= (n - 1) * PageSize
         /\ ~ (Cardinality(Page(n)) >= PageSize) => Len(library) <= n * PageSize
<1> DEFINE a == (n - 1) * PageSize
           b == n * PageSize
           last == IF b < Len(library) THEN b ELSE Len(library)
           f == [i \in Window(n) |-> [at |-> i, id |-> library[i]]]
<1>1. a \in Nat /\ b \in Nat /\ b = a + PageSize /\ PageSize \in Nat \ {0}
  BY CatalogAssumption
<1>2. Len(library) \in Nat /\ DOMAIN library = 1 .. Len(library)
  BY DEF TypeOK
<1>3. /\ Window(n) = a + 1 .. last
      /\ last \in Int /\ a + 1 \in Int /\ last - (a + 1) + 1 = last - a
  BY <1>1, <1>2 DEF Window
<1>4. \A i \in Window(n) : library[i] # Blank
  BY PageOfVideos DEF HasBlank, InLibrary
<1>5. Page(n) = {[at |-> i, id |-> library[i]] : i \in Window(n)}
  BY <1>4 DEF Page
<1>6. Cardinality(Page(n)) = Cardinality(Window(n))
  <2>1. /\ f \in [Window(n) -> Page(n)]
        /\ \A i, j \in Window(n) : f[i] = f[j] => i = j
        /\ \A t \in Page(n) : \E i \in Window(n) : f[i] = t
    BY <1>5
  <2>2. f \in Bijection(Window(n), Page(n))
    BY <2>1, Fun_IsBij
  <2>3. ExistsBijection(Window(n), Page(n))
    BY <2>2, Fun_ExistsBij
  <2>4. IsFiniteSet(Window(n))
    <3> HIDE DEF last
    <3> QED
      BY <1>3, FS_Interval
  <2> QED
    BY <2>3, <2>4, FS_Bijection
<1> HIDE DEF a, b
<1>7. Cardinality(Window(n)) = IF a + 1 > last THEN 0 ELSE last - a
  <2> HIDE DEF last
  <2> QED
    BY <1>3, FS_Interval
<1>8. ASSUME NEW i \in DOMAIN library, a < i, i <= b
      PROVE  [at |-> i, id |-> library[i]] \in Page(n)
  <2>1. i \in Window(n)
    BY <1>1, <1>2, <1>3, <1>8
  <2> QED
    BY <1>5, <2>1
<1>9. ASSUME Page(n) = {} PROVE Len(library) <= a
  <2>1. a + 1 \notin Window(n)
    BY <1>5, <1>9
  <2> QED
    BY <1>1, <1>2, <1>3, <2>1
<1>10. ASSUME ~ (Cardinality(Page(n)) >= PageSize) PROVE Len(library) <= b
  BY <1>1, <1>2, <1>6, <1>7, <1>10
<1> QED
  BY <1>8, <1>9, <1>10 DEF a, b

-----------------------------------------------------------------------------
(***************************************************************************)
(* Types.                                                                  *)
(***************************************************************************)
\* The fields of a row.
LEMMA RowFields ==
  ASSUME NEW row \in Row
  PROVE  row.price \in Nat /\ row.active \in BOOLEAN /\ row.description \in Author
<1>1. CASE row = NoRow
  BY <1>1 DEF NoRow, Author
<1>2. CASE row \in [there : {TRUE}, price : Nat, active : BOOLEAN, description : Author]
  BY <1>2
<1> QED
  BY <1>1, <1>2 DEF Row

\* What is written to a row is one.
LEMMA RowType ==
  /\ NoRow \in Row
  /\ \A p \in Nat, active \in BOOLEAN, d \in Author : Content(p, active, d) \in Row
  /\ \A copy \in Row : Synced(copy) \in Row
<1>1. NoRow \in Row
  BY DEF Row
<1>2. \A p \in Nat, active \in BOOLEAN, d \in Author : Content(p, active, d) \in Row
  BY DEF Content, Row
<1>3. DefaultPrice \in Nat /\ "library" \in Author
  BY CatalogAssumption DEF Author
<1>4. ASSUME NEW copy \in Row PROVE Synced(copy) \in Row
  <2>1. copy.price \in Nat /\ copy.active \in BOOLEAN /\ copy.description \in Author
    BY <1>4, RowFields
  <2>2. CASE copy.there
    <3>1. \E d \in Author : Synced(copy) = Content(copy.price, copy.active, d)
      BY <1>3, <2>1, <2>2 DEF Synced
    <3> QED
      BY <1>2, <2>1, <3>1
  <2>3. CASE ~ copy.there
    <3>1. Synced(copy) = Content(DefaultPrice, TRUE, "library")
      BY <2>3 DEF Synced
    <3> QED
      BY <1>2, <1>3, <3>1
  <2> QED
    BY <2>2, <2>3
<1> QED
  BY <1>1, <1>2, <1>4

LEMMA InitTypes == Init => TypeOK
<1> SUFFICES ASSUME Init PROVE TypeOK
  OBVIOUS
<1>1. library \in Seq(Videos \cup {Blank})
  BY CatalogAssumption DEF Init
<1>2. rows \in [Videos -> Row]
  BY RowType DEF Init
<1>3. Resting \in [pc : {"idle", "list", "read", "upsert"}, page : Nat,
                   todo : SUBSET Listed, full : BOOLEAN, copy : Row]
  BY RowType DEF Resting
<1>4. admin \in [pc : {"idle", "set"}, id : Videos, copy : Row]
  BY RowType DEF Init, NoCommand
<1>5. edits \in [Videos -> [last : Row, read : Row]]
  BY RowType DEF Init
<1> QED
  BY <1>1, <1>2, <1>3, <1>4, <1>5 DEF Init, Resting, TypeOK, SyncTypeOK

\* A library stays a sequence of videos and items without a GUID.
LEMMA NextLibrary == TypeOK /\ [Next]_vars => library' \in Seq(Videos \cup {Blank})
<1> SUFFICES ASSUME TypeOK, [Next]_vars PROVE library' \in Seq(Videos \cup {Blank})
  OBVIOUS
<1> DEFINE T == Videos \cup {Blank}
           L == library
<1>1. L \in Seq(T) /\ Len(L) \in Nat /\ DOMAIN L = 1 .. Len(L)
  BY DEF TypeOK
<1>2. ASSUME NEW m \in Int, NEW n \in Int, 1 <= m, n <= Len(L)
      PROVE  SubSeq(L, m, n) \in Seq(T)
  <2>1. \A i \in m .. n : L[i] \in T
    BY <1>1, <1>2
  <2> QED
    BY <2>1, SubSeqProperties
<1>3. ASSUME NEW v \in T, Upload(v) PROVE library' \in Seq(T)
  <2>1. PICK n \in 0 .. Len(L) :
          library' = SubSeq(L, 1, n) \o <<v>> \o SubSeq(L, n + 1, Len(L))
    BY <1>3 DEF Upload
  <2>2. SubSeq(L, 1, n) \in Seq(T) /\ SubSeq(L, n + 1, Len(L)) \in Seq(T) /\ <<v>> \in Seq(T)
    BY <1>1, <1>2
  <2> QED
    BY <2>1, <2>2
<1>4. CASE Remove
  <2>1. PICK n \in DOMAIN L :
          library' = SubSeq(L, 1, n - 1) \o SubSeq(L, n + 1, Len(L))
    BY <1>4 DEF Remove
  <2>2. SubSeq(L, 1, n - 1) \in Seq(T) /\ SubSeq(L, n + 1, Len(L)) \in Seq(T)
    BY <1>1, <1>2
  <2> QED
    BY <2>1, <2>2
<1>5. CASE UNCHANGED library
  BY <1>1, <1>5
<1> QED
  BY <1>3, <1>4, <1>5
     DEF Next, SyncStep, StartScan, ListPage, ReadRow, UpsertRow, ScanFails,
         CreateContent, DeleteContent, ReadForEdit, WriteEdit, FlipActive, Restart, vars

\* A step edits a row, or a scan writes one, or the catalog stays as it is.
LEMMA RowSteps ==
  ASSUME TypeOK, [Next]_vars
  PROVE  \/ \E v \in Videos, row \in Row : Edit(v, row) /\ UNCHANGED sync
         \/ \E t \in sync.todo :
              /\ UpsertRow /\ Turn(t) /\ t.id \in Videos
              /\ rows' = [rows EXCEPT ![t.id] = Synced(sync.copy)]
              /\ UNCHANGED edits
         \/ ~ UpsertRow /\ UNCHANGED <<rows, edits>>
<1> DEFINE Edits == \E v \in Videos, row \in Row : Edit(v, row) /\ UNCHANGED sync
<1>0. /\ rows \in [Videos -> Row] /\ sync.todo \subseteq Listed
      /\ admin.id \in Videos /\ admin.copy \in Row
      /\ Prices \subseteq Nat /\ Edited \subseteq Videos
  BY CatalogAssumption DEF TypeOK, SyncTypeOK
<1>1. \A row \in Row : row.price \in Nat /\ row.active \in BOOLEAN /\ row.description \in Author
  BY RowFields
<1>2. CASE UpsertRow
  <2>1. PICK t \in sync.todo :
          Turn(t) /\ rows' = [rows EXCEPT ![t.id] = Synced(sync.copy)]
    BY <1>2 DEF UpsertRow
  <2>2. t.id \in Videos /\ UNCHANGED edits
    BY <1>0, <1>2 DEF UpsertRow, Listed
  <2> QED
    BY <1>2, <2>1, <2>2
<1>3. ASSUME NEW k \in Edited, CreateContent(k) PROVE Edits
  <2>1. PICK p \in Prices, d \in {"none", "admin"} : Edit(k, Content(p, TRUE, d))
    BY <1>3 DEF CreateContent
  <2>2. Content(p, TRUE, d) \in Row
    BY <1>0, RowType DEF Author
  <2> QED
    BY <1>0, <1>3, <2>1, <2>2 DEF CreateContent
<1>4. ASSUME NEW k \in Edited, DeleteContent(k) PROVE Edits
  BY <1>0, <1>4, RowType DEF DeleteContent
<1>5. ASSUME NEW k \in Edited, FlipActive(k) PROVE Edits
  <2>1. Content(rows[k].price, ~ rows[k].active, rows[k].description) \in Row
    <3>1. rows[k] \in Row /\ (~ rows[k].active) \in BOOLEAN
      BY <1>0
    <3> QED
      BY <1>1, <3>1, RowType
  <2> QED
    BY <1>0, <1>5, <2>1 DEF FlipActive
<1>6. CASE WriteEdit
  <2>1. ASSUME NEW p \in Prices, NEW d \in {admin.copy.description, "admin"}
        PROVE  Content(p, admin.copy.active, d) \in Row
    <3>1. admin.copy.active \in BOOLEAN /\ d \in Author
      BY <1>0, <1>1 DEF Author
    <3> QED
      BY <1>0, <3>1, RowType
  <2> QED
    BY <1>0, <1>2, <1>6, <2>1 DEF WriteEdit
<1>7. CASE UNCHANGED <<rows, edits>>
  BY <1>2, <1>7
<1> QED
  BY <1>2, <1>3, <1>4, <1>5, <1>6, <1>7
     DEF Next, Upload, Remove, ChangeLibrary, SyncStep, StartScan, ListPage, ReadRow,
         ScanFails, ReadForEdit, Restart, vars

LEMMA NextRows ==
  TypeOK /\ [Next]_vars
    => rows' \in [Videos -> Row] /\ edits' \in [Videos -> [last : Row, read : Row]]
<1> SUFFICES ASSUME TypeOK, [Next]_vars
             PROVE  rows' \in [Videos -> Row] /\ edits' \in [Videos -> [last : Row, read : Row]]
  OBVIOUS
<1>1. /\ rows \in [Videos -> Row] /\ edits \in [Videos -> [last : Row, read : Row]]
      /\ sync.copy \in Row
  BY DEF TypeOK, SyncTypeOK
<1>2. ASSUME NEW v \in Videos, NEW row \in Row, Edit(v, row)
      PROVE  rows' \in [Videos -> Row] /\ edits' \in [Videos -> [last : Row, read : Row]]
  BY <1>1, <1>2 DEF Edit
<1>3. Synced(sync.copy) \in Row
  BY <1>1, RowType
<1> QED
  BY <1>1, <1>2, <1>3, RowSteps

\* At rest, or before the next page, nothing is left of a page.
LEMMA BetweenPages ==
  /\ sync' = Resting => SyncTypeOK'
  /\ \A n \in Nat : sync' = Listing(n + 1) => SyncTypeOK'
<1>1. NoRow \in Row
  BY RowType
<1>2. sync' = Resting => SyncTypeOK'
  BY <1>1 DEF Resting, SyncTypeOK
<1>3. ASSUME NEW n \in Nat, sync' = Listing(n + 1) PROVE SyncTypeOK'
  BY <1>1, <1>3 DEF Listing, SyncTypeOK
<1> QED
  BY <1>2, <1>3

\* Every step keeps the type of the scan.
LEMMA NextSync == TypeOK /\ [Next]_vars => SyncTypeOK'
<1> SUFFICES ASSUME TypeOK, [Next]_vars PROVE SyncTypeOK'
  OBVIOUS
<1>0. SyncTypeOK /\ rows \in [Videos -> Row]
  BY DEF TypeOK
<1>1. CASE StartScan
  <2>1. sync' = Listing(0 + 1)
    BY <1>1 DEF StartScan, Listing
  <2> QED
    BY <2>1, BetweenPages
<1>2. CASE ListPage
  <2>1. CASE EndScan(TRUE)
    BY <2>1, BetweenPages DEF EndScan
  <2>2. CASE /\ Page(sync.page) # {}
             /\ sync' = [pc |-> "read", page |-> sync.page, todo |-> Page(sync.page),
                         full |-> Cardinality(Page(sync.page)) >= PageSize, copy |-> NoRow]
    <3>1. sync.page \in Nat \ {0}
      BY <1>0, <1>2 DEF ListPage, SyncTypeOK
    <3>2. Page(sync.page) \in SUBSET Listed
      BY <3>1, PageOfVideos
    <3>3. (Cardinality(Page(sync.page)) >= PageSize) \in BOOLEAN
      OBVIOUS
    <3> QED
      BY <2>2, <3>1, <3>2, <3>3, RowType DEF SyncTypeOK
  <2> QED
    BY <1>2, <2>1, <2>2 DEF ListPage
<1>3. CASE ReadRow
  <2>1. PICK t \in sync.todo : sync' = [sync EXCEPT !.pc = "upsert", !.copy = rows[t.id]]
    BY <1>3 DEF ReadRow
  <2>2. rows[t.id] \in Row
    BY <1>0 DEF SyncTypeOK, Listed
  <2> QED
    BY <1>0, <1>3, <2>1, <2>2 DEF ReadRow, SyncTypeOK
<1>4. CASE UpsertRow
  <2>1. PICK t \in sync.todo :
          \/ /\ sync.todo \ {t} # {}
             /\ sync' = [sync EXCEPT !.pc = "read", !.todo = sync.todo \ {t}]
          \/ sync' = Listing(sync.page + 1)
          \/ sync' = Resting
    BY <1>4 DEF UpsertRow
  <2>2. CASE sync' = [sync EXCEPT !.pc = "read", !.todo = sync.todo \ {t}] /\ sync.todo \ {t} # {}
    <3>1. sync.todo \ {t} \in SUBSET Listed /\ sync.page > 0
      BY <1>0, <1>4 DEF UpsertRow, SyncTypeOK
    <3> QED
      BY <1>0, <2>2, <3>1 DEF SyncTypeOK
  <2>3. sync.page \in Nat
    BY <1>0 DEF SyncTypeOK
  <2> QED
    BY <2>1, <2>2, <2>3, BetweenPages
<1>5. CASE ScanFails \/ Restart
  BY <1>5, BetweenPages DEF ScanFails, Restart, EndScan
<1>6. CASE UNCHANGED sync
  BY <1>0, <1>6 DEF SyncTypeOK
<1> QED
  BY <1>1, <1>2, <1>3, <1>4, <1>5, <1>6
     DEF Next, Upload, Remove, ChangeLibrary, SyncStep, CreateContent, DeleteContent,
         ReadForEdit, WriteEdit, FlipActive, vars

\* Every step keeps the types of all variables.
LEMMA NextTypes == TypeOK /\ [Next]_vars => TypeOK'
<1> SUFFICES ASSUME TypeOK, [Next]_vars PROVE TypeOK'
  OBVIOUS
<1>1. admin' \in [pc : {"idle", "set"}, id : Videos, copy : Row]
  <2>1. \A v \in Edited : ReadForEdit(v)
                            => admin' \in [pc : {"idle", "set"}, id : Videos, copy : Row]
    BY CatalogAssumption DEF ReadForEdit, TypeOK
  <2>2. admin' = NoCommand(admin.id)
          => admin' \in [pc : {"idle", "set"}, id : Videos, copy : Row]
    BY RowType DEF NoCommand, TypeOK
  <2> QED
    BY <2>1, <2>2
       DEF Next, Upload, Remove, ChangeLibrary, SyncStep, StartScan, ListPage, ReadRow,
           UpsertRow, ScanFails, CreateContent, DeleteContent, WriteEdit, FlipActive,
           Restart, vars, TypeOK
<1>2. changes' \in Nat /\ faults' \in Nat
  <2>1. changes' \in {changes, changes + 1} /\ faults' \in {faults, faults + 1}
    BY DEF Next, Upload, Remove, ChangeLibrary, SyncStep, StartScan, ListPage, ReadRow,
           UpsertRow, ScanFails, CreateContent, DeleteContent, ReadForEdit, WriteEdit,
           FlipActive, Restart, vars
  <2> QED
    BY <2>1 DEF TypeOK
<1>3. scan' \in [seen : SUBSET Videos, ended : BOOLEAN, still : BOOLEAN]
  <2> DEFINE Scans == [seen : SUBSET Videos, ended : BOOLEAN, still : BOOLEAN]
  <2>0. scan \in Scans
    BY DEF TypeOK
  <2>1. CASE UpsertRow
    <3>1. PICK t \in sync.todo :
            \/ scan' = [scan EXCEPT !.seen = scan.seen \cup {t.id}]
            \/ scan' = [[scan EXCEPT !.seen = scan.seen \cup {t.id}] EXCEPT !.ended = TRUE]
      BY <2>1 DEF UpsertRow
    <3>2. t.id \in Videos
      BY DEF TypeOK, SyncTypeOK, Listed
    <3>3. [scan EXCEPT !.seen = scan.seen \cup {t.id}] \in Scans
      BY <2>0, <3>2
    <3>4. \A s \in Scans : [s EXCEPT !.ended = TRUE] \in Scans
      OBVIOUS
    <3> QED
      BY <3>1, <3>3, <3>4
  <2>2. CASE scan' = scan \/ scan' = [scan EXCEPT !.still = FALSE]
    BY <2>0, <2>2
  <2>3. CASE \E ended \in BOOLEAN : EndScan(ended)
    BY <2>0, <2>3 DEF EndScan
  <2>4. CASE StartScan
    BY <2>4 DEF StartScan
  <2> QED
    BY <2>1, <2>2, <2>3, <2>4
       DEF Next, Upload, Remove, ChangeLibrary, SyncStep, ListPage, ReadRow,
           ScanFails, CreateContent, DeleteContent, ReadForEdit, WriteEdit, FlipActive,
           Restart, vars
<1> QED
  BY <1>1, <1>2, <1>3, NextLibrary, NextRows, NextSync DEF TypeOK

-----------------------------------------------------------------------------
(***************************************************************************)
(* Complete scans.                                                         *)
(***************************************************************************)
\* With everything in the library upserted a scan was complete.
LEMMA AllSeenIsComplete ==
  ASSUME \A i \in DOMAIN library' : library'[i] \in scan'.seen
  PROVE  ScanIsComplete'
BY DEF ScanIsComplete, InLibrary

\* What the invariant says of the scan and the pages, at sync.page.
LEMMA ScanFacts ==
  ASSUME IInv, sync.pc # "idle", UNCHANGED library, NEW a, NEW b,
         a = (sync.page - 1) * PageSize, b = sync.page * PageSize
  PROVE  /\ a \in Int /\ b \in Int /\ \A m \in Nat : m = sync.page + 1 => (m - 1) * PageSize = b
         /\ sync.page \in Nat \ {0}
         /\ Len(library) \in Nat /\ DOMAIN library = 1 .. Len(library)
         /\ HasBlank' <=> HasBlank
         /\ scan \in [seen : SUBSET Videos, ended : BOOLEAN, still : BOOLEAN]
         /\ SyncTypeOK
         /\ scan'.ended = scan.ended /\ scan'.still = scan.still /\ scan.seen \subseteq scan'.seen
              => ScanIsComplete'
<1>1. TypeOK /\ SyncTypeOK /\ sync.page \in Nat \ {0}
  BY DEF IInv, TypeOK, SyncTypeOK
<1>2. /\ a \in Int /\ b \in Int
      /\ \A m \in Nat : m = sync.page + 1 => (m - 1) * PageSize = b
  <2>1. a \in Int /\ b \in Int
    BY <1>1, CatalogAssumption
  <2>2. ASSUME NEW m \in Nat, m = sync.page + 1 PROVE (m - 1) * PageSize = b
    <3>1. m - 1 = sync.page
      BY <1>1, <2>2
    <3> QED
      BY <3>1
  <2> QED
    BY <2>1, <2>2
<1>3. HasBlank' <=> HasBlank
  BY DEF HasBlank, InLibrary
<1>4. scan'.ended = scan.ended /\ scan'.still = scan.still /\ scan.seen \subseteq scan'.seen
        => ScanIsComplete'
  BY <1>3 DEF IInv, ScanIsComplete, InLibrary
<1> QED
  BY <1>1, <1>2, <1>3, <1>4 DEF TypeOK

\* The end of a scan at an empty page, or the start of the next page.
LEMMA NextListPage == IInv /\ ListPage => ScanInv' /\ ScanIsComplete'
<1> SUFFICES ASSUME IInv, ListPage PROVE ScanInv' /\ ScanIsComplete'
  OBVIOUS
<1> DEFINE n == sync.page
           a == (n - 1) * PageSize
           b == n * PageSize
<1>1. sync.pc = "list" /\ sync.todo = {} /\ library' = library
  BY DEF IInv, TypeOK, SyncTypeOK, ListPage
<1>2. scan'.still = scan.still /\ scan'.seen = scan.seen
  BY DEF IInv, TypeOK, ListPage, EndScan
<1>3. /\ a \in Int /\ b \in Int /\ n \in Nat \ {0}
      /\ Len(library) \in Nat /\ DOMAIN library = 1 .. Len(library)
      /\ HasBlank' <=> HasBlank
      /\ scan' = scan => ScanIsComplete'
  BY <1>1, ScanFacts
<1>4. CASE ~ scan.still \/ HasBlank
  BY <1>2, <1>3, <1>4 DEF ScanInv, ScanIsComplete
<1>5. ASSUME scan.still, ~ HasBlank
      PROVE  /\ \A i \in DOMAIN library : i <= a => library[i] \in scan.seen
             /\ \A i \in DOMAIN library :
                  a < i /\ i <= b => [at |-> i, id |-> library[i]] \in Page(n)
             /\ Page(n) = {} => Len(library) <= a
             /\ ~ (Cardinality(Page(n)) >= PageSize) => Len(library) <= b
  <2>1. TypeOK
    BY DEF IInv
  <2>2. CoveredUpTo(a)
    BY <1>1, <1>5 DEF IInv, ScanInv
  <2>3. \A i \in DOMAIN library : i <= a => library[i] \in scan.seen
    BY <1>1, <2>2 DEF CoveredUpTo
  <2> QED
    BY <1>3, <1>5, <2>1, <2>3, PageOfNoBlanks
<1>6. CASE scan.still /\ ~ HasBlank /\ Page(n) = {}
  <2> HIDE DEF a, b
  <2>1. \A i \in DOMAIN library : library[i] \in scan.seen
    BY <1>3, <1>5, <1>6
  <2>2. ScanIsComplete'
    BY <1>1, <1>2, <2>1, AllSeenIsComplete
  <2>3. sync' = Resting
    BY <1>6 DEF ListPage, EndScan
  <2> QED
    BY <2>2, <2>3 DEF ScanInv, Resting
<1>7. CASE scan.still /\ ~ HasBlank /\ Page(n) # {}
  <2>1. /\ sync' = [pc |-> "read", page |-> n, todo |-> Page(n),
                    full |-> Cardinality(Page(n)) >= PageSize, copy |-> NoRow]
        /\ scan' = scan
    BY <1>7 DEF ListPage
  <2>2. sync'.pc = "read" /\ sync'.todo = Page(n) /\ sync'.page * PageSize = b
    BY <2>1
  <2>3. ~ sync'.full => ~ (Cardinality(Page(n)) >= PageSize)
    BY <2>1
  <2> HIDE DEF a, b
  <2>4. ASSUME NEW i \in DOMAIN library, i <= b
        PROVE  library[i] \in scan.seen \/ [at |-> i, id |-> library[i]] \in Page(n)
    <3>1. i \in Int /\ a \in Int
      BY <1>3
    <3>2. i <= a \/ a < i
      BY <3>1
    <3> QED
      BY <1>5, <1>7, <2>4, <3>2
  <2>5. CoveredUpTo(sync.page * PageSize)'
    BY <1>1, <2>1, <2>2, <2>4 DEF CoveredUpTo
  <2>6. ~ sync'.full => Len(library') <= sync'.page * PageSize
    BY <1>1, <1>5, <1>7, <2>2, <2>3
  <2> QED
    BY <1>3, <2>1, <2>2, <2>5, <2>6 DEF ScanInv
<1> QED
  BY <1>4, <1>6, <1>7

\* One more video of a page.
LEMMA NextUpsertRow == IInv /\ UpsertRow => ScanInv' /\ ScanIsComplete'
<1> SUFFICES ASSUME IInv, UpsertRow PROVE ScanInv' /\ ScanIsComplete'
  OBVIOUS
<1> DEFINE a == (sync.page - 1) * PageSize
           b == sync.page * PageSize
<1>1. sync.pc = "upsert" /\ library' = library
  BY DEF UpsertRow
<1>2. /\ b \in Int /\ \A m \in Nat : m = sync.page + 1 => (m - 1) * PageSize = b
      /\ Len(library) \in Nat /\ DOMAIN library = 1 .. Len(library)
      /\ HasBlank' <=> HasBlank
      /\ scan \in [seen : SUBSET Videos, ended : BOOLEAN, still : BOOLEAN]
      /\ SyncTypeOK
      /\ scan'.ended = scan.ended /\ scan'.still = scan.still /\ scan.seen \subseteq scan'.seen
           => ScanIsComplete'
  BY <1>1, ScanFacts
<1>3. PICK t \in sync.todo :
        \/ /\ sync' = [sync EXCEPT !.pc = "read", !.todo = sync.todo \ {t}]
           /\ scan' = [scan EXCEPT !.seen = scan.seen \cup {t.id}]
        \/ /\ sync.todo \ {t} = {}
           /\ sync' = Listing(sync.page + 1)
           /\ scan' = [scan EXCEPT !.seen = scan.seen \cup {t.id}]
        \/ /\ sync.todo \ {t} = {} /\ ~ sync.full
           /\ sync' = Resting
           /\ scan' = [[scan EXCEPT !.seen = scan.seen \cup {t.id}] EXCEPT !.ended = TRUE]
  BY DEF UpsertRow
<1>4. scan'.still = scan.still /\ scan'.seen = scan.seen \cup {t.id}
  BY <1>2, <1>3
<1>5. CASE ~ scan.still \/ HasBlank
  BY <1>2, <1>4, <1>5 DEF ScanInv, ScanIsComplete
<1>6. CASE scan.still /\ ~ HasBlank
  <2>1. CoveredUpTo(b) /\ (~ sync.full => Len(library) <= b)
    BY <1>1, <1>6 DEF IInv, ScanInv
  <2>2. ASSUME NEW i \in DOMAIN library, i <= b
        PROVE  library[i] \in scan'.seen \/ [at |-> i, id |-> library[i]] \in sync.todo \ {t}
    <3>1. [at |-> i, id |-> library[i]] = t => library[i] \in scan'.seen
      BY <1>4
    <3>2. library[i] \in scan.seen \/ [at |-> i, id |-> library[i]] \in sync.todo
      BY <2>1, <2>2 DEF CoveredUpTo
    <3> QED
      BY <1>4, <3>1, <3>2
  <2>3. CASE /\ sync' = [sync EXCEPT !.pc = "read", !.todo = sync.todo \ {t}]
             /\ scan' = [scan EXCEPT !.seen = scan.seen \cup {t.id}]
    <3>1. /\ sync'.pc = "read" /\ sync'.page = sync.page /\ sync'.full = sync.full
          /\ sync'.todo = sync.todo \ {t}
      BY <1>2, <2>3 DEF SyncTypeOK
    <3>2. scan'.ended = scan.ended
      BY <1>2, <2>3
    <3>3. CoveredUpTo(sync.page * PageSize)'
      BY <1>1, <2>2, <3>1 DEF CoveredUpTo
    <3>4. ~ sync'.full => Len(library') <= sync'.page * PageSize
      BY <1>1, <2>1, <3>1
    <3> QED
      BY <1>2, <1>4, <3>1, <3>2, <3>3, <3>4 DEF ScanInv
  <2>4. CASE /\ sync.todo \ {t} = {}
             /\ sync' = Listing(sync.page + 1)
             /\ scan' = [scan EXCEPT !.seen = scan.seen \cup {t.id}]
    <3>1. sync'.pc = "list" /\ sync'.page = sync.page + 1
      BY <2>4 DEF Listing
    <3>2. scan'.ended = scan.ended
      BY <1>2, <2>4
    <3>3. (sync'.page - 1) * PageSize = b
      <4>1. sync'.page = sync.page + 1 /\ sync'.page \in Nat
        BY <1>2, <3>1 DEF SyncTypeOK
      <4> QED
        BY <1>2, <4>1
    <3> HIDE DEF b
    <3>4. CoveredUpTo((sync.page - 1) * PageSize)'
      BY <1>1, <2>2, <2>4, <3>3 DEF CoveredUpTo
    <3> QED
      BY <1>2, <1>4, <3>1, <3>2, <3>4 DEF ScanInv
  <2>5. CASE /\ sync.todo \ {t} = {} /\ ~ sync.full
             /\ sync' = Resting
    <3> HIDE DEF b
    <3>0. \A i \in DOMAIN library : i <= b
      <4>1. b \in Int /\ Len(library) \in Nat /\ Len(library) <= b
        BY <1>2, <2>1, <2>5
      <4> QED
        BY <1>2, <4>1
    <3>1. \A i \in DOMAIN library : library[i] \in scan'.seen
      BY <2>2, <2>5, <3>0
    <3>2. ScanIsComplete'
      BY <1>1, <3>1, AllSeenIsComplete
    <3> QED
      BY <2>5, <3>2 DEF ScanInv, Resting
  <2> QED
    BY <1>3, <2>3, <2>4, <2>5
<1> QED
  BY <1>5, <1>6

-----------------------------------------------------------------------------
(***************************************************************************)
(* Edits.                                                                  *)
(***************************************************************************)
\* A row carries itself, and what a scan makes of a copy carries what the copy
\* does: price, visibility and description are those of the existing row
\* (sync.go, the copy from `existing`).
LEMMA SyncedCarries ==
  ASSUME NEW copy \in Row
  PROVE  /\ Carries(copy, copy)
         /\ \A edit \in Row : Carries(copy, edit) => Carries(Synced(copy), edit)
<1>1. CASE copy = NoRow
  BY <1>1 DEF Carries, Synced, NoRow, Content
<1>2. CASE copy # NoRow
  <2>1. copy.there /\ copy \in [there : {TRUE}, price : Nat, active : BOOLEAN, description : Author]
    BY <1>2 DEF Row
  <2>2. Carries(copy, copy)
    BY <2>1 DEF Carries
  <2>3. ASSUME NEW edit \in Row, Carries(copy, edit) PROVE Carries(Synced(copy), edit)
    <3>1. CASE edit.there
      BY <2>1, <2>3, <3>1 DEF Carries, Synced, Content
    <3>2. CASE ~ edit.there
      <4>1. copy = Content(DefaultPrice, TRUE, "library")
        BY <1>2, <2>3, <3>2 DEF Carries
      <4>2. Synced(copy) = copy
        BY <4>1 DEF Synced, Content
      <4> QED
        BY <2>3, <4>2
    <3> QED
      BY <3>1, <3>2
  <2> QED
    BY <2>2, <2>3
<1> QED
  BY <1>1, <1>2

\* Row v, or a copy of it, is no older than the edits allow.
Recent(row, v) == Carries(row, edits[v].last) \/ Carries(row, edits[v].read)

\* A scan under way has one row to write.
LEMMA OneTurn ==
  ASSUME TypeOK, NEW t \in sync.todo, NEW u \in sync.todo, Turn(t), Turn(u)
  PROVE  t = u
<1>1. t.at \in Nat /\ u.at \in Nat
  BY DEF TypeOK, SyncTypeOK, Listed
<1> QED
  BY <1>1 DEF Turn

\* An edit of v leaves the rows and the copies of other contents alone, and
\* takes note of the copy of v that a scan holds.
LEMMA EditsAreRecent ==
  ASSUME IInv, NEW v \in Videos, NEW row \in Row, Edit(v, row), UNCHANGED sync
  PROVE  CopyInv' /\ EditsOutliveScans'
<1>1. /\ rows \in [Videos -> Row] /\ edits \in [Videos -> [last : Row, read : Row]]
      /\ sync.copy \in Row
  BY DEF IInv, TypeOK, SyncTypeOK
<1>2. \A u \in Videos : Scanning(u)' <=> Scanning(u)
  BY DEF Scanning, Turn
<1>3. rows'[v] = row /\ edits'[v].last = row /\ (Scanning(v) => edits'[v].read = sync.copy)
  BY <1>1 DEF Edit
<1>4. \A u \in Videos \ {v} : rows'[u] = rows[u] /\ edits'[u] = edits[u]
  BY <1>1 DEF Edit
<1>5. Carries(row, row) /\ Carries(sync.copy, sync.copy)
  BY <1>1, SyncedCarries
<1>6. \A u \in Videos : Carries(rows'[u], edits'[u].last) \/ Carries(rows'[u], edits'[u].read)
  BY <1>3, <1>4, <1>5 DEF IInv, EditsOutliveScans
<1>7. \A u \in Videos :
        Scanning(u) => Carries(sync.copy, edits'[u].last) \/ Carries(sync.copy, edits'[u].read)
  BY <1>3, <1>4, <1>5 DEF IInv, CopyInv
<1> QED
  BY <1>2, <1>6, <1>7 DEF CopyInv, EditsOutliveScans, Carries

\* A scan's upsert writes a copy that is as recent as the edits allow.
LEMMA UpsertsAreRecent ==
  ASSUME IInv, UpsertRow, NEW t \in sync.todo, Turn(t), t.id \in Videos,
         rows' = [rows EXCEPT ![t.id] = Synced(sync.copy)], UNCHANGED edits
  PROVE  CopyInv' /\ EditsOutliveScans'
<1>1. /\ rows \in [Videos -> Row] /\ edits \in [Videos -> [last : Row, read : Row]]
      /\ sync.copy \in Row
  BY DEF IInv, TypeOK, SyncTypeOK
<1>2. Scanning(t.id)
  BY DEF UpsertRow, Scanning
<1>3. Recent(Synced(sync.copy), t.id)
  BY <1>1, <1>2, SyncedCarries DEF Recent, IInv, CopyInv
<1>4. \A v \in Videos : Recent(rows'[v], v)
  BY <1>1, <1>3 DEF Recent, IInv, EditsOutliveScans
<1>5. sync'.pc # "upsert"
  <2>1. PICK u \in sync.todo :
          \/ sync' = [sync EXCEPT !.pc = "read", !.todo = sync.todo \ {u}]
          \/ sync' = Listing(sync.page + 1)
          \/ sync' = Resting
    BY DEF UpsertRow
  <2>2. sync \in [pc : {"idle", "list", "read", "upsert"}, page : Nat,
                  todo : SUBSET Listed, full : BOOLEAN, copy : Row]
    BY DEF IInv, TypeOK, SyncTypeOK
  <2>3. [sync EXCEPT !.pc = "read", !.todo = sync.todo \ {u}].pc = "read"
    BY <2>2
  <2>4. Listing(sync.page + 1).pc = "list" /\ Resting.pc = "idle"
    BY DEF Listing, Resting
  <2> QED
    BY <2>1, <2>3, <2>4
<1> QED
  BY <1>4, <1>5 DEF CopyInv, Scanning, EditsOutliveScans, Recent, Carries

\* Every step keeps rows and copies as recent as that.
LEMMA NextEdits == IInv /\ [Next]_vars => CopyInv' /\ EditsOutliveScans'
<1> SUFFICES ASSUME IInv, [Next]_vars PROVE CopyInv' /\ EditsOutliveScans'
  OBVIOUS
<1>0. TypeOK
  BY DEF IInv
<1>1. CASE \E v \in Videos, row \in Row : Edit(v, row) /\ UNCHANGED sync
  BY <1>1, EditsAreRecent
<1>2. CASE \E t \in sync.todo :
              /\ UpsertRow /\ Turn(t) /\ t.id \in Videos
              /\ rows' = [rows EXCEPT ![t.id] = Synced(sync.copy)]
              /\ UNCHANGED edits
  BY <1>2, UpsertsAreRecent
<1>3. CASE ~ UpsertRow /\ UNCHANGED <<rows, edits>>
  <2>1. EditsOutliveScans'
    BY <1>3 DEF IInv, EditsOutliveScans, Carries
  <2>2. CASE ReadRow
    <3>1. PICK t \in sync.todo :
            Turn(t) /\ sync' = [sync EXCEPT !.pc = "upsert", !.copy = rows[t.id]]
      BY <2>2 DEF ReadRow
    <3>2. sync'.copy = rows[t.id] /\ sync'.todo = sync.todo
      BY <1>0, <3>1 DEF TypeOK, SyncTypeOK
    <3>3. ASSUME NEW v \in Videos, Scanning(v)' PROVE v = t.id
      <4>1. PICK u \in sync.todo : Turn(u) /\ u.id = v
        BY <3>2, <3>3 DEF Scanning, Turn
      <4> QED
        BY <1>0, <3>1, <4>1, OneTurn
    <3>4. \A v \in Videos : Scanning(v)' => Recent(sync'.copy, v)
      BY <3>2, <3>3 DEF Recent, IInv, EditsOutliveScans
    <3> QED
      BY <1>3, <2>1, <3>4 DEF CopyInv, Recent, Carries
  <2>3. CASE UNCHANGED sync
    <3>1. \A v \in Videos : Scanning(v)' <=> Scanning(v)
      BY <2>3 DEF Scanning, Turn
    <3> QED
      BY <1>3, <2>1, <2>3, <3>1 DEF IInv, CopyInv, Carries
  <2>4. CASE sync'.pc # "upsert"
    BY <2>1, <2>4 DEF CopyInv, Scanning
  <2>5. StartScan \/ ListPage \/ ScanFails \/ Restart => sync'.pc # "upsert" \/ UNCHANGED sync
    BY <1>0 DEF StartScan, ListPage, ScanFails, Restart, EndScan, Listing, Resting, TypeOK
  <2> QED
    BY <1>3, <2>2, <2>3, <2>4, <2>5
       DEF Next, Upload, Remove, ChangeLibrary, SyncStep, CreateContent, DeleteContent,
           ReadForEdit, WriteEdit, FlipActive, vars
<1> QED
  BY <1>0, <1>1, <1>2, <1>3, RowSteps

-----------------------------------------------------------------------------

\* Every step keeps track of the scan.
LEMMA NextIInv == IInv /\ [Next]_vars => IInv'
<1> SUFFICES ASSUME IInv, [Next]_vars PROVE IInv'
  OBVIOUS
<1>1. TypeOK'
  BY NextTypes DEF IInv
<1>2. ScanInv' /\ ScanIsComplete'
  <2>1. CASE ListPage
    BY <2>1, NextListPage
  <2>2. CASE UpsertRow
    BY <2>2, NextUpsertRow
  <2>3. CASE StartScan
    <3>1. sync'.pc = "list" /\ sync'.page = 1 /\ scan'.ended = FALSE
      BY <2>3 DEF StartScan, Listing
    <3>2. (sync'.page - 1) * PageSize = 0
      BY <3>1, CatalogAssumption
    <3>3. \A i \in DOMAIN library' : ~ (i <= 0)
      BY <1>1 DEF TypeOK
    <3>4. CoveredUpTo((sync.page - 1) * PageSize)'
      BY <3>2, <3>3 DEF CoveredUpTo
    <3> QED
      BY <3>1, <3>4 DEF ScanInv, ScanIsComplete
  <2>4. CASE ScanFails \/ Restart
    <3>1. sync' = Resting /\ scan' = [scan EXCEPT !.ended = FALSE]
      BY <2>4 DEF ScanFails, Restart, EndScan
    <3>2. sync'.pc = "idle" /\ scan'.ended = FALSE
      BY <3>1 DEF Resting, IInv, TypeOK
    <3> QED
      BY <3>2 DEF ScanInv, ScanIsComplete
  <2>5. CASE scan' = [scan EXCEPT !.still = FALSE]
    <3>1. scan'.still = FALSE
      BY <2>5 DEF IInv, TypeOK
    <3> QED
      BY <3>1 DEF ScanInv, ScanIsComplete
  <2>6. CASE ReadRow
    <3>1. /\ sync'.pc = "upsert" /\ sync'.page = sync.page /\ sync'.todo = sync.todo
          /\ sync'.full = sync.full /\ library' = library /\ scan' = scan
          /\ sync.pc = "read"
      BY <2>6 DEF ReadRow, IInv, TypeOK, SyncTypeOK
    <3> QED
      BY <3>1 DEF IInv, ScanInv, ScanIsComplete, CoveredUpTo, HasBlank, InLibrary
  <2>7. CASE UNCHANGED <<library, sync, scan>>
    BY <2>7 DEF IInv, ScanInv, ScanIsComplete, CoveredUpTo, HasBlank, InLibrary
  <2> QED
    BY <2>1, <2>2, <2>3, <2>4, <2>5, <2>6, <2>7
       DEF Next, Upload, Remove, ChangeLibrary, SyncStep, CreateContent, DeleteContent,
           ReadForEdit, WriteEdit, FlipActive, vars
<1> QED
  BY <1>1, <1>2, NextEdits DEF IInv

\* The invariant of the catalog holds always.
THEOREM Invariant == Spec => []IInv
<1>1. Init => IInv
  <2> SUFFICES ASSUME Init PROVE IInv
    OBVIOUS
  <2>1. scan.still = FALSE
    BY DEF Init
  <2>2. EditsOutliveScans /\ ~ (sync.pc = "upsert")
    BY DEF Init, Resting, EditsOutliveScans, Carries, NoRow
  <2> QED
    BY <2>1, <2>2, InitTypes DEF IInv, ScanInv, ScanIsComplete, CopyInv, Scanning
<1> QED
  BY <1>1, NextIInv, PTL DEF Spec

\* Every variable of the catalog keeps its type, whatever the library holds.
THEOREM TypeCorrect == Spec => []TypeOK
<1>1. IInv => TypeOK
  BY DEF IInv
<1> QED
  BY <1>1, Invariant, PTL

\* A scan that ends over a library that stood still and has no blank items has
\* upserted every video, for libraries of any length and pages of any size.
THEOREM ScansAreComplete == Spec => []ScanIsComplete
<1>1. IInv => ScanIsComplete
  BY DEF IInv
<1> QED
  BY <1>1, Invariant, PTL

\* The last edit of a content stands, whatever scans, failures and restarts
\* follow, unless a scan that had read the row before the edit writes it: then
\* the row is what that scan had read.  It holds for catalogs, libraries and
\* pages of any size and any number of scans and edits.
THEOREM EditsStand == Spec => []EditsOutliveScans
<1>1. IInv => EditsOutliveScans
  BY DEF IInv
<1> QED
  BY <1>1, Invariant, PTL
=============================================================================
