------------------------------- MODULE Pictures --------------------------------
(***************************************************************************)
(* One banner or one category with its pictures, the storage that holds    *)
(* them, and the requests that edit the row                                *)
(* (src/src/banners/banners.service.ts, src/src/categories/                *)
(* categories.service.ts, src/src/media/media.service.ts).                 *)
(*                                                                         *)
(* An upload loads the row, deletes the asset it replaces, validates and   *)
(* uploads the new file, and saves the row it loaded.  The save reads the  *)
(* row once more and then writes the columns that differ (EntitySave).     *)
(* Clicks and the order of the banners are written by statements of their  *)
(* own meanwhile.                                                          *)
(***************************************************************************)
EXTENDS EntitySave, Naturals, FiniteSets

CONSTANTS
  MaxAssets,        \* bound on the files that are uploaded
  MaxMarks,         \* bound on clicks and reorders
  PictureRequests

ASSUME PictureAssumption ==
  /\ MaxAssets \in Nat
  /\ MaxMarks \in Nat

VARIABLES
  kind,       \* what the row is
  row,        \* the row, or Gone
  stored,     \* assets in the storage
  uploaded,   \* public ids given out so far: 1 .. uploaded
  requests,   \* the row each request has loaded, whether it has deleted the asset,
              \* and what its save writes over which row
  marked,     \* for the property: clicks and reorders since the row's creation, as
              \* long as no old row has been saved
  mishap      \* for the properties: a request has failed after it had deleted an
              \* asset or, worse, saved a row that had changed between its load
              \* and the re-read of the save

pictureVars == <<kind, row, stored, uploaded, requests, marked, mishap>>

Gone    == [exists |-> FALSE]
Link    == 0      \* a url that is not one of the storage's
NoAsset == 0
Slots   == IF kind = "banner" THEN {"desktop", "mobile"} ELSE {"image"}

Blank   == [url |-> Link, id |-> NoAsset]
Picture == [url : 0 .. MaxAssets, id : 0 .. MaxAssets]
\* marks stands for clickCount, and for sortOrder: a column that is also written by
\* statements of its own.
PictureRow == [exists : {TRUE}, pictures : [Slots -> Picture], marks : 0 .. MaxMarks]
NoUpload == [op |-> "idle"]
Working ==
  [op : {"edit", "upload", "clear", "remove"}, row : PictureRow, slots : SUBSET Slots,
   deleted : BOOLEAN]
Saving ==
  [op : {"save"}, row : PictureRow, slots : SUBSET Slots, deleted : BOOLEAN,
   entity : PictureRow, before : PictureRow \cup {Gone}]
Request == {NoUpload} \cup Working \cup Saving

PictureTypeOK ==
  /\ kind \in {"banner", "category"}
  /\ row \in PictureRow \cup {Gone}
  /\ uploaded \in 0 .. MaxAssets /\ stored \subseteq 1 .. uploaded
  /\ requests \in [PictureRequests -> Request]
  /\ marked \in 0 .. MaxMarks
  /\ mishap \in {"none", "failed", "stale"}

PictureInit ==
  /\ kind \in {"banner", "category"}
  /\ row = [exists |-> TRUE, pictures |-> [s \in Slots |-> Blank], marks |-> 0]
  /\ stored = {} /\ uploaded = 0
  /\ requests = [r \in PictureRequests |-> NoUpload]
  /\ marked = 0
  /\ mishap = "none"

\* The assets that a request deletes.
Replaced(q) == {q.row.pictures[s].id : s \in q.slots} \ {NoAsset}

Pictured(q, picture) ==
  [q.row EXCEPT !.pictures = [s \in Slots |-> IF s \in q.slots THEN picture ELSE @[s]]]

Finished(r) == requests' = [requests EXCEPT ![r] = NoUpload]

\* bannerRepo.save and repo.save: the row is read once more, without a lock.
Saves(r, entity) ==
  LET q == requests[r] IN
  requests' = [requests EXCEPT ![r] =
                 [op |-> "save", row |-> q.row, slots |-> q.slots, deleted |-> q.deleted,
                  entity |-> entity, before |-> row]]

-----------------------------------------------------------------------------
\* update, uploadImage, removeImage and remove begin by loading the row.  Only a
\* category gives up its image without another; only a banner deletes its images
\* when it is removed.
Find(r, op, slots) ==
  /\ requests[r] = NoUpload
  /\ row # Gone
  /\ \/ op = "edit" /\ slots = {}
     \/ op = "upload" /\ Cardinality(slots) = 1
     \/ op = "clear" /\ kind = "category" /\ slots = Slots
     \/ op = "remove" /\ kind = "banner" /\ slots = Slots
  /\ requests' = [requests EXCEPT ![r] = [op |-> op, row |-> row, slots |-> slots, deleted |-> FALSE]]
  /\ UNCHANGED <<kind, row, stored, uploaded, marked, mishap>>

\* update: the title, or the url of a picture.
SaveEdit(r) ==
  LET q == requests[r] IN
  /\ q.op = "edit"
  /\ \/ Saves(r, q.row)
     \/ \E s \in Slots : Saves(r, [q.row EXCEPT !.pictures[s].url = Link])
  /\ UNCHANGED <<kind, row, stored, uploaded, marked, mishap>>

\* A wrong form: the ids of the two slots of a banner are mixed up.
DeleteOther(r) ==
  LET q == requests[r] IN
  /\ q.op \notin {"idle", "edit", "save"} /\ ~q.deleted
  /\ stored' = stored \ {q.row.pictures[s].id : s \in Slots \ q.slots}
  /\ requests' = [requests EXCEPT ![r].deleted = TRUE]
  /\ UNCHANGED <<kind, row, uploaded, marked, mishap>>

\* A delete that the storage refuses is caught, and the request goes on.
DeleteOld(r) ==
  LET q == requests[r] IN
  /\ q.op \notin {"idle", "edit", "save"} /\ ~q.deleted
  /\ \E refused \in SUBSET Replaced(q) : stored' = stored \ (Replaced(q) \ refused)
  /\ requests' = [requests EXCEPT ![r].deleted = TRUE]
  /\ UNCHANGED <<kind, row, uploaded, marked, mishap>>

\* The file is validated and uploaded only now, and the row saved with it.
PutNew(r) ==
  LET q == requests[r]  asset == uploaded + 1 IN
  /\ q.op = "upload" /\ q.deleted
  /\ asset <= MaxAssets
  /\ uploaded' = asset
  /\ stored' = stored \cup {asset}
  /\ Saves(r, Pictured(q, [url |-> asset, id |-> asset]))
  /\ UNCHANGED <<kind, row, marked, mishap>>

SaveBlank(r) ==
  LET q == requests[r] IN
  /\ q.op = "clear" /\ q.deleted
  /\ Saves(r, Pictured(q, Blank))
  /\ UNCHANGED <<kind, row, stored, uploaded, marked, mishap>>

\* The row after the UPDATE of the columns in which entity and before differ.
PicturesWritten(entity, before) ==
  [row EXCEPT !.pictures = [s \in Slots |->
                              Written(entity.pictures[s], before.pictures[s], @[s])],
              !.marks    = IF entity.marks = before.marks THEN @ ELSE entity.marks]

\* A row that had gone at the re-read is inserted again, which a second request
\* cannot do; the UPDATE of a row that goes afterwards writes nothing.
UpdateRow(r) ==
  LET q == requests[r] IN
  /\ q.op = "save"
  /\ \/ q.before = Gone /\ row = Gone /\ row' = q.entity
     \/ q.before # Gone /\ row = Gone /\ row' = Gone
     \/ q.before # Gone /\ row # Gone /\ row' = PicturesWritten(q.entity, q.before)
  /\ mishap' = IF q.before = q.row THEN mishap ELSE "stale"
  /\ marked' = IF mishap' = "stale" /\ row' # Gone THEN row'.marks ELSE marked
  /\ Finished(r)
  /\ UNCHANGED <<kind, stored, uploaded>>

RemoveRow(r) ==
  /\ requests[r].op = "remove" /\ requests[r].deleted
  /\ row' = Gone
  /\ Finished(r)
  /\ UNCHANGED <<kind, stored, uploaded, marked, mishap>>

\* The file is refused, the upload fails, or the process dies: what has been
\* deleted is gone.
Fail(r) ==
  LET q == requests[r] IN
  /\ q # NoUpload
  /\ mishap' = IF mishap = "none" /\ q.deleted /\ Replaced(q) # {} THEN "failed" ELSE mishap
  /\ Finished(r)
  /\ UNCHANGED <<kind, row, stored, uploaded, marked>>

\* A statement of its own on one column.
Mark ==
  /\ kind = "banner" /\ row # Gone
  /\ row.marks < MaxMarks /\ marked < MaxMarks
  /\ row' = [row EXCEPT !.marks = @ + 1]
  /\ marked' = marked + 1
  /\ UNCHANGED <<kind, stored, uploaded, requests, mishap>>

Click   == Mark
Reorder == Mark

PictureNext ==
  \/ \E r \in PictureRequests :
       \/ \E op \in {"edit", "upload", "clear", "remove"}, slots \in SUBSET Slots : Find(r, op, slots)
       \/ SaveEdit(r) \/ DeleteOld(r) \/ PutNew(r) \/ SaveBlank(r) \/ UpdateRow(r) \/ RemoveRow(r) \/ Fail(r)
  \/ Click \/ Reorder

PictureSpec == PictureInit /\ [][PictureNext]_pictureVars

-----------------------------------------------------------------------------
\* The assets that requests have deleted and not yet replaced.
Replacing == UNION {Replaced(requests[r]) : r \in {p \in PictureRequests :
                      requests[p] # NoUpload /\ requests[p].deleted}}

\* A picture that is shown is in the storage, or is being replaced, unless an upload
\* failed after it had deleted the old one or a request saved a row that had changed
\* between its load and the re-read of its save.
ShownPictureExists ==
  mishap = "none" /\ row # Gone =>
    \A s \in Slots : row.pictures[s].url \in stored \cup Replacing \cup {Link}

\* Every click is counted, and every banner is where it was put, unless a request
\* saved a row that had changed between its load and the re-read of its save.
ClicksAreCounted == row # Gone /\ mishap # "stale" => row.marks = marked

\* The row of a banner or a category is well formed, and keeps what several requests
\* have written.
PictureRowHolds == PictureTypeOK /\ ShownPictureExists /\ ClicksAreCounted

===============================================================================
