------------------------------ MODULE Archive ------------------------------
(***************************************************************************)
(* The durable half of photod: the blob tree, manifest.jsonl and the       *)
(* database rows that describe them, with the three handlers that write    *)
(* all of them -- an upload's commit, the trash, and the purge -- taken    *)
(* one durable step at a time, so that a crash or another request can fall *)
(* between any two.                                                        *)
(*                                                                         *)
(* A content is an original named by its SHA-256.  A paired video names    *)
(* the still it is the motion of: PartOf[v] is that still, and None for    *)
(* everything that is an item of its own.  The contents here come from a   *)
(* phone or from the browser's upload page, which never carry a Snapchat   *)
(* overlay or a content identifier.                                        *)
(***************************************************************************)
EXTENDS Naturals, Sequences, FiniteSets

CONSTANTS
  Content,      \* the originals
  PartOf,       \* the still a paired video declares, None for the rest
  None,         \* neither a content nor a still
  Request,      \* upload requests that can be in a handler at once
  Purger,       \* purges that can run at once: the hourly sweep, the gallery
  MaxStimuli    \* bound: how many uploads and purges are begun, the two things
                \* that lengthen the manifest; all else is unbounded

\* A component cannot itself have components (db/trash.go, family).
ASSUME PartsAssumption ==
  /\ None \notin Content
  /\ PartOf \in [Content -> Content \cup {None}]
  /\ \A c \in Content : PartOf[c] # None => PartOf[PartOf[c]] = None

ASSUME BoundAssumption == MaxStimuli \in Nat

VARIABLES
  \* on disk
  blob,      \* the contents with an original in the blob tree
  log,       \* manifest.jsonl, line by line
  torn,      \* the manifest ends in a partial line
  \* in the database
  row,       \* the assets row of a content: none, live, or in the trash
  via,       \* what the columns of a row say of who delivered it
  mapped,    \* contents a device_assets row points at
  linked,    \* rows whose live_parent_asset_id is set
  tomb,      \* purged_content
  \* in the server's memory
  up,        \* each upload request, between two durable steps
  pg,        \* each purge, between two durable steps
  \* observation only: nothing the program reads
  acked,     \* contents some client has been told are archived
  doomed,    \* contents whose row a purge has deleted
  lost,      \* manifest lines a failed or torn append lost, as <<kind, content>>
  spent      \* stimuli used, against MaxStimuli

disk  == <<blob, log, torn>>
index == <<row, via, mapped, linked, tomb>>
procs == <<up, pg>>
seen  == <<acked, doomed, lost>>
vars  == <<disk, index, procs, seen, spent>>

-----------------------------------------------------------------------------
(* The manifest.                                                           *)

\* Who delivers a content: the browser, which names no device; a phone, by its
\* local id; or a phone that also declares it the other half of a still.
Via == {"web", "phone", "half"}

Corrupt == [kind |-> "corrupt", sha |-> None, via |-> "web"]

AssetLine(c, v) == [kind |-> "asset", sha |-> c, via |-> v]
PurgeLine(c) == [kind |-> "purge", sha |-> c, via |-> "web"]

Line == [kind : {"asset", "purge", "corrupt"},
         sha : Content \cup {None},
         via : Via]

\* One Append that returned no error.  A line written after a partial one
\* continues it, and the two are one unreadable line.
Append1(line) ==
  /\ log' = Append(log, IF torn THEN Corrupt ELSE line)
  /\ torn' = FALSE
  /\ lost' = IF torn THEN lost \cup {<<line.kind, line.sha>>} ELSE lost

\* One Append that returned an error, or never returned: nothing was written,
\* or part of the line was.  (A line written whole whose fsync then failed
\* leaves the disk as LogUpload followed by RecordUploadFails does.)
AppendLost(lines) ==
  /\ torn' \in {torn, TRUE}
  /\ lost' = lost \cup {<<l.kind, l.sha>> : l \in lines}
  /\ UNCHANGED log

Lines(kind, c) == {i \in 1..Len(log) : log[i].kind = kind /\ log[i].sha = c}
Logged(kind, c) == Lines(kind, c) # {}

-----------------------------------------------------------------------------
(* The rows.                                                               *)

IsVideo(c) == PartOf[c] # None

\* not notComponent: a part of another asset, drawn nowhere by itself.
Component(c) == c \in linked \/ via[c] = "half"

Parts(S) == {v \in linked : PartOf[v] \in S}
Family(S) == S \cup Parts(S)

\* RecordAsset: one transaction.  A content already indexed keeps its row; a
\* phone's mapping is written either way, and either half of a Live Photo
\* links to the other if it is there.
RecordAsset(c, from) ==
  LET inserted == row[c] = "none"
      waiting  == {v \in Content : via[v] = "half" /\ PartOf[v] = c}
  IN /\ row' = [row EXCEPT ![c] = IF inserted THEN "live" ELSE @]
     /\ via' = [via EXCEPT ![c] = IF inserted THEN from ELSE @]
     /\ mapped' = IF from = "web" THEN mapped ELSE mapped \cup {c}
     /\ linked' = CASE from = "web" -> linked
                    [] from = "half" ->
                         IF PartOf[c] \in mapped THEN linked \cup {c} ELSE linked
                    [] from = "phone" -> linked \cup waiting

\* Mutant: the device's mapping outlives the row it points at.
DropRowsOnly(S) ==
  /\ row' = [c \in Content |-> IF c \in S THEN "none" ELSE row[c]]
  /\ via' = [c \in Content |-> IF c \in S THEN "web" ELSE via[c]]
  /\ mapped' = mapped
  /\ linked' = {v \in linked \ S : PartOf[v] \notin S}

\* Deleting rows: their mappings cascade, and a link to one is set null.
DropRows(S) ==
  /\ row' = [c \in Content |-> IF c \in S THEN "none" ELSE row[c]]
  /\ via' = [c \in Content |-> IF c \in S THEN "web" ELSE via[c]]
  /\ mapped' = mapped \ S
  /\ linked' = {v \in linked \ S : PartOf[v] \notin S}

-----------------------------------------------------------------------------
NoUpload == [pc |-> "idle", sha |-> None, via |-> "web"]
NoPurge == [pc |-> "idle", gone |-> {}, todo |-> {}]

UploadState ==
  [pc : {"idle", "staged", "absent", "created", "indexing"},
   sha : Content \cup {None},
   via : Via]

PurgeState ==
  [pc : {"idle", "logging", "unlinking"},
   gone : SUBSET Content,
   todo : SUBSET Content]

\* What refers to a row refers to one that is there, and only a video is the
\* motion of a still.
Referential ==
  /\ \A c \in mapped \cup linked : row[c] # "none"
  /\ \A c \in Content : via[c] # "web" => row[c] # "none"
  /\ \A v \in linked : IsVideo(v) /\ row[PartOf[v]] # "none"

\* Every variable has its type, and no column of the index dangles.
TypeOK ==
  /\ blob \subseteq Content
  /\ log \in Seq(Line)
  /\ torn \in BOOLEAN
  /\ row \in [Content -> {"none", "live", "trash"}]
  /\ via \in [Content -> Via]
  /\ mapped \subseteq Content
  /\ linked \subseteq Content
  /\ Referential
  /\ tomb \subseteq Content
  /\ up \in [Request -> UploadState]
  /\ \A r \in Request : up[r].pc # "idle" => up[r].sha \in Content
  /\ pg \in [Purger -> PurgeState]
  /\ acked \subseteq Content
  /\ doomed \subseteq Content
  /\ lost \subseteq {"asset", "purge"} \X Content
  /\ spent \in 0..MaxStimuli

Init ==
  /\ blob = {} /\ log = <<>> /\ torn = FALSE
  /\ row = [c \in Content |-> "none"]
  /\ via = [c \in Content |-> "web"]
  /\ mapped = {} /\ linked = {} /\ tomb = {}
  /\ up = [r \in Request |-> NoUpload]
  /\ pg = [p \in Purger |-> NoPurge]
  /\ acked = {} /\ doomed = {} /\ lost = {}
  /\ spent = 0

Stimulus == spent < MaxStimuli /\ spent' = spent + 1

-----------------------------------------------------------------------------
(* An upload: body to a temp file, rename, manifest line, row, answer.     *)

\* The body is streamed, fsynced and matches its declared checksum.  A phone
\* declares the still of every paired video it sends, and of nothing else.
BeginUpload(r, c, v) ==
  /\ Stimulus
  /\ up[r].pc = "idle"
  /\ v # "web" => (v = "half" <=> IsVideo(c))
  /\ up' = [up EXCEPT ![r] = [pc |-> "staged", sha |-> c, via |-> v]]
  /\ UNCHANGED <<disk, index, pg, seen>>

\* os.Stat(dst): a blob that is there already ends Put with Created false, and
\* finishUpload goes straight to the row.
StatBlob(r) ==
  /\ up[r].pc = "staged"
  /\ up' = [up EXCEPT ![r].pc = IF up[r].sha \in blob THEN "indexing" ELSE "absent"]
  /\ UNCHANGED <<disk, index, pg, seen, spent>>

\* Mutant: Created is reported false for the blob it just renamed.
BadCommitBlob(r) ==
  /\ up[r].pc = "absent"
  /\ blob' = blob \cup {up[r].sha}
  /\ up' = [up EXCEPT ![r].pc = "indexing"]
  /\ UNCHANGED <<log, torn, index, pg, seen, spent>>

\* os.Rename, and Created true.
CommitBlob(r) ==
  /\ up[r].pc = "absent"
  /\ blob' = blob \cup {up[r].sha}
  /\ up' = [up EXCEPT ![r].pc = "created"]
  /\ UNCHANGED <<log, torn, index, pg, seen, spent>>

LogUpload(r) ==
  /\ up[r].pc = "created"
  /\ Append1(AssetLine(up[r].sha, up[r].via))
  /\ up' = [up EXCEPT ![r].pc = "indexing"]
  /\ UNCHANGED <<blob, index, pg, acked, doomed, spent>>

\* 500 "could not record upload".
LogUploadFails(r) ==
  /\ up[r].pc = "created"
  /\ AppendLost({AssetLine(up[r].sha, up[r].via)})
  /\ up' = [up EXCEPT ![r] = NoUpload]
  /\ UNCHANGED <<blob, index, pg, acked, doomed, spent>>

\* RecordAsset, then 201.
RecordUpload(r) ==
  /\ up[r].pc = "indexing"
  /\ RecordAsset(up[r].sha, up[r].via)
  /\ acked' = acked \cup {up[r].sha}
  /\ up' = [up EXCEPT ![r] = NoUpload]
  /\ UNCHANGED <<disk, tomb, pg, doomed, lost, spent>>

\* 503 "upload stored but not indexed; retry to reconcile", or a commit whose
\* answer never reached the client.
RecordUploadFails(r) ==
  /\ up[r].pc = "indexing"
  /\ \/ UNCHANGED <<row, via, mapped, linked>>
     \/ RecordAsset(up[r].sha, up[r].via)
  /\ up' = [up EXCEPT ![r] = NoUpload]
  /\ UNCHANGED <<disk, tomb, pg, seen, spent>>

-----------------------------------------------------------------------------
(* The trash, and the purge: rows, then manifest, then files.              *)

\* Trash and Restore move an item and everything that travels with it.
Trash(c) ==
  /\ row[c] = "live" /\ ~Component(c)
  /\ row' = [d \in Content |->
               IF d \in Family({c}) /\ row[d] = "live" THEN "trash" ELSE row[d]]
  /\ UNCHANGED <<disk, via, mapped, linked, tomb, procs, seen, spent>>

Restore(c) ==
  /\ row[c] = "trash" /\ ~Component(c)
  /\ row' = [d \in Content |->
               IF d \in Family({c}) /\ row[d] = "trash" THEN "live" ELSE row[d]]
  /\ UNCHANGED <<disk, via, mapped, linked, tomb, procs, seen, spent>>

\* Mutant: the files of the family go, and only the rows that were selected.
PurgeSelectedRows(p, S) ==
  /\ Stimulus
  /\ pg[p].pc = "idle"
  /\ S # {} /\ \A c \in S : row[c] = "trash"
  /\ DropRows(S)
  /\ tomb' = tomb \cup Family(S)
  /\ doomed' = doomed \cup S
  /\ pg' = [pg EXCEPT ![p] = [pc |-> "logging", gone |-> Family(S), todo |-> Family(S)]]
  /\ UNCHANGED <<disk, up, acked, lost>>

\* Mutant: only the items somebody chose are tombstoned, not what went with them.
PurgeUntombed(p, S) ==
  /\ Stimulus
  /\ pg[p].pc = "idle"
  /\ S # {} /\ \A c \in S : row[c] = "trash"
  /\ DropRows(Family(S))
  /\ tomb' = tomb \cup S
  /\ doomed' = doomed \cup Family(S)
  /\ pg' = [pg EXCEPT ![p] = [pc |-> "logging", gone |-> Family(S), todo |-> Family(S)]]
  /\ UNCHANGED <<disk, up, acked, lost>>

\* One statement: the rows of the family go and their tombstones arrive.  The
\* selection is whatever in the trash was named, or has served its retention.
PurgeRows(p, S) ==
  /\ Stimulus
  /\ pg[p].pc = "idle"
  /\ S # {} /\ \A c \in S : row[c] = "trash"
  /\ DropRows(Family(S))
  /\ tomb' = tomb \cup Family(S)
  /\ doomed' = doomed \cup Family(S)
  /\ pg' = [pg EXCEPT ![p] = [pc |-> "logging", gone |-> Family(S), todo |-> Family(S)]]
  /\ UNCHANGED <<disk, up, acked, lost>>

\* Mutant: the files go as soon as the first line is written.
TombstonedOnce(p, c) == pg' = [pg EXCEPT ![p].pc = "unlinking", ![p].todo = pg[p].gone]

\* The next line of the purge is written or given up on; after the last one
\* the files go.
Tombstoned(p, c) ==
  LET rest == pg[p].todo \ {c}
  IN pg' = [pg EXCEPT ![p] =
              IF rest = {} THEN [pc |-> "unlinking", gone |-> @.gone, todo |-> @.gone]
                           ELSE [@ EXCEPT !.todo = rest]]

LogPurge(p, c) ==
  /\ pg[p].pc = "logging" /\ c \in pg[p].todo
  /\ Append1(PurgeLine(c))
  /\ Tombstoned(p, c)
  /\ UNCHANGED <<blob, index, up, acked, doomed, spent>>

\* "Loud, and not fatal."
LogPurgeFails(p, c) ==
  /\ pg[p].pc = "logging" /\ c \in pg[p].todo
  /\ AppendLost({PurgeLine(c)})
  /\ Tombstoned(p, c)
  /\ UNCHANGED <<blob, index, up, acked, doomed, spent>>

Unlinked(p, c) ==
  LET rest == pg[p].todo \ {c}
  IN pg' = [pg EXCEPT ![p] = IF rest = {} THEN NoPurge ELSE [@ EXCEPT !.todo = rest]]

UnlinkBlob(p, c) ==
  /\ pg[p].pc = "unlinking" /\ c \in pg[p].todo
  /\ blob' = blob \ {c}
  /\ Unlinked(p, c)
  /\ UNCHANGED <<log, torn, index, up, seen, spent>>

\* A file that will not go away is reported and left.
UnlinkFails(p, c) ==
  /\ pg[p].pc = "unlinking" /\ c \in pg[p].todo
  /\ Unlinked(p, c)
  /\ UNCHANGED <<disk, index, up, seen, spent>>

-----------------------------------------------------------------------------
(* The world going wrong.                                                  *)

\* Lines a crash now would catch in the middle of being written, or before.
Unwritten ==
  {AssetLine(up[r].sha, up[r].via) : r \in {q \in Request : up[q].pc = "created"}}
    \cup UNION {{PurgeLine(c) : c \in pg[p].todo} :
                 p \in {q \in Purger : pg[q].pc = "logging"}}

\* Everything in memory goes; an append in progress may leave part of a line.
Halt ==
  /\ IF Unwritten = {} THEN UNCHANGED <<torn, lost>>
     ELSE /\ torn' \in {torn, TRUE}
          /\ lost' = lost \cup {<<l.kind, l.sha>> : l \in Unwritten}
  /\ up' = [r \in Request |-> NoUpload]
  /\ pg' = [p \in Purger |-> NoPurge]
  /\ UNCHANGED <<blob, log, acked, doomed>>

Crash ==
  /\ Halt
  /\ UNCHANGED <<index, spent>>

\* The server stops and comes back with an empty, migrated database.
LoseDatabase ==
  /\ Halt
  /\ DropRows(Content)
  /\ tomb' = {}
  /\ UNCHANGED spent

-----------------------------------------------------------------------------
UploadStep(r) ==
  \/ StatBlob(r) \/ CommitBlob(r)
  \/ LogUpload(r) \/ LogUploadFails(r)
  \/ RecordUpload(r) \/ RecordUploadFails(r)

PurgeStep(p) ==
  \E c \in Content : \/ LogPurge(p, c) \/ LogPurgeFails(p, c)
                     \/ UnlinkBlob(p, c) \/ UnlinkFails(p, c)

Next ==
  \/ \E r \in Request, c \in Content, v \in Via : BeginUpload(r, c, v)
  \/ \E r \in Request : UploadStep(r)
  \/ \E c \in Content : Trash(c) \/ Restore(c)
  \/ \E p \in Purger, S \in SUBSET Content : PurgeRows(p, S)
  \/ \E p \in Purger : PurgeStep(p)
  \/ Crash
  \/ LoseDatabase

Spec == Init /\ [][Next]_vars

-----------------------------------------------------------------------------
(* What the order of the steps is for.                                     *)

\* Every original a client was told is archived is in the blob tree until a
\* purge has deleted its row: no crash, failed step, retry, or request racing
\* another ever costs the bytes (purge.go, upload.go).
AckedBytesSurvive == acked \subseteq blob \cup doomed

\* A row either has its original or its content is tombstoned: nothing is in
\* the gallery without bytes unless somebody permanently deleted it
\* (db/trash.go purgeSelect: the two must not be able to come apart).
RowHasBlobOrTombstone == \A c \in Content : row[c] # "none" => c \in blob \cup tomb

\* A content in the index has its line in the manifest, so that a rebuild
\* finds it, unless the one append that carried it was interrupted, or a second
\* request indexed it from under the first, which is about to append.
LineUnlessInterrupted ==
  \A c \in Content : row[c] # "none" =>
    \/ Logged("asset", c)
    \/ <<"asset", c>> \in lost
    \/ \E r \in Request : up[r].pc = "created" /\ up[r].sha = c

\* When an original a client was promised is gone, the manifest says it was a
\* decision rather than a loss (purge.go, the order of the steps), unless the
\* append that says so was interrupted.
LossIsOnRecord ==
  \A c \in acked \ blob : Logged("purge", c) \/ <<"purge", c>> \in lost

\* No original is unlinked while the next backup would upload it again: its
\* tombstone is in the database the unlink runs beside, however often that
\* database has been lost (purge.go: a row deleted without a tombstone).
TombstonedBeforeUnlinked == [][\A c \in blob \ blob' : c \in tomb]_vars

\* What a client is told is what the archive has done (Custody): no answer names
\* an original that has not been in the blob tree, or that was not purged from it.
Client == INSTANCE Custody WITH kept <- blob \cup doomed, claims <- acked

AcksOnlyKept == Client!Spec

-----------------------------------------------------------------------------
(* What the documentation says that the code does not do.                  *)

\* purge.go: the files go last because "a row deleted after its file would be
\* an asset the archive can no longer produce".
RowHasBlob == \A c \in Content : row[c] # "none" => c \in blob

=============================================================================
