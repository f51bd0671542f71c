# Verification of photos-backup

TLA+ specifications of the parts of photos-backup in which losing a step, or
taking two in the wrong order, costs somebody a photograph or shows them a wrong
one. `photod` (Go) is the server that keeps the originals; phones (`expo-app/`)
and the browser (`web/`) upload to it and browse it, over the hooks they share
(`packages/core`); `photobackup` is the operator's command that rebuilds the
database and verifies the tree. Every definition is translated from the source, at the
lines `PROJECT.json` names under `map`.

    tlc -workers 2 -config MCArchive.cfg MCArchive    # model-check a run
    tlapm ArchiveProofs.tla                           # check the proofs

## 1. The system

### 1.1 Components

Paths are under `src/`; `si` stands for `src/server/internal`.

| Component | State it keeps | Operations | Hard part |
|---|---|---|---|
| **Blob store** `si/blobstore` | the originals, by SHA-256, under `blobs/` | `Stage`, `Put`, `Adopt`, `Remove` | a stat and a rename with anything in between |
| **Manifest** `si/manifest` | `manifest.jsonl`, append-only, fsynced | `Append`, `Scan` | a partial line after a crash; several processes append |
| **Index** `si/db` | `assets`, `device_assets`, `purged_content` (PostgreSQL) | `RecordAsset`, `Trash`, `Restore`, `purgeSelect`, `DropBySHA256` | the family of an asset travels with it; links made in either order |
| **Upload commit** `si/api/upload.go` | a request between two durable steps | `handleUpload`, `finishUpload` | three stores, no transaction across them |
| **Purge** `si/purge` | a purge between two durable steps | `destroy`, `tombstone`, the hourly `Expired` | rows first, then lines, then files |
| **Chunked sessions** `si/uploads`, `si/api/chunked.go` | part files and their sidecars | `Create`, `Append`, `Adopt`, `Discard`, `Sweep` | no lock; two requests of one session; bytes written and not synced |
| **Reindex** `si/verify/reindex.go` | nothing but locals | replay, adopt orphans, retract | runs beside the server, takes no lock |
| **Verify** `si/verify/verify.go` | nothing but locals | compares rows, lines and files; `--fix` | the same, and it is run nightly |
| **Job queue** `si/jobs` | `jobs` | `Enqueue`, `Requeue`, `claim`, `Heartbeat`, `Complete`, `Fail`, `Defer`, `ReclaimExpired` | leases that lapse under a live worker |
| **Workers** `si/worker` | a goroutine between two statements; the asset's `derived_state`, `playback_state` | `loop`, `execute`, one runner per kind | reports that are lost, or land on somebody else's row |
| **Vault** `si/vault`, `si/db/vault.go` | sealed records and blobs; `assets.vault` | seal, unseal, reconcile, album edits | plaintext removed by a sweep while an item comes back |
| **Phone sync engine** `expo-app/src/sync`, `background` | a SQLite queue of items; the run lock | enumerate, check, hash, upload, back off; Recheck, Retry failed, albums, pairing | killed at any line; outages against bad items; two starters |
| **sync/check** `si/api/sync.go` | none | what is known, mapped, purged | answers from the tombstones |
| **Timeline** `packages/core/src/react/useTimeline.ts`, `expo-app/src/gallery` | the table, the slots, pages in hand and in flight; the phone's cache of both | load, pump, declare a range, resync, poll | answers of another view, or another moment of the archive |
| **Upload page** `web/src/hooks/useUpload.ts` | rows, batches being read, the queue of a run | add, read, check, send; remove, cancel, reset | one map of controllers for reading and sending |
| **Albums, tags, people, timeline** `si/db` | their tables | single statements | two statements where one was meant |
| **Merges** `si/merge`, `si/db/merges.go` | proposals, heads, members | propose, join, refuse, undo | a set of assets that change under a job |
| **Imports** `si/takeout`, `si/snapchat` | none | parse exports, upload | replay by reindex |
| **Credentials** `si/devices`, `si/webauth`, `si/code` | devices, codes, sessions | pair, log in | rate limits |
| **Gallery API, media tools, photo-ml, the other screens, deployment** | caches, files | reads, renditions, embeddings | see `PROJECT.json` |

### 1.2 How they interact

An upload streams its body to a temporary file, verifies it, and then takes four
durable steps: a stat of the destination, a rename into the blob tree, a
manifest line, a row (with its mapping, its Live Photo link, and its first job).
It answers only then. A purge takes them in the opposite order: one statement
deletes the rows and inserts the tombstones, then a purge line each, then the
unlinks. The database can be lost: `reindex` replays the manifest into an empty
one; `--adopt-orphans` also takes in files no line names; purge lines retract.
`verify --fix` writes the manifest line of each row that has none. Both tools
are separate processes with their own database pool and their own `manifest.Log`,
run while the server serves.

The row an upload inserts comes with a `metadata` job. Workers claim jobs with
`for update skip locked`, beat every third of a ten-minute lease, and report
with `Complete`, `Fail` or `Defer`, each an update by the row's id alone. Every minute a
sweep takes back rows whose lease has lapsed. Others ask for work again while it
runs: the pairing of a Live Photo, `verify --fix`, a merge, the vault,
`photobackup ml`.

The phone keeps a row per photograph in SQLite. A run, started by the Backup tab
or by an iOS background window, takes batches of rows: those it has not hashed
are asked about by local id, those it has by digest (`sync/check`), and those the
archive wants are uploaded, by several workers, in chunks (`Sessions`). A row
becomes `done` when the archive answered that it has it. The buttons reach into
the queue beside the run.

The grids of the browser and of the phone are addressed by position. `useTimeline`
fetches one table, which gives every position its day, and then the pages that
the grid and the viewer declare they stand on. On a phone each request goes to
the cache as well, and whichever answers first is drawn. The browser's upload
page hashes what is dropped on it, asks the archive about it in batches, and
sends what is new with a few workers.

### 1.3 What makes each correct

* **Upload, blob store, manifest, index, purge.** What was acknowledged is stored
  until somebody purges it. Nothing is in the gallery without bytes. Everything
  in the index can be rebuilt from the log. Every loss is on record. A purge never
  frees bytes that the next backup would send again.
* **Reindex.** It brings back everything that can be found and nothing that was
  destroyed, whatever the server does meanwhile.
* **Verify.** `--fix` closes the gap between index and log, and what it writes
  makes no later rebuild wrong.
* **Jobs.** One worker per job unless its claim was taken back; a bounded number
  of attempts; no rendition is promised with no job behind it; everything settles.
* **Sessions.** An offset a chunk was answered with is a promise, kept through any
  crash. What is archived is whole. Every upload ends, however often it is interrupted.
* **Vault.** One of the plaintext and the sealed copy always exists; what was
  taken out stays out.
* **Phone.** Done is believed only after the answer, and is true of what the
  archive had; an outage spends nobody's attempts; only the ticked shared albums are
  fetched; every run ends.
* **Timeline.** A tile is the item at that position, under its own day; what the
  archive says replaces what the cache drew; what is looked at arrives, or the
  notice says why not.
* **Upload page.** One transfer per row; a run leaves nothing behind it queued; what is
  shown as archived is; a row that says it is being read is.

The hazards at their lines, with the properties that cover them, are in
`PROJECT.json` under `hazards`.

## 2. The modules

| Module | Extends | Models |
|---|---|---|
| `Archive` | | blob tree, manifest, index, tombstones; uploads, trash and purge; crash, loss of the database |
| `MCArchive` | `Archive` | a still and its paired video, two requests, one purge |
| `ArchiveProofs` | `Archive`, `TLAPS` | the theorems about `Archive` |
| `Rebuild` | `Archive` | `reindex` and `verify --fix` as processes beside that server |
| `MCRebuild` | `Rebuild` | a still and its paired video, one request, one purge |
| `RebuildProofs` | `Rebuild`, `ArchiveProofs` | the theorems about the tools, and about the server with them beside it |
| `JobQueue` | | `jobs`, workers, leases, the sweep, and every way of asking for a job |
| `Derivatives` | `JobQueue` | the metadata and playback runs of a video, and who pairs, hides and restores it |
| `MCDerivatives` | `Derivatives` | one video and its two jobs |
| `Sessions` | | part files, sidecars and the blob they become; the handlers, the sweep, the client that resumes |
| `JobQueueProofs` | `Derivatives`, `TLAPS` | the theorems about `JobQueue`, and about the runs over it |
| `SessionsProofs` | `Sessions`, `TLAPS` | the theorems about `Sessions` |
| `Custody` | | abstract: what a client and an owner are promised |
| `Backup` | | the phone's queue, its runs, both starters, the buttons; the archive as it answers them |
| `BackupProofs` | `Backup`, `TLAPS` | the theorems about `Backup`: types, and what done means |
| `BackupRunsProofs` | `BackupProofs` | the rest of them: what a run holds against what the queue says |
| `Timeline` | | the grid's hook, the phone's cache under it, an archive that moves |
| `MCTimeline` | `Timeline` | three items on two days, two orders of time and one without dates |
| `TimelineProofs` | `Timeline`, `TLAPS` | the theorems about `Timeline` |
| `Upload` | | the upload page: reading, checking, sending, and the buttons that stop them |
| `MCUpload` | `Upload` | two drops of five files |
| `UploadProofs` | `Upload`, `TLAPS` | the theorems about `Upload` |

`Archive` and `Backup` both `INSTANCE Custody WITH` a refinement mapping; `Rebuild`
composes the tools with the server of `Archive`, and `Derivatives` the runs with
`JobQueue`; the others stand alone.

### 2.1 Archive

State and code:

* `blob` is the set of contents whose original is in the tree; `log` and `torn`
  are `manifest.jsonl` and whether it ends in a partial line. A line keeps its
  kind, its digest and who delivered it.
* `row` is `assets.deleted_at` of a content: no row, live, or in the trash. `via` is
  what the row's columns say of its delivery: `web` (no device), `phone`
  (`origin_*`), `half` (`live_parent_local_id` too). `mapped` is `device_assets`,
  `linked` is `live_parent_asset_id`, `tomb` is `purged_content`.
* `up[r]` is a request between two durable steps of `finishUpload`; `pg[p]` a purge
  between two of `destroy`. Both are lost with the process.
* `acked`, `doomed`, `lost` observe: what a client was told, what rows a purge has
  deleted, which lines an interrupted append lost. No guard reads them.

Actions: `BeginUpload` (body staged and verified), `StatBlob`, `CommitBlob` (the
rename, `Created` true), `LogUpload`, `RecordUpload` (the whole `RecordAsset`
transaction and the answer), with the failure of each; a commit whose answer is
lost is the second disjunct of `RecordUploadFails`. `Trash`, `Restore` and
`PurgeRows` are one statement each over the family. `LogPurge` and
`UnlinkBlob` take one content at a time, each with its failure, which the code
logs and passes over. `Crash` empties memory and may leave part of any line being
written. `LoseDatabase` does that and empties the index: the disaster that
`reindex` exists for.

Abstractions. The retention a purge waits for is not counted: any set of trashed
contents may be due, or be named. Contents come from a phone or the browser, so
there are no overlays and no content identifiers to pair by. One phone: a local
id is a content. An `Append` is atomic unless it is interrupted, and a rename
survives a crash (section 6).

### 2.2 Rebuild

`rx` holds the locals of `Reindex`, `vf` those of `checkManifest`, each with a
program counter between two reads or writes. The scan goes a line at a time with
the server running in between; a line that does not parse, or a partial one at
the end, stops it, as `Scan` does. `Replays` is the callback: a purge line is
held back, an asset line takes an earlier one back and is recorded when its blob
is there. `AdoptOrphan` meets any file no line named, newer ones included.
`ReindexTombstone` is `RecordPurged` and `ReindexDrop` is `DropBySHA256`, in that
order. `VerifyRow` reads rows in batches, `VerifyLoad` looks a row up again before
`VerifyAppend` writes its line, rebuilt from its columns: the line does not carry
`live_parent_local_id`, as the code's does not.

`base`, `gone`, `touched` and `left` observe what was so when a tool
began and what happened meanwhile. `Tools` says which tools are run at all.
Dry runs write nothing and are left out; so is the replay of imports.

### 2.3 JobQueue and Derivatives

**The queue.** `row[j]` is a row of `jobs`: state, attempts, whether `run_after` has come and whether
`locked_at` is further back than the lease. `locked_by` is written and never read
by any statement, and is left out: that is the point of the module. `work[w]` is a
worker: running, or its row parked and the asset still to be told. `work[w].claim` is an
observation, ours, stale or gone; only `Report` reads it, to tell a deleted row from one
that is there, which is what updating by id does. `meddled` observes too.

`Enqueue`, `Requeue`, `Reconcile`, `RequeueMLPrep` and `Discard` differ in
which states of a row they touch. `Claim`, `Heartbeat`, `Complete`, `Fail`,
`Defer`, `MarkFailed` are the worker. `ClaimLost` and `ReportLost` are
statements that never arrive or whose answers do not. `Lapses` is a lease nobody beats for, `Stalls` one
whose beats did not get through. `ReclaimExpired` takes back every lapsed row in one
statement. Nothing in this module is bounded but the budget of attempts.

**The runs.** `Derivatives` says what a worker does between a claim and a report for
the two kinds of job that write `playback_state`. `asset[v]` has the four columns they read
and write; `run[w]` is how far a run is and what it read. Each statement is an action, because
minutes of ffmpeg lie between them and nothing orders the two kinds:

| Action | Code |
|---|---|
| `ReadAsset` | `GetAssetForProcessing`; in the vault, the run ends as done (`worker.go:528`, `932`) |
| `ApplyContentID` | `SetContentID` and the second read, when the file's identifier is not the declared one |
| `StoreMetadata` | `ApplyMetadata` |
| `OweNothing`, `KeepRendition` | `SetPlaybackState(none)`, or nothing: half of a Live Photo, undecodable, or ready and on disk |
| `OwePlayback`, `QueuePlayback` | the flip to `pending` (`worker.go:659`) and, a statement later, `Requeue` (`666`) |
| `BuildPlayback` | `runPlayback`: the transcode, or `none` for what has become half of a Live Photo |
| `CompleteRun`, `FailRun`, `DeferRun`, `LoseReport`, `TellFailed`, `MarkLost` | the end of a run, over the queue's own reports; a run that stops part way leaves what it wrote |
| `Pair`, `Hide`, `Restore`, `Demand` | a still that claims the video, the vault, and every way of asking |

`stranded` observes what `NothingStalled` excuses, until `playback_state` is next set to
something final:

* a video that went into the vault. Its playback job is deleted, or a run of it completes
  having done nothing, and `Restore` asks for the metadata job only if that never
  finished, although `worker.go:469` and `db/vault.go:725` say that the restore queues what was
  dropped;
* a request made while an older playback run had set its state and not yet reported:
  `Complete` is by id, and finishes the new request;
* a flip whose run stopped before `Requeue` while its row was no longer its alone, so that the
  row may be completed by somebody who decided earlier.

A parked row counts as a job behind the promise: the gallery can see it. `verify`'s
`StalledPlaybackAssets` is stricter, and lists those too; the sweep parks a row and tells no asset.

Abstractions. Any runnable row may be claimed, where the code takes the oldest of
the worker's kinds. Tools answer as they like. The runs of the other kinds, `live_state`, the
direct repair of `playback_state` by `verify --fix`, and the deletion of rows by the deletion
of their asset, are left out.

### 2.4 Sessions

`file[s]` is what is at a session's part path and at its blob's: the units in the
order they were appended, and how many are synced. `decl[s]` is the sidecar, `torn`
when it does not parse, `old` the sessions not touched for the TTL, and `phone[s]` what
the client knows. `req[r]` is a request between two system calls. A descriptor is
known by where its file is now (`fd`), so that it follows a rename into the blob
tree (`Followed`). `crossed`, `swept`, `answered` and the `cut` of a file observe.

Actions: every system call of `Create`, `Append`, `Adopt` and `Discard` that another
request can come before, in the code's order, with its failures. `Get` is one step.
`ChunkCopies` appends one unit to the open file; `ChunkSynced` answers with the
request's own count; `PartTouched` answers 0 whatever is there. `AdoptReads`
verifies what is at the path and `AdoptRenames` renames what is there then. The
sweep looks, removes the part and removes the sidecar, in three steps. `PhoneStops` is a client
that is killed, cut off, or done waiting (thirty seconds for a commit);
photod goes on with its request, and the client can come back while it does. `Killed` loses the process
and keeps the page cache; `PowerLoss` keeps what is synced, which `WrittenBack`
extends at any time.

Abstractions. A session is named after its content, so one session stands for one
original; two devices with the same one meet in Archive. All the refusals of a
chunk (404, 409, 500) send the client back to `Create`, whose count of replans belongs
to the phone's module. No client of the repository sends the status or the abort
request, or more than the chunk it announces: the rollback of a chunk that is too long
(`Append`'s truncation) is therefore left out.

What `PromisesKept` says and does not. `uploads.go` calls every offset it hands out a promise.
There are two kinds. One that `Append` answers with has been synced, and the property asks for
those bytes at every later state: `answered` remembers it although the client may forget. One
that `Create` answers with is the size of the file (`Get`), and counts what a killed photod, or
one whose fsync failed, had copied and never synced: of such a file (`cut`) a power loss takes the
end back, and the property leaves out what was read back of it. If that file is committed first, the
blob loses its end the same way, and a later upload of the same content is thrown away as
redundant: of a blob adopted while `cut`, `DoneIsWhole` and `PromisesKept` only say that it is there.
Sessions that had two requests at once, or that the sweep has picked, are left out of
`PromisesKept`; what those requests do to a part is the subject of `Archived` and `DoneIsImmutable`.

### 2.5 Custody

What a backup promises, whoever asks. `kept` is what has been put in safekeeping,
`claims` what somebody is being told is. A content is claimed one at a time, only
when it is kept, and `kept` never shrinks. `Archive` implements it with `kept` the
contents in the tree or deleted by a purge, and `claims` those acknowledged
(`AcksOnlyKept`): an answer given before the rename, or a tree that loses an
acknowledged original to anything but a purge, is no step of it. `Backup`
implements it with `kept` what the archive has ever had and `claims` the contents
that rows marked done name (`ClaimsOnlyKept`): the owner's promise rests on the server's.

### 2.6 Backup

`queue` is the `items` table, as rows; `photo` the version of each photograph on the
phone, as an edit keeps the identifier; `ticked` the chosen shared albums.
`run[n]` is a run: `pc` its loop, `batch` what it is asking or applying, `todo`, `hashing`
and `crew` its upload workers with what each holds in memory. `pairing` is the
credential. `held`, `purged` and `mapping` are the archive as `sync/check` and the
upload handlers use it. `ever`, `suspect` and `meddled` observe: what the archive has
ever had, what it has lost since, and whether a button was pressed. `Recheck` clears
`suspect` of what the queue says is done, since it has the archive asked again, but not of
what an upload under way has already been answered (`Told`): that answer was true when it was
made, the row it marks done later was not among those rechecked, and nothing asks again.

A step is what happens between two awaits: `Enumerate` (the scan of the library, its
enqueue and its prune), `CheckRound`, `AnswerCheck`, `Apply`, `Work`, `Hash`,
`Open`, `Deliver`, `Acked`, `Refused`, `Denied`, the idle `Sleep` and `Wake`. What fails
is `CheckFails`, `OpenFails` and `SendFails`, of three kinds: an archive nobody
reaches opens the breaker and costs the rows nothing, a 5xx opens it and is charged, an
item's own fault is charged. A 401 (`CheckRefused`, `Denied`) unwinds the run.
`Deliver` and `Acked` are apart: the archive has the content and the phone may never
hear of it. `Start` takes the lock of `exclusive.ts`; `Stop`, `RetryFailed`,
`Recheck`, `ForgetShared`, `Toggle` and `Pair` are the buttons; `Kill` ends every run and
keeps the queue. A run that a 401 unwinds leaves its uploads writing (`refused`),
as `Promise.all` does.

Abstractions. A content is an item at a version, and every other edit keeps the
length. `Enumerate` is one step, as nothing it reads is written meanwhile but by
another run, which the lock excludes. The order of a batch is any. A hash is one
step. The conditions (Wi-Fi, charge), labels, `describe`, temporary files and
logs decide nothing here. How a content is sent in chunks is in `Sessions`; the count of replans is
an item fault.

### 2.7 Timeline

| Model | Code (`useTimeline.ts`) |
|---|---|
| `table`, `slot`, `where`, `done`, `cursor`, `flight`, `want`, `resyncs` | the refs of the hook: the day model, `items`, `byID`, pages done, cursors, the map of controllers, ranges, the resync budget |
| `load`, `notice` | the effect that fetches the table and what it set; `error` |
| `store`, `reads`, `emptying` | `gallery/cache.ts`: cached tables and pages, reads of them under way, an issued `emptyStore` |
| `archive`, `view` | the server's items; the order and filter |

`Within` is what a view lists of what is held, in its order: the position of an item is
one more than the number of those before it, which is the count the server makes.
`After` is the comparison a cursor makes.

`Pump` is `pump`: it abandons what is no longer wanted and asks for the nearest of
what is. A server's answer is made (`PageAnswered`) and handled
(`PageRefused`, `PageAccepted`) in two steps, so the archive and the view may change
in between; a page that is `Misplaced` under the table starts the load over, while
one of the resyncs is left. `Heading` is what the server counts an item under, its day
in an order of time and nothing in any other; `Misplaced` compares the item's own
`Day` with whatever table is on screen, which after a change of view is for a while the
table of the view before. `TableAnswered`, `TableHandled`, `TableFailed`, `CacheLaysOut` and
`CachePage` do the same of tables and of the store. `Declare`, `SetView`,
`Retry`, `Reload` and `AlbumsChanged` are the callers; `Patch` is the poll for
derived state. `spoiled` and `shifted` observe: which pages came back short or
have lost slots, and whether the archive has changed at all.

Abstractions. `locate`, and unmounting, are left out. A save to the store happens with the
answer it saves. The store may answer null at any time, which is what expiry, a
prune and a sealed store do. What a tile knows of its item beyond its identity
is left out, so a `Patch` writes an item, at any time, at the position `byID` gives it:
the poll may be answered after another page replaced it. Pages as near as each
other go in either order.

### 2.8 Upload

`row` is the status of each row; `intake[i]` a drop: what is left to read, the batch
to ask about, the digests seen and the archive's answer in transit; `queue` the run's; `worker[w]`
one of its workers, and the answer in transit. `Add`, `Read`, `Unreadable`,
`CheckAnswered`, `CheckHandled` and `CheckFailed` are the intake, one await at a time; `Start`,
`Take`, `Leave`, `Received`, `Acked`, `Failed` and `Finish` the run; `RemoveRow`, `Cancel` and
`Reset` the buttons, each with the controllers it aborts. `Elsewhere` is another
client's upload, and counts as a press.

Abstractions. `add` is one step. Progress, toasts, previews and unmounting are
left out. The archive only grows: nothing is purged while the page is open, so a
duplicate that the archive refuses because it was purged is not modelled.

## 3. The runs

| Run | Shows |
|---|---|
| `archive` | Two uploads and a purge over a Live Photo, interleaved, failing at each step, with crashes and lost databases. `AckedBytesSurvive`: no interleaving costs acknowledged bytes except a purge. `RowHasBlobOrTombstone`: a row without bytes has been purged. `LineUnlessInterrupted`: a row has its line unless its one append was interrupted. `LossIsOnRecord`: an acknowledged original that is gone has its purge line, unless that was interrupted. `TombstonedBeforeUnlinked`. `AcksOnlyKept`: the refinement of `Custody`. |
| `rebuild` | `reindex`, with and without adoption, and `verify --fix` beside that server. `RebuildRestores`: every original in the tree, found by its line or by adoption, and never purged, has a row at the end, also over logs that `--fix` wrote to. `RebuildKeepsPurged`: what the log's last line purged has no row and a tombstone, unless somebody archived it meanwhile. `VerifyClosesGap`: no row verify read is left without a line. |
| `jobs` | The two jobs of one video, two workers; lapsed leases, lost statements, crashes; the video asked for again, paired, hidden or restored as it runs. `ExclusiveUnlessTakenBack`, `AttemptsWithinBudget`; `NothingStalled`: a rendition that is promised has a job behind it, but for what 2.3 lists; and, under fairness, `Settles`. |
| `sessions` | One upload, two requests in its session at once, a client that stops anywhere, the sweep, kills and power losses. `DoneIsWhole`: what was acknowledged is the original, unless its session was crossed or its fsync cut off. `PromisesKept`: what a chunk was answered with is there, and what `Create` read back, with the exceptions of 2.4. `Archived`, under fairness: every upload is archived, even one whose part two requests have spoiled, unless a torn sidecar stays: nothing removes one, as `Create` refuses it and the sweep looks only at parts. |
| `backup` | A photograph of the camera roll and one of a shared album, two runs from either starter, every failure, edits, kills, a revoked token, new pairings, purges and an archive that loses originals. `DoneWasArchived` and `ClaimsOnlyKept`: done is never said of what the archive never had. `DoneIsTrue`: and it is there still, or purged, or lost by the archive since. `OutageCostsNothing`, `OnlyTickedIsFetched`, `NoStaleRow`: what a run holds in memory is what the queue says, though nothing locks it. |
| `backup_ends` | `RunEnds`, under fairness: a run ends whatever fails in it, through backoffs, an open breaker and stops. |
| `timeline` | A grid over pages of one item, with a phone's store and without, as tables and pages fail, come late and out of order, the view changes and the archive moves. `RightPlace`: in a browser, while the archive stands still, each tile is the item of that position in the view it is under. `UnderItsHeading`: while the archive and the view move, each is at least under its own day in whatever table is on screen, as long as a resync is left. `DoneIsDrawn`: a page in hand is drawn whole. `Replaced`: with a store, what the archive holds replaces what the cache drew. `WantedIsInHand`, under fairness. |
| `upload` | Two drops of five files, three of them the same bytes and one no photograph; two workers; reads, checks and sends that fail; somebody removing, cancelling and resetting at any moment. `TransferPerRow`, `NothingLeftQueued`, `ShownIsTrue`, and, under fairness, `RunEnds`. |

Runs that are expected to fail, each a sentence of the repository that its code
does not keep (`PROJECT.json`, `findings`):

| Run | What the sentence says, and what happens |
|---|---|
| `archive_race` | A row has its original. An upload that found the blob present records it after a purge, whose row was already gone, unlinks it: acknowledged, live, and no bytes. |
| `sessions_immutable` | Originals are immutable. A chunk still being copied follows the file into the blob tree and appends to it. |
| `timeline_blank` | A position is undefined only while its item is being fetched. A page that lands between a reload and its table is wiped by the table and stays marked in hand: nothing asks for it again. |
| `upload_reading` | Removing one row stops one transfer. Removing the row that is being read ends the reading of its whole drop, whose other rows say they are being read for ever, and the Upload button stays disabled. |

Other places where the code and what is said of it part were met while modelling,
and are in the actions without a run of their own:

* *Manifest and tools.* `Append` does not look at how the file ends, and a line after
  a partial one is merged with it. Content purged and archived again while its blob was still
  there has no newer line, and a rebuild drops its row. `Get` reports the size of
  a part that a killed photod had not synced.
* *Jobs.* A job asked for again while it runs is completed by the run in progress. The
  sweep parks a job and tells no asset, whose derived state stays pending. What went
  into the vault with a rendition owed comes back without the job that would make it.
* *Phone.* The uploads of a run that a 401 unwound go on writing after the lock is free. A row's
  `modifiedAt` is never refreshed. The upload path never consults tombstones. A drain that
  finds nothing ends although a row becomes due. An edit that keeps the length is sent
  under the old digest and refused. `run()` can say it is up to date after it threw.
* *Timeline.* `byID` is stale once a cached page has been overwritten, and a `Patch` then
  draws an item in another's slot. Cached reads spend the resync budget. A read of a previous
  view's page can land in the new one. A success elsewhere clears the notice of a
  failed table.
* *Upload page.* Cancel aborts what is in the air, and the workers go on with the
  queue. A twin stays a duplicate when the row it duplicates is removed. The same photograph in two
  drops is caught by the archive only.

### Bounds

* `archive`: a still and its paired video, which is every kind of family the
  uploads make; two requests, because the races are between the request that
  creates a blob and one that finds it, and both can be of the same content; one
  purge. `MaxStimuli = 4` bounds how many uploads and purges are begun, which is
  what lengthens the log; crashes, failures, trash and restore are unbounded.
  Four allow upload, purge, upload again and purge again of one content.
  The slots of requests are symmetric.
* `rebuild`: one request and one purge, as what matters is the tool against
  either; a reindex or verify that is begun counts as a stimulus. Four: upload,
  purge, upload, rebuild; two uploads, a purge and a rebuild; or an upload
  whose line was lost, the fix, a purge and a rebuild.
* `jobs`: one video, since no statement but the sweep relates two, with its two jobs, and two
  workers, so that a metadata and a playback run interleave, or two runs of one of them.
  `MaxAttempts = 2` has both a retry and a last attempt. `MaxAsks = 1` and
  `MaxFaults = 1`: a request, a pairing, a hiding or a second identifier costs an ask; a
  crash, a lost statement or a stall a fault; failures, lapses and beats cost nothing, and a metadata run asks
  for the playback one itself. The safety properties were checked with two of either as well, and are
  proved for any number of videos, workers, asks and faults.
* `sessions`: one session, since no step but a crash touches two. Three units in
  chunks of two give a chunk that arrives in part, a second chunk and a short
  last one. Two requests, as a third meets what the second already spoiled.
  `MaxFaults = 2` allows a kill and a power loss, or a session that ages as a client is cut off;
  three were checked and hold as well.
* `backup`: one photograph that can be edited and one of a shared album, as rows
  meet only in a batch; batches of two to check and one to hash, two upload workers, so that a
  worker throws while another sends. Two runs: what the first leaves behind meets the
  second. `MaxAttempts = 2` has a retry and a parking. One each of
  outages, faults, button presses and upheavals, in any order; two upheavals, or two of
everything else, were checked and hold as well. `backup_ends` has one
  run and one worker, as a run ends by itself.
* `timeline`: pages of one item, so that three items are three pages and two requests in
  flight leave one waiting. The orders put each item at every position, one of them has no
  dates and so no cursors. `MaxResyncs = 1` reaches both sides of the budget. The archive may
  have lost its first item since the phone's last launch, which shifts every cached page. One
  outside event with a store and three without: an event is a change of view, of a range, of the
  archive, a failure or a reload, and the store multiplies the states.
* `upload`: the two drops have a duplicate within a drop, one across drops, a refused file
  and a new content; two workers over three files. `CheckBatch = 1` (2 was checked as
  well) asks more than once per drop. One fault and two presses: a row is removed and the run
  cancelled, or the page reset and used again.

Deadlock is checked in the runs of `Archive` and `Rebuild`, where a server can
always do something. It is not in the others, which really may stop: when the
budgets are spent, an idle queue, a finished upload, a run that is over and a grid that has
all it wants have nothing left to do.

### Fairness

Five properties need any, all of it weak. `Settles` (`Derivatives!Fairness`):

* `Take`, per worker: `loop` polls every five seconds and on every nudge,
  for ever.
* `Working`, per worker: a run ends and reports. The code puts no timeout on
  its subprocesses, so this is an assumption about ffmpeg and exiftool and a
  listed hazard. `Beat`, `DeferRun` and lost reports are not assumed to happen.
* `Elapse`, per job: time passes.
* `Sweep`: the sweep ticks every minute.

`Archived` (`Sessions!Fairness`): handlers run; the sweep ticks hourly; a client
that is not done comes back, which the engine's retries do until an item has
failed too often; and a session that no retry can touch grows old (`Ages`).

`Backup!RunEnds` (`Backup!Fairness`): a run's loop takes its turns, its requests are answered or
time out, and a row's backoff passes. Nobody is assumed to press Stop.

`WantedIsInHand` (`Timeline!Fairness`): requests for tables and pages are answered and the
answers handled; a failure is an answer too. Nothing is assumed of the store, of scrolling or of
Retry.

`Upload!RunEnds` (`Upload!Fairness`): a worker takes the next row or leaves, and an upload
is answered or breaks. Reading and checking are not assumed to end.

Asks and faults are not fair: they may stop, and are bounded, as `Settles` can
only be promised to a job that is not asked for again for ever.

## 4. The theorems

Proved by TLAPS for every value of the constants: any number of contents,
requests, purges, jobs, workers, sessions, photographs, runs, items, views, files and drops,
any page size, any budget. Every invariant and every action property that a passing run checks
is a theorem, and so are the two refinements of `Custody`.

`ArchiveProofs` and `JobQueueProofs` prove their type invariant, which every later
proof uses, and then one inductive invariant per property: a named formula that
contains the property, shown to hold initially and to be kept by every action,
one step of the proof per action. The others prove one invariant (`IInv`, `RInv`,
`RebuildInv`) from which all of their theorems follow. TLC has checked each
inductive invariant on the instance of its run.

### 4.1 ArchiveProofs

Assumed: `PartsAssumption` (a paired video is not itself paired, which is what
`notComponent` and the one-level `family` rely on) and `BoundAssumption`.

| Theorem | Says | Inductive invariant, and why the property alone is not inductive |
|---|---|---|
| `TypeCorrect` | `[]TypeOK` | `TypeOK` itself; it includes that no link or mapping dangles, so the steps on the index are the work |
| `AckedBytesSurviveCorrect` | `[]AckedBytesSurvive` | `SurviveInv`: an upload is answered two steps after its rename, and a purge unlinks two steps after its rows, so both kinds of steps in progress must be covered |
| `RowHasBlobOrTombstoneCorrect` | `[]RowHasBlobOrTombstone` | `TombInv`: the same with tombstones; a lost database takes them along with every row and every request that relied on them |
| `TombstonedBeforeUnlinkedCorrect` | the action property | from `TombInv`: what a purge is about to unlink is tombstoned |
| `LossIsOnRecordCorrect` | `[]LossIsOnRecord` | `RecordInv`: a purge that has logged its lines has all of them on record, the one being logged those it has done |
| `AcksOnlyKeptCorrect` | the refinement of `Custody` | from `SurviveInv`: every step keeps, deletes or acknowledges what is kept, or stutters |
| `LineUnlessInterruptedCorrect` | `[]LineUnlessInterrupted` | `LineInv`: a content in the tree or the index has its line, or lost it, or its upload has just renamed; `LineKnownStays`, that nothing undoes this, carries the proof |

### 4.2 JobQueueProofs

Assumed: `QueueAssumption` (a budget of at least one attempt) and `DerivativesAssumption` (two jobs
per video, bounds that are numbers).

| Theorem | Says | Inductive invariant, and why |
|---|---|---|
| `QueueTypeCorrect` | `Spec => []TypeOK` | `TypeOK` itself |
| `ExclusiveCorrect` | `Spec => []ExclusiveUnlessTakenBack` | `OwnerInv`: the worker whose claim stands is alone until it has told the asset, and the row is running, or failed while it is marking; the property is silent about a marking worker |
| `AttemptsCorrect` | `Spec => []AttemptsWithinBudget` | `BudgetInv`: the attempts an owner remembers, by which it decides to retry or park, are those of its row; needs `OwnerInv`, as another owner's claim would change them |
| `DerivativesUseTheQueue` | `DerivSpec => Spec` | none: every action of a run takes a step of the queue or none, so the three above hold under the runs |
| `TypingCorrect` | `DerivSpec => []Typing` | `Typing` itself |
| `NothingStalledCorrect` | `DerivSpec => []NothingStalled` | `StallInv`: a pending rendition has a playback row that is not done and that no run which has had its say is about to complete, or a metadata run between its two statements, or a metadata row none of whose runs has concluded that nothing is owed. The property alone does not say that nobody is about to complete the row |

The lemmas `RunReports` and `ReportEffect` say once what every report of a worker
does to rows and workers, and are what the invariants cite for it.

### 4.3 BackupProofs

Assumed: `BackupAssumption` (library and shared albums are apart, the sizes are
positive, null is no version).

`IInv` is `QueueOK` (one row per item) and `Plain` (types), `Runs` (every run has its type, and
what it holds is true: an upload that was acked is of a content the archive had, an
answer to apply names one, or a purged photograph), `Archived` (the archive maps
items only to what it has had) and `Claims` (so of every done row). The
property alone is not inductive, because a row is marked done from an answer made
several steps before; `Runs` says it of the answers, and it stays true of them
because `ever` and `purged` only grow.

| Theorem | Says |
|---|---|
| `TypeCorrect` | `[]TypeOK` |
| `DoneWasArchivedCorrect` | `[]DoneWasArchived` |
| `ClaimsOnlyKeptCorrect` | the refinement of `Custody`: each step is one of its steps or a stutter |

### 4.4 UploadProofs

Assumed: `UploadAssumption` (a key per file, so drops are apart; positive sizes).

| Part of `IInv` | Says, and why it is needed |
|---|---|
| `TypeOK`, `BatchOK` | types; a batch being filled has room, without which `CHECK_BATCH` could be passed |
| `ReadingOK` | what an intake has yet to settle is its own, once, and is checking or gone: its late answers cannot write over a row that is being sent |
| `RunOK` | what is queued is in the queue, a queue has a worker to empty it, and a row that is sending has exactly one |
| `AnswersOK` | an answer in transit is true, and stays so, as the archive grows |

`TypeCorrect`, `TransferPerRowCorrect`, `NothingLeftQueuedCorrect` and
`ShownIsTrueCorrect` follow from it.

### 4.5 RebuildProofs

The invariants of the server (`TypeOK`, `SurviveInv`, `TombInv`) carry over through the tools'
steps, and beside them stands what a tool is owed by the manifest it is reading:

| Part of `RebuildInv` | Says, and why it is needed |
|---|---|
| `LogSound` | a readable line names a content, and a purge line one whose row a purge deleted: a line read cannot retract what nobody purged |
| `CurStored` | what is about to be recorded was stored, or is tombstoned by now |
| `Restoring` | each original owed a row has one, or is in hand, or has an asset line ahead of the scan, or is no line's and will be walked to (`Found`); this is what stands in for the prefix of the log already read |
| `Retracting` | the purge line that settles a content lies ahead of the scan or is held back (`Settled`); when the rows go, the tombstones are there |
| `Closing` | a row verify read without a line is before it, in its hand, or has one |

`Beside` says once what the server, or the other tool, may do meanwhile: the manifest
only grows, and soundly; a file goes only if its row was deleted and its tombstone written; a row
only by a purge. From it `RxKept` and `VfKept` show that a tool nobody moved is
owed what it was, so the concurrency is one lemma and each step of a tool another.

| Theorem | Says |
|---|---|
| `RebuildTypeCorrect` | `[]RebuildTypeOK` |
| `RebuildRestoresCorrect`, `RebuildKeepsPurgedCorrect` | the two promises of a rebuild, at the step that finishes it |
| `VerifyClosesGapCorrect` | the promise of `verify --fix` |
| `RebuildRowHasBlobOrTombstone`, `RebuildAckedBytesSurvive`, `RebuildTombstonedBeforeUnlinked`, `RebuildLossIsOnRecord`, `RebuildAcksOnlyKept` | what `Archive` promises alone, its refinement of `Custody` included, it promises with both tools running beside it |

### 4.6 SessionsProofs

Assumed: `NoFileAssumption` (no file at all is not a file) and `SessionAssumption` (the sizes).

`IInv` has the types with the shape of each open descriptor (`Sound`), `WholeOK` for what is
being verified, renamed or has been, and `PromiseOK` for the offset the client holds, each per
session and per step of a request. `DoneIsWhole` is not inductive by itself, because the file is
verified two steps before it is renamed and acknowledged; nor is `PromisesKept`, because an
offset is computed from a file that another request can replace before it is answered. It
also matters that an offset a request answers with is never behind the one the phone already has:
otherwise a later fsync that succeeds would make a promise good again that an earlier one broke,
and no record of the break would be left.

`AnswersOK` stands on `IInv`: what chunks were answered with is on the platter in the part, until
there is a blob. `NothingLess` is its lemma: of a session that the sweep has not picked, no step
leaves less of the part on the platter, unless it is by then in the blob. A crash keeps what is synced,
a rename carries it along, `Discard` follows a rename or meets a blob, and a commit is never
rejected there, as `IInv` has the part a beginning of the original.

| Theorem | Says |
|---|---|
| `Typed` | `[]TypeOK` |
| `DoneMeansWhole` | `[]DoneIsWhole`, for sessions with one request at a time |
| `PromisesAreKept` | `[]PromisesKept`, for those of them that the sweep has not picked; what it leaves out beside those is in 2.4 |

### 4.7 BackupRunsProofs

On top of `IInv` of `BackupProofs`, `RInv`:

| Part of `RInv` | Says, and why it is needed |
|---|---|
| `Shaped`, `Alone` | what a run holds fits where it is, and one run is running: the lock of `exclusive.ts` |
| `Fresh` | a row in a run's hand is the row in the queue, or was deleted; needs `Alone`, as nothing else locks the queue |
| `Ticked` | a shared row in hand belongs to a ticked album, while no button was pressed |
| `Unspoilt` | without an item's own fault nobody's attempts are spent, in the queue or in a hand |
| `Truth` | a done row, an answer to apply and an upload that was answered are of what the archive has, has purged, or is known to have lost |

| Theorem | Says |
|---|---|
| `DoneIsTrueCorrect` | `[]DoneIsTrue` |
| `OutageCostsNothingCorrect` | `[]OutageCostsNothing` |
| `OnlyTickedIsFetchedCorrect` | `[]OnlyTickedIsFetched` |
| `NoStaleRowCorrect` | `[]NoStaleRow` |

Looking for `Truth` showed what `Told` is for (2.6): an upload left by an unwound run can be
answered, the archive lose that original, the owner press Recheck, and only then the row be
marked done. One upheaval and one press in a row do not reach it; two upheavals do.

### 4.8 TimelineProofs

Assumed: `TimelineAssumption` (a finite set of items, every view lists each of them once, the orders
of time are views, a page and a flight hold at least one).

| Part of `IInv` | Says, and why it is needed |
|---|---|
| `Typing` | types, a page is not both in hand and in flight, and at most `MaxInFlight` are out |
| `OnScreen` | what a load has laid out is what is on screen, so that a late copy of it changes nothing |
| `DrawnInHand` | without a store only pages in hand are drawn, and `where` points at nothing else |
| `Fetched` | while the archive stands still every cursor is the item just before its page and every answer is what the archive would say now |
| `RightPlace`, `UnderItsHeading`, `DoneIsDrawn`, `Replaced` | the properties |

Two lemmas about operators carry it. `AfterIsRest`: the page after the item before it is the
page at that offset, which is why cursors and offsets can be mixed; it rests on `RankReaches`, that
counting the items before each gives every position exactly once, a pigeonhole argument over a
finite set. `PumpIs`: what `pump` leaves out are pages not in hand, at
most `MaxInFlight` of them, each request kept as it was or newly made. After them there is one
lemma per action.

| Theorem | Says |
|---|---|
| `Typed` | `[]TypeOK` |
| `TilesAreInPlace` | `[]RightPlace` |
| `HeadingsHold` | `[]UnderItsHeading` |
| `InHandIsDrawn` | `[]DoneIsDrawn` |
| `NetworkReplaces` | `[]Replaced` |

## 5. Only model-checked

* `Settles`, `Archived`, both `RunEnds` and `WantedIsInHand`: liveness under
  fairness is beyond the prover.
* The findings: a counterexample needs no proof.
* `LineUnlessInterrupted` is the one safety property of `Archive` that is not proved of
  `RebuildSpec`, because there it does not hold: `--adopt-orphans` indexes a file that has no
  line, and writes none.

## 6. Not modelled, and why

* **A disk that forgets a completed rename.** `Put` does not fsync the directory.
  The crash of `Archive` stops processes and keeps what they completed. Listed
  as a hazard.
* **Two processes' appends interleaving inside a line.** Each `Log` has its own mutex
  and relies on `O_APPEND`.
* **Overlays, merges, imports, albums.** They come from the Snapchat import and the
  gallery, and add members to families and lines to the manifest.
* **The vault.** Planned. `Derivatives` has what it does to the jobs of an asset.
* **What a run that breaks off leaves of a reindex.** `RecordPurged` and `DropBySHA256` may fail
  (`reindex.go:441-447`) and end the tool with an error. The promises of a rebuild are made at the
  step that finishes it, which such a run never takes.
* **A chunk longer than it announced** (2.4), and the other kinds of job (2.3).
* **The rest of the two clients.** Most of the repository's TypeScript is components
  that lay out and style what the hooks hold (the grids' geometry, gestures,
  dialogs, tag tools), and wire types: their state is local and sequential.
  The rules by which they ask for ranges, start and stop runs, and drive the upload page are in
  `Timeline`, `Backup` and `Upload`. `useSelection`, `useVault`, `useTrash`, `useAlbums` and
  `useSearch` hold one request at a time.
* **Media tools, geocoding, search, photo-ml, deployment.** Pure functions of files,
  reads, or other programs: what a run of them decides is a nondeterministic
  outcome of a job.
* **Credentials.** Out of the durable core.

## 7. Plan

Order: what loses data first.

1. `Archive`, `Rebuild`, `JobQueue`, `Sessions`, with `ArchiveProofs` and `JobQueueProofs`: done.
2. `Custody`, and `Archive` and `Backup` as implementations of it, with proofs: done.
3. `Backup`, `Timeline`, `Upload`, with `BackupProofs` and `UploadProofs`: done.
4. `SessionsProofs`, `BackupRunsProofs`, `TimelineProofs`, `RebuildProofs`: done.
5. `Vault`: seal, unseal, the hourly sweep, a crash between any two. Property: the
   plaintext or the sealed copy of every item exists, and what left the vault
   keeps its plaintext.
6. `Derivatives`, the metadata and playback jobs of one asset over `JobQueue`, with its proofs: done.
7. Theorems: the safety half of the liveness properties, as invariants: what is wanted and not
   in hand is in flight, or a notice says why (`Timeline`); a job that is not settled has
   an owner or a row that will come due (`JobQueue`).
