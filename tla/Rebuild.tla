------------------------------ MODULE Rebuild ------------------------------
(***************************************************************************)
(* photobackup reindex and photobackup verify --fix, run beside the server *)
(* of Archive.                                                             *)
(*                                                                         *)
(* Each is a process of its own that reads the manifest a line at a time   *)
(* and writes the database, or the manifest, one row at a time, while the  *)
(* server uploads and purges.  Neither takes a lock the server respects.   *)
(***************************************************************************)
EXTENDS Archive

CONSTANT Tools   \* which of "reindex" and "verify" are run at all

VARIABLES
  rx,   \* a reindex in progress
  vf    \* a verify --fix in its manifest pass

tools   == <<rx, vf>>
allVars == <<vars, tools>>

-----------------------------------------------------------------------------
NoRx ==
  [pc |-> "idle", line |-> 0, cur |-> Corrupt, adopt |-> FALSE,
   seen |-> {}, retracted |-> {}, todo |-> {},
   base |-> {}, gone |-> {}, touched |-> {}]

NoVf ==
  [pc |-> "idle", line |-> 0, cur |-> Corrupt,
   indexed |-> {}, logged |-> {}, todo |-> {}, left |-> {}]

RxState ==
  [pc : {"idle", "scan", "record", "adopt", "recordOrphan", "tombstone", "drop", "done"},
   line : Nat,            \* lines read
   cur : Line,            \* what is about to be recorded
   adopt : BOOLEAN,       \* --adopt-orphans
   seen : SUBSET Content,
   retracted : SUBSET Content,
   todo : SUBSET Content, \* blobs the walk will come to
   \* observation only
   base : SUBSET Content,      \* originals nobody purged that it could find
   gone : SUBSET Content,      \* contents whose last line was a purge
   touched : SUBSET Content]   \* of those, archived by somebody else since

VfState ==
  [pc : {"idle", "rows", "scan", "fix", "append", "done"},
   line : Nat,
   cur : Line,                 \* the line about to be appended
   indexed : SUBSET Content,   \* rows read
   logged : SUBSET Content,    \* asset lines read
   todo : SUBSET Content,
   left : SUBSET Content]      \* observation: rows gone again, appends lost

RebuildTypeOK ==
  /\ TypeOK
  /\ rx \in RxState /\ rx.line <= Len(log)
  /\ vf \in VfState /\ vf.line <= Len(log)
  /\ rx.pc \in {"record", "recordOrphan"} => rx.cur.kind = "asset" /\ rx.cur.sha \in Content
  /\ vf.pc = "append" => vf.cur.kind = "asset" /\ vf.cur.sha \in Content

RebuildInit == Init /\ rx = NoRx /\ vf = NoVf

-----------------------------------------------------------------------------
(* The server beside them.                                                 *)

\* Contents somebody archived in this step, by a line or by a row.
Archived ==
  {c \in Content : \/ row[c] = "none" /\ row'[c] # "none"
                   \/ \E i \in (Len(log) + 1)..Len(log') :
                        log'[i].kind = "asset" /\ log'[i].sha = c}

Touch == rx' = [rx EXCEPT !.touched = @ \cup (Archived \cap rx.gone)]

\* Whatever the server does that leaves the database there.
ServerStep ==
  /\ \/ \E r \in Request, c \in Content, v \in Via : BeginUpload(r, c, v)
     \/ \E r \in Request : UploadStep(r)
     \/ \E c \in Content : Trash(c) \/ Restore(c)
     \/ \E p \in Purger, S \in SUBSET Content : PurgeRows(p, S)
     \/ \E p \in Purger : PurgeStep(p)
     \/ Crash
  /\ Touch
  /\ UNCHANGED vf

\* Both tools lose their connection with the database.
ServerLosesDatabase == LoseDatabase /\ rx' = NoRx /\ vf' = NoVf

-----------------------------------------------------------------------------
(* reindex: replay the manifest, adopt what it never recorded, take back    *)
(* what it says was destroyed.                                              *)

\* The last line about a content says it was purged.
Retracted(c) == \E i \in Lines("purge", c) : \A j \in Lines("asset", c) : j < i

StartReindex(adopt) ==
  /\ Stimulus
  /\ "reindex" \in Tools /\ rx.pc = "idle"
  /\ rx' = [NoRx EXCEPT
              !.pc = "scan", !.adopt = adopt,
              !.base = {c \in blob \ doomed : adopt \/ Logged("asset", c)},
              !.gone = {c \in Content : Retracted(c)}]
  /\ UNCHANGED <<disk, index, procs, seen, vf>>

RxMoves == UNCHANGED <<disk, index, procs, seen, spent, vf>>

\* Mutant: a purge line is skipped like any line that records no bytes.
ReplaysIgnoringPurges(l) ==
  rx' = [rx EXCEPT
           !.line = @ + 1,
           !.seen = IF l.kind = "asset" THEN @ \cup {l.sha} ELSE @,
           !.pc = IF l.kind = "asset" /\ l.sha \in blob THEN "record" ELSE @,
           !.cur = IF l.kind = "asset" /\ l.sha \in blob THEN l ELSE Corrupt]

\* Mutant: the kind of a line is not looked at before it is recorded.
ReplaysAnyKind(l) ==
  rx' = [rx EXCEPT
           !.line = @ + 1,
           !.seen = @ \cup {l.sha},
           !.retracted = IF l.kind = "purge" THEN @ \cup {l.sha} ELSE @ \ {l.sha},
           !.pc = IF l.sha \in blob THEN "record" ELSE @,
           !.cur = IF l.sha \in blob THEN l ELSE Corrupt]

\* Mutant: a line is recorded without looking for its blob.
ReplaysUnstored(l) ==
  rx' = [rx EXCEPT
           !.line = @ + 1,
           !.seen = @ \cup {l.sha},
           !.retracted = IF l.kind = "purge" THEN @ \cup {l.sha} ELSE @ \ {l.sha},
           !.pc = IF l.kind = "asset" THEN "record" ELSE @,
           !.cur = IF l.kind = "asset" THEN l ELSE Corrupt]

\* The callback of the scan: a purge line is held back, an asset line takes an
\* earlier purge line back and is recorded if the blob is there.
Replays(l) ==
  rx' = [rx EXCEPT
           !.line = @ + 1,
           !.seen = @ \cup {l.sha},
           !.retracted = IF l.kind = "purge" THEN @ \cup {l.sha} ELSE @ \ {l.sha},
           !.pc = IF l.kind = "asset" /\ l.sha \in blob THEN "record" ELSE @,
           !.cur = IF l.kind = "asset" /\ l.sha \in blob THEN l ELSE Corrupt]

\* A line that does not parse stops the scan, and the rebuild with it.
ReindexLine ==
  /\ rx.pc = "scan" /\ rx.line < Len(log)
  /\ IF log[rx.line + 1].kind = "corrupt" THEN rx' = NoRx ELSE Replays(log[rx.line + 1])
  /\ RxMoves

\* Mutant: --adopt-orphans only where there is something to retract.
EndsUnadopted ==
  /\ rx.pc = "scan" /\ rx.line = Len(log)
  /\ rx' = CASE torn -> NoRx
             [] ~torn /\ rx.adopt /\ rx.retracted # {} ->
                  [rx EXCEPT !.pc = "adopt", !.todo = blob \ rx.seen]
             [] OTHER -> [rx EXCEPT !.pc = "tombstone"]
  /\ RxMoves

\* The end of the log, or a partial line there.
ReindexEndOfLog ==
  /\ rx.pc = "scan" /\ rx.line = Len(log)
  /\ rx' = CASE torn -> NoRx
             [] ~torn /\ rx.adopt -> [rx EXCEPT !.pc = "adopt", !.todo = blob \ rx.seen]
             [] OTHER -> [rx EXCEPT !.pc = "tombstone"]
  /\ RxMoves

\* record: the row and the mapping of one line, or of one adopted blob.
ReindexRecord ==
  /\ rx.pc \in {"record", "recordOrphan"}
  /\ RecordAsset(rx.cur.sha, rx.cur.via)
  /\ rx' = [rx EXCEPT !.pc = IF @ = "record" THEN "scan" ELSE "adopt", !.cur = Corrupt]
  /\ UNCHANGED <<disk, tomb, procs, seen, spent, vf>>

ReindexRecordFails ==
  /\ rx.pc \in {"record", "recordOrphan"}
  /\ rx' = NoRx
  /\ RxMoves

\* The walk comes to a file no line named, which may be newer than the scan.
AdoptOrphan(c) ==
  /\ rx.pc = "adopt" /\ c \in blob \ rx.seen
  /\ rx' = [rx EXCEPT !.pc = "recordOrphan", !.cur = AssetLine(c, "web"),
                      !.seen = @ \cup {c}, !.todo = @ \ {c}]
  /\ RxMoves

\* A file that went before its directory was read is not there; one that went
\* after it is an error.
OrphanVanished(c) ==
  /\ rx.pc = "adopt" /\ c \in rx.todo \ blob
  /\ \/ rx' = [rx EXCEPT !.todo = @ \ {c}]
     \/ rx' = NoRx
  /\ RxMoves

AdoptEnds ==
  /\ rx.pc = "adopt" /\ rx.todo = {}
  /\ rx' = [rx EXCEPT !.pc = "tombstone"]
  /\ RxMoves

\* RecordPurged.
ReindexTombstone ==
  /\ rx.pc = "tombstone"
  /\ tomb' = tomb \cup rx.retracted
  /\ rx' = [rx EXCEPT !.pc = IF rx.retracted = {} THEN "done" ELSE "drop"]
  /\ UNCHANGED <<disk, row, via, mapped, linked, procs, seen, spent, vf>>

\* DropBySHA256: the family goes too, and is not tombstoned.
ReindexDrop ==
  /\ rx.pc = "drop"
  /\ DropRows(Family(rx.retracted))
  /\ rx' = [rx EXCEPT !.pc = "done"]
  /\ UNCHANGED <<disk, tomb, procs, seen, spent, vf>>

ReindexStops ==
  /\ rx.pc = "done"
  /\ rx' = NoRx
  /\ RxMoves

ReindexStep ==
  \/ ReindexLine \/ ReindexEndOfLog
  \/ ReindexRecord \/ ReindexRecordFails
  \/ \E c \in Content : AdoptOrphan(c) \/ OrphanVanished(c)
  \/ AdoptEnds \/ ReindexTombstone \/ ReindexDrop \/ ReindexStops

-----------------------------------------------------------------------------
(* verify --fix: write the manifest line of every row that has none.        *)

StartVerify ==
  /\ Stimulus
  /\ "verify" \in Tools /\ vf.pc = "idle"
  /\ vf' = [NoVf EXCEPT !.pc = "rows", !.todo = Content]
  /\ UNCHANGED <<disk, index, procs, seen, rx>>

VfMoves == UNCHANGED <<disk, index, procs, seen, spent, rx>>

\* EachAsset, in batches: each row is there or not when its batch is read.
VerifyRow(c) ==
  /\ vf.pc = "rows" /\ c \in vf.todo
  /\ LET rest == vf.todo \ {c}
     IN vf' = [vf EXCEPT !.todo = rest,
                         !.indexed = IF row[c] # "none" THEN @ \cup {c} ELSE @,
                         !.pc = IF rest = {} THEN "scan" ELSE @]
  /\ VfMoves

LogsAssets(l) ==
  [vf EXCEPT !.line = @ + 1, !.logged = IF l.kind = "asset" THEN @ \cup {l.sha} ELSE @]

VerifyLine ==
  /\ vf.pc = "scan" /\ vf.line < Len(log)
  /\ vf' = IF log[vf.line + 1].kind = "corrupt" THEN NoVf ELSE LogsAssets(log[vf.line + 1])
  /\ VfMoves

VerifyEndOfLog ==
  /\ vf.pc = "scan" /\ vf.line = Len(log)
  /\ vf' = IF torn THEN NoVf
           ELSE [vf EXCEPT !.pc = "fix", !.todo = vf.indexed \ vf.logged]
  /\ VfMoves

\* What a line rebuilt from a row says: everything but the still it was
\* declared the motion of.
FromRow(c) == AssetLine(c, IF via[c] = "web" THEN "web" ELSE "phone")

\* Mutant: only a live row is looked up.
VerifyLoadLive(c) ==
  /\ vf.pc = "fix" /\ c \in vf.todo
  /\ vf' = CASE row[c] = "none" -> [vf EXCEPT !.todo = @ \ {c}, !.left = @ \cup {c}]
             [] row[c] = "trash" -> [vf EXCEPT !.todo = @ \ {c}]
             [] row[c] = "live" -> [vf EXCEPT !.todo = @ \ {c}, !.pc = "append", !.cur = FromRow(c)]
  /\ VfMoves

\* AssetBySHA256; a row that has gone since is left.
VerifyLoad(c) ==
  /\ vf.pc = "fix" /\ c \in vf.todo
  /\ vf' = IF row[c] = "none"
           THEN [vf EXCEPT !.todo = @ \ {c}, !.left = @ \cup {c}]
           ELSE [vf EXCEPT !.todo = @ \ {c}, !.pc = "append", !.cur = FromRow(c)]
  /\ VfMoves

VerifyAppend ==
  /\ vf.pc = "append"
  /\ Append1(vf.cur)
  /\ vf' = [vf EXCEPT !.pc = "fix", !.cur = Corrupt,
                      !.left = IF torn THEN @ \cup {vf.cur.sha} ELSE @]
  /\ UNCHANGED <<blob, index, procs, acked, doomed, spent>>
  /\ Touch

\* The finding is reported as not fixed.
VerifyAppendFails ==
  /\ vf.pc = "append"
  /\ AppendLost({vf.cur})
  /\ vf' = [vf EXCEPT !.pc = "fix", !.cur = Corrupt, !.left = @ \cup {vf.cur.sha}]
  /\ UNCHANGED <<blob, index, procs, acked, doomed, spent, rx>>

VerifyEnds ==
  /\ vf.pc = "fix" /\ vf.todo = {}
  /\ vf' = [vf EXCEPT !.pc = "done"]
  /\ VfMoves

VerifyStops ==
  /\ vf.pc = "done"
  /\ vf' = NoVf
  /\ VfMoves

VerifyStep ==
  \/ \E c \in Content : VerifyRow(c) \/ VerifyLoad(c)
  \/ VerifyLine \/ VerifyEndOfLog
  \/ VerifyAppend \/ VerifyAppendFails
  \/ VerifyEnds \/ VerifyStops

-----------------------------------------------------------------------------
RebuildNext ==
  \/ ServerStep
  \/ ServerLosesDatabase
  \/ \E adopt \in BOOLEAN : StartReindex(adopt)
  \/ ReindexStep
  \/ StartVerify
  \/ VerifyStep

RebuildSpec == RebuildInit /\ [][RebuildNext]_allVars

-----------------------------------------------------------------------------
(* What a rebuild promises.                                                *)

Finishes == rx.pc \in {"tombstone", "drop"} /\ rx'.pc = "done"

\* A rebuild that finishes has a row for every original that was in the tree and
\* not purged, whatever was uploaded and purged meanwhile -- except the motion
\* of a still the log says was purged, which goes down with it
\* (reindex.go: the recovery path for a lost database).
RebuildRestores ==
  [][Finishes => \A c \in rx.base \ doomed :
       row'[c] # "none" \/ PartOf[c] \in rx.retracted]_allVars

\* A rebuild that finishes has resurrected nothing: a content whose last line is
\* a purge has no row and is tombstoned, unless somebody archived it meanwhile
\* (reindex.go, Retracted: a rebuild that ignored those lines would resurrect
\* everything ever deleted).
RebuildKeepsPurged ==
  [][Finishes => \A c \in rx.gone \ rx.touched :
       row'[c] = "none" /\ c \in tomb']_allVars

\* verify --fix that finishes leaves no row it found without a line, but those
\* whose append was lost and those purged before it came to them (verify.go:
\* the one finding --fix can resolve completely).
VerifyClosesGap ==
  [][vf.pc = "fix" /\ vf'.pc = "done" =>
       \A c \in vf.indexed \ vf.left : row[c] # "none" => Logged("asset", c)]_allVars

=============================================================================
