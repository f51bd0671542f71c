--------------------------- MODULE RebuildProofs ---------------------------
(***************************************************************************)
(* What holds of Rebuild for every set of contents, requests and purges,   *)
(* every number of stimuli, and whichever tools are run.                   *)
(*                                                                         *)
(* The server's own invariants are those of ArchiveProofs, carried through *)
(* the steps of the tools.  What a tool is owed by the manifest it is      *)
(* reading is stated over the lines it has still to read.                  *)
(***************************************************************************)
EXTENDS Rebuild, ArchiveProofs

-----------------------------------------------------------------------------
(* The invariant.                                                          *)

RxTyped ==
  /\ rx \in RxState /\ rx.line <= Len(log)
  /\ rx.pc \in {"record", "recordOrphan"} => rx.cur.kind = "asset" /\ rx.cur.sha \in Content

VfTyped ==
  /\ vf \in VfState /\ vf.line <= Len(log)
  /\ vf.pc = "append" => vf.cur.kind = "asset" /\ vf.cur.sha \in Content

\* A readable line names a content, and a purge line one whose row is gone.
LogSound ==
  \A i \in 1..Len(log) :
    /\ log[i].kind # "corrupt" => log[i].sha \in Content
    /\ log[i].kind = "purge" => log[i].sha \in doomed

\* Nothing is recorded that was never stored.
CurStored ==
  rx.pc \in {"record", "recordOrphan"} => rx.cur.sha \in blob \cup tomb

\* What verify still owes a line is before it, or has one.
Closing ==
  /\ \A c \in vf.logged : Logged("asset", c)
  /\ vf.pc \in {"fix", "append"} =>
       \A c \in vf.indexed \ vf.left :
         c \in vf.todo \/ (vf.pc = "append" /\ vf.cur.sha = c) \/ Logged("asset", c)

\* A content is indexed, or the rebuild is still to come to it.
Found(c) ==
  \/ row[c] # "none"
  \/ rx.pc \in {"record", "recordOrphan"} /\ rx.cur.sha = c
  \/ rx.pc \in {"scan", "record"} /\ \E k \in Lines("asset", c) : k > rx.line
  \/ rx.pc \in {"scan", "record"} /\ rx.adopt /\ c \notin rx.seen
  \/ rx.pc \in {"adopt", "recordOrphan"} /\ c \in rx.todo

Restoring ==
  /\ rx.retracted \subseteq doomed
  /\ rx.base \ doomed \subseteq blob
  /\ rx.pc # "done" => \A c \in rx.base \ doomed : Found(c)

\* The purge line that settles a content is ahead of the scan, or held back.
Settled(c) ==
  \E k \in Lines("purge", c) :
    /\ \A j \in Lines("asset", c) : j < k
    /\ k <= rx.line => c \in rx.retracted

Retracting ==
  /\ rx.pc \in {"scan", "record"} => \A c \in rx.gone \ rx.touched : Settled(c)
  /\ rx.pc \in {"adopt", "recordOrphan", "tombstone", "drop"} =>
       rx.gone \ rx.touched \subseteq rx.retracted
  /\ rx.pc = "drop" => rx.retracted \subseteq tomb

ServerInv == TypeOK /\ SurviveInv /\ TombInv
RxInv == RxTyped /\ CurStored /\ Restoring /\ Retracting
VfInv == VfTyped /\ Closing

RebuildInv == ServerInv /\ LogSound /\ RxInv /\ VfInv

-----------------------------------------------------------------------------
(* What the server, or a tool, does to everybody else.                     *)

\* The manifest only ever grows.
LogGrows ==
  /\ Len(log') \in Nat /\ Len(log) \in Nat /\ Len(log) <= Len(log')
  /\ \A i \in 1..Len(log) : log'[i] = log[i]

\* What is added to it is a line of a content, or unreadable.
GrowsSound ==
  \A i \in (Len(log) + 1)..Len(log') :
    /\ log'[i].kind # "corrupt" => log'[i].sha \in Content
    /\ log'[i].kind = "purge" => log'[i].sha \in doomed'

Beside ==
  /\ LogGrows /\ GrowsSound
  /\ doomed \subseteq doomed' /\ tomb \subseteq tomb'
  /\ \A c \in blob \ blob' : c \in doomed /\ c \in tomb
  /\ \A c \in Content : row[c] # "none" => row'[c] # "none" \/ c \in doomed'

\* A rebuild nobody moved has only had what was archived meanwhile noted.
RxWatches ==
  /\ rx'.pc = rx.pc /\ rx'.line = rx.line /\ rx'.cur = rx.cur /\ rx'.adopt = rx.adopt
  /\ rx'.seen = rx.seen /\ rx'.retracted = rx.retracted /\ rx'.todo = rx.todo
  /\ rx'.base = rx.base /\ rx'.gone = rx.gone
  /\ rx.touched \subseteq rx'.touched
  /\ Archived \cap rx.gone \subseteq rx'.touched

\* A manifest nobody wrote has grown by nothing.
LEMMA LogKept ==
  ASSUME log \in Seq(Line), log' = log
  PROVE  LogGrows /\ GrowsSound
<1>1. Len(log) \in Nat
  OBVIOUS
<1> QED
  BY <1>1 DEF LogGrows, GrowsSound

\* A manifest somebody appended to has grown by that line or a corrupt one.
LEMMA LogAppended ==
  ASSUME log \in Seq(Line), NEW line \in Line, Append1(line),
         line.sha \in Content, line.kind = "purge" => line.sha \in doomed'
  PROVE  /\ LogGrows /\ GrowsSound
         /\ Len(log') = Len(log) + 1
         /\ log'[Len(log) + 1] = IF torn THEN Corrupt ELSE line
<1> DEFINE l == IF torn THEN Corrupt ELSE line
<1>1. l \in Line /\ Corrupt.kind = "corrupt"
  BY DEF Corrupt, Line, Via
<1>2. log' = Append(log, l)
  BY DEF Append1
<1>3. /\ l.kind # "corrupt" => l.sha \in Content
      /\ l.kind = "purge" => l.sha \in doomed'
  BY <1>1
<1> HIDE DEF l
<1>4. /\ Len(log) \in Nat /\ Len(log') = Len(log) + 1
      /\ log'[Len(log) + 1] = l
      /\ \A i \in 1..Len(log) : log'[i] = log[i]
  BY <1>1, <1>2
<1>5. LogGrows
  BY <1>4 DEF LogGrows
<1>6. \A i \in (Len(log) + 1)..Len(log') : i = Len(log) + 1
  BY <1>4
<1>7. GrowsSound
  BY <1>3, <1>4, <1>6 DEF GrowsSound
<1> QED
  BY <1>4, <1>5, <1>7 DEF l

\* What was logged stays logged, and at its place.
LEMMA LinesGrow ==
  ASSUME LogGrows, NEW kind, NEW c
  PROVE  /\ Lines(kind, c) \subseteq Lines(kind, c)'
         /\ Lines(kind, c)' \cap 1..Len(log) \subseteq Lines(kind, c)
         /\ Logged(kind, c) => Logged(kind, c)'
<1>1. \A i \in 1..Len(log) : i \in 1..Len(log') /\ log'[i] = log[i]
  BY DEF LogGrows
<1> QED
  BY <1>1 DEF Lines, Logged

\* A manifest that grows soundly stays sound.
LEMMA SoundKept ==
  ASSUME LogSound, LogGrows, GrowsSound, doomed \subseteq doomed'
  PROVE  LogSound'
<1> SUFFICES ASSUME NEW i \in 1..Len(log')
             PROVE  /\ log'[i].kind # "corrupt" => log'[i].sha \in Content
                    /\ log'[i].kind = "purge" => log'[i].sha \in doomed'
  BY DEF LogSound
<1>1. i \in 1..Len(log) \/ i \in (Len(log) + 1)..Len(log')
  BY DEF LogGrows
<1> QED
  BY <1>1 DEF LogSound, LogGrows, GrowsSound

\* A verify nobody moved is owed what it was.
LEMMA VfKept ==
  ASSUME VfInv, LogGrows, vf' = vf
  PROVE  VfInv'
<1>1. VfTyped'
  <2>1. vf.line <= Len(log')
    BY DEF VfInv, VfTyped, LogGrows, VfState
  <2> QED
    BY <2>1 DEF VfInv, VfTyped
<1>2. \A c : Logged("asset", c) => Logged("asset", c)'
  BY LinesGrow
<1>3. Closing'
  BY <1>2 DEF VfInv, Closing
<1> QED
  BY <1>1, <1>3 DEF VfInv

\* Noting what was archived moves nothing else.
LEMMA TouchWatches ==
  ASSUME rx \in RxState, Touch
  PROVE  rx' \in RxState /\ RxWatches
<1> DEFINE T == rx.touched \cup (Archived \cap rx.gone)
<1>1. T \subseteq Content
  BY DEF RxState
<1>2. rx' = [rx EXCEPT !.touched = T]
  BY DEF Touch
<1> HIDE DEF T
<1>3. rx' \in RxState
  BY <1>1, <1>2 DEF RxState
<1>4. /\ rx'.pc = rx.pc /\ rx'.line = rx.line /\ rx'.cur = rx.cur /\ rx'.adopt = rx.adopt
      /\ rx'.seen = rx.seen /\ rx'.retracted = rx.retracted /\ rx'.todo = rx.todo
      /\ rx'.base = rx.base /\ rx'.gone = rx.gone /\ rx'.touched = T
  BY <1>2 DEF RxState
<1>5. rx.touched \subseteq T /\ Archived \cap rx.gone \subseteq T
  BY DEF T
<1> QED
  BY <1>3, <1>4, <1>5 DEF RxWatches

\* Where nothing is archived, a rebuild left alone has watched.
LEMMA StillWatches ==
  ASSUME rx' = rx, Archived = {}
  PROVE  RxWatches
  BY DEF RxWatches

\* Nothing is archived by what neither inserts a row nor writes a line.
LEMMA NothingArchived ==
  ASSUME log \in Seq(Line), log' = log,
         \A c \in Content : row'[c] # "none" => row[c] # "none"
  PROVE  Archived = {}
<1>1. (Len(log) + 1)..Len(log') = {}
  BY DEF LogGrows
<1> QED
  BY <1>1 DEF Archived

\* A rebuild nobody moved is owed what it was: nothing it is still to find can go
\* but by a purge, and nothing it retracts comes back unnoticed.
LEMMA RxKept ==
  ASSUME RxInv, rx' \in RxState, Beside, RxWatches
  PROVE  RxInv'
<1>grow. LogGrows /\ GrowsSound
  BY DEF Beside
<1>num. rx.line \in Nat /\ Len(log) \in Nat /\ rx.line <= Len(log)
  BY <1>grow DEF RxInv, RxTyped, RxState, LogGrows
<1>1. RxTyped'
  <2>1. rx'.line <= Len(log')
    BY <1>grow, <1>num DEF RxWatches, LogGrows
  <2> QED
    BY <2>1 DEF RxInv, RxTyped, RxWatches
<1>2. CurStored'
  BY DEF RxInv, CurStored, Beside, RxWatches
<1>3. Restoring'
  <2>1. /\ rx'.retracted \subseteq doomed'
        /\ rx'.base \ doomed' \subseteq blob'
    BY DEF RxInv, Restoring, Beside, RxWatches
  <2>2. ASSUME NEW c \in rx'.base \ doomed', Found(c)
        PROVE  Found(c)'
    <3>1. c \in Content
      BY DEF RxState
    <3>2. row[c] # "none" => row'[c] # "none"
      BY <3>1 DEF Beside
    <3>3. Lines("asset", c) \subseteq Lines("asset", c)'
      BY <1>grow, LinesGrow
    <3> QED
      BY <2>2, <3>2, <3>3 DEF Found, RxWatches
  <2>3. rx'.pc # "done" => \A c \in rx'.base \ doomed' : Found(c)
    BY DEF RxInv, Restoring, Beside, RxWatches
  <2> QED
    BY <2>1, <2>2, <2>3 DEF Restoring
<1>4. Retracting'
  <2>1. ASSUME NEW c \in rx'.gone \ rx'.touched, Settled(c)
        PROVE  Settled(c)'
    <3>1. PICK k \in Lines("purge", c) :
                 /\ \A j \in Lines("asset", c) : j < k
                 /\ k <= rx.line => c \in rx.retracted
      BY <2>1 DEF Settled
    <3>2. k \in Lines("purge", c)'
      BY <1>grow, LinesGrow
    <3>3. c \in Content /\ c \notin Archived
      BY DEF RxState, RxWatches
    <3>4. ASSUME NEW j \in Lines("asset", c)'
          PROVE  j < k
      <4>1. j \in 1..Len(log') /\ log'[j].kind = "asset" /\ log'[j].sha = c
        BY DEF Lines
      <4>2. j \notin (Len(log) + 1)..Len(log')
        BY <3>3, <4>1 DEF Archived
      <4>3. j \in 1..Len(log)
        BY <1>grow, <4>1, <4>2 DEF LogGrows
      <4>4. j \in Lines("asset", c)
        BY <1>grow, <4>3, LinesGrow
      <4> QED
        BY <3>1, <4>4
    <3>5. k <= rx'.line => c \in rx'.retracted
      BY <3>1 DEF RxWatches
    <3> QED
      BY <3>2, <3>4, <3>5 DEF Settled
  <2>2. rx'.pc \in {"scan", "record"} => \A c \in rx'.gone \ rx'.touched : Settled(c)
    BY DEF RxInv, Retracting, RxWatches
  <2>3. /\ rx'.pc \in {"adopt", "recordOrphan", "tombstone", "drop"} =>
             rx'.gone \ rx'.touched \subseteq rx'.retracted
        /\ rx'.pc = "drop" => rx'.retracted \subseteq tomb'
    BY DEF RxInv, Retracting, RxWatches, Beside
  <2> QED
    BY <2>1, <2>2, <2>3 DEF Retracting
<1> QED
  BY <1>1, <1>2, <1>3, <1>4 DEF RxInv

\* A server whose database stays there leaves the manifest longer and sound, unlinks
\* only what was purged and tombstoned, and drops a row only by a purge.
LEMMA ServerMoves ==
  ASSUME ServerInv, ServerStep
  PROVE  Beside
<1> USE DEF ServerInv
<1>seq. log \in Seq(Line)
  BY DEF TypeOK
<1>same. ASSUME log' = log, doomed \subseteq doomed', tomb \subseteq tomb',
                \A c \in blob \ blob' : c \in doomed /\ c \in tomb,
                \A c \in Content : row[c] # "none" => row'[c] # "none" \/ c \in doomed'
         PROVE  Beside
  BY <1>seq, <1>same, LogKept DEF Beside
<1>app. ASSUME NEW line \in Line, Append1(line),
               line.sha \in Content, line.kind = "purge" => line.sha \in doomed',
               doomed' = doomed, row' = row, tomb' = tomb, blob' = blob
        PROVE  Beside
  <2>1. LogGrows /\ GrowsSound
    BY <1>seq, <1>app, LogAppended
  <2> QED
    BY <2>1, <1>app DEF Beside
<1>1. CASE \E r \in Request, c \in Content, v \in Via : BeginUpload(r, c, v)
  BY <1>1, <1>same DEF BeginUpload, disk, index, seen
<1>2. ASSUME NEW r \in Request, UploadStep(r)
      PROVE  Beside
  <2>0. up[r].sha \in Content /\ up[r].via \in Via
    BY <1>2, UploadFrame
  <2>1. CASE StatBlob(r) \/ CommitBlob(r)
    BY <2>1, <1>same DEF StatBlob, CommitBlob, disk, index, seen
  <2>2. CASE LogUpload(r)
    <3>1. PICK l : l = AssetLine(up[r].sha, up[r].via)
      OBVIOUS
    <3>2. l \in Line /\ l.kind = "asset" /\ l.sha \in Content
      BY <2>0, <3>1, LineTypes
    <3> QED
      BY <2>2, <3>1, <3>2, <1>app DEF LogUpload, index
  <2>3. CASE LogUploadFails(r)
    BY <2>3, <1>same DEF LogUploadFails, AppendLost, index
  <2>4. CASE RecordUpload(r) \/ RecordUploadFails(r)
    <3>1. \A c \in Content : row[c] # "none" => row'[c] # "none"
      BY <2>4 DEF RecordUpload, RecordUploadFails, RecordAsset, TypeOK
    <3> QED
      BY <2>4, <3>1, <1>same DEF RecordUpload, RecordUploadFails, disk, seen
  <2> QED
    BY <1>2, <2>1, <2>2, <2>3, <2>4 DEF UploadStep
<1>3. ASSUME NEW c \in Content, Trash(c) \/ Restore(c)
      PROVE  Beside
  <2>1. \A d \in Content : row[d] # "none" => row'[d] # "none"
    BY <1>3 DEF Trash, Restore
  <2> QED
    BY <1>3, <2>1, <1>same DEF Trash, Restore, disk, seen
<1>4. ASSUME NEW p \in Purger, NEW S \in SUBSET Content, PurgeRows(p, S)
      PROVE  Beside
  <2>1. \A c \in Content : row[c] # "none" => row'[c] # "none" \/ c \in doomed'
    BY <1>4 DEF PurgeRows, DropRows
  <2> QED
    BY <1>4, <2>1, <1>same DEF PurgeRows, disk
<1>5. ASSUME NEW p \in Purger, NEW c \in Content,
             \/ LogPurge(p, c) \/ LogPurgeFails(p, c)
             \/ UnlinkBlob(p, c) \/ UnlinkFails(p, c)
      PROVE  Beside
  <2>0. /\ c \in doomed /\ c \in tomb
        /\ UNCHANGED <<row, tomb, doomed>>
    BY <1>5 DEF LogPurge, LogPurgeFails, UnlinkBlob, UnlinkFails, SurviveInv, TombInv, index, seen
  <2>1. CASE LogPurge(p, c)
    <3>1. PICK l : l = PurgeLine(c)
      OBVIOUS
    <3>2. l \in Line /\ l.kind = "purge" /\ l.sha = c
      BY <3>1 DEF PurgeLine, Line, Via
    <3> QED
      BY <2>0, <2>1, <3>1, <3>2, <1>app DEF LogPurge
  <2>2. CASE LogPurgeFails(p, c)
    BY <2>0, <2>2, <1>same DEF LogPurgeFails, AppendLost
  <2>3. CASE UnlinkBlob(p, c) \/ UnlinkFails(p, c)
    BY <2>0, <2>3, <1>same DEF UnlinkBlob, UnlinkFails, disk
  <2> QED
    BY <1>5, <2>1, <2>2, <2>3
<1>6. CASE Crash
  BY <1>6, <1>same DEF Crash, Halt, index
<1> QED
  BY <1>1, <1>2, <1>3, <1>4, <1>5, <1>6 DEF ServerStep, PurgeStep

\* The server's own invariants are the server's own affair.
LEMMA ServerKeeps ==
  ServerInv /\ [Next]_vars => ServerInv'
  BY TypeStep, SurviveStep, TombStep DEF ServerInv

\* Whatever the server does beside them, both tools are owed what they were.
LEMMA ServerStepKeeps == RebuildInv /\ ServerStep => RebuildInv'
<1> SUFFICES ASSUME RebuildInv, ServerStep PROVE RebuildInv'
  OBVIOUS
<1>1. Next
  BY DEF ServerStep, Next
<1>2. ServerInv'
  BY <1>1, ServerKeeps DEF RebuildInv
<1>3. Beside
  BY ServerMoves DEF RebuildInv
<1>4. RxInv'
  BY <1>3, TouchWatches, RxKept DEF RebuildInv, RxInv, RxTyped, ServerStep
<1>5. VfInv'
  BY <1>3, VfKept DEF RebuildInv, Beside, ServerStep
<1>6. LogSound'
  BY <1>3, SoundKept DEF RebuildInv, Beside
<1> QED
  BY <1>2, <1>4, <1>5, <1>6 DEF RebuildInv

\* A tool that is not running is owed nothing.
LEMMA IdleTools ==
  ASSUME LogOK
  PROVE  /\ rx = NoRx => RxInv
         /\ vf = NoVf => VfInv
<1>0. Corrupt \in Line /\ Len(log) \in Nat
  BY DEF Corrupt, Line, Via, LogOK
<1>1. ASSUME rx = NoRx PROVE RxInv
  <2>1. rx \in RxState /\ rx.pc = "idle" /\ rx.line = 0 /\ rx.retracted = {} /\ rx.base = {}
    BY <1>0, <1>1 DEF NoRx, RxState
  <2> QED
    BY <1>0, <2>1 DEF RxInv, RxTyped, CurStored, Restoring, Retracting
<1>2. ASSUME vf = NoVf PROVE VfInv
  <2>1. vf \in VfState /\ vf.pc = "idle" /\ vf.line = 0 /\ vf.logged = {}
    BY <1>0, <1>2 DEF NoVf, VfState
  <2> QED
    BY <1>0, <2>1 DEF VfInv, VfTyped, Closing
<1> QED
  BY <1>1, <1>2

\* The same of a tool that stops now.
LEMMA ToolStops ==
  /\ LogOK' /\ rx' = NoRx => RxInv'
  /\ LogOK' /\ vf' = NoVf => VfInv'
<1>1. /\ LogOK /\ rx = NoRx => RxInv
      /\ LogOK /\ vf = NoVf => VfInv
  BY IdleTools
<1>2. NoRx' = NoRx /\ NoVf' = NoVf
  BY DEF NoRx, NoVf
<1>3. (/\ LogOK /\ rx = NoRx => RxInv
       /\ LogOK /\ vf = NoVf => VfInv)'
  BY <1>1, PTL
<1> QED
  BY <1>2, <1>3

\* A database that is lost takes both tools with it.
LEMMA LosesDatabaseKeeps == RebuildInv /\ ServerLosesDatabase => RebuildInv'
<1> SUFFICES ASSUME RebuildInv, ServerLosesDatabase PROVE RebuildInv'
  OBVIOUS
<1>1. ServerInv'
  BY ServerKeeps DEF RebuildInv, ServerLosesDatabase, Next
<1>2. LogOK'
  BY <1>1 DEF ServerInv, TypeOK, LogOK
<1>3. LogSound'
  BY DEF RebuildInv, LogSound, ServerLosesDatabase, LoseDatabase, Halt
<1> QED
  BY <1>1, <1>2, <1>3, ToolStops DEF RebuildInv, ServerLosesDatabase

-----------------------------------------------------------------------------
(* The tools' own steps.                                                   *)

\* A tool that neither deletes what is stored nor records what never was leaves the
\* server's invariants as they are.
LEMMA ToolKeepsServer ==
  ASSUME ServerInv, UNCHANGED <<blob, up, pg, acked, doomed>>, spent' \in 0..MaxStimuli,
         LogOK', IndexOK', tomb \subseteq tomb', tomb' \subseteq Content,
         \A c \in Content : row'[c] # "none" => row[c] # "none" \/ c \in blob \cup tomb
  PROVE  ServerInv'
<1>1. ProcOK' /\ HistoryOK'
  BY TypeParts DEF ServerInv, ProcOK, HistoryOK
<1>2. (LogOK /\ IndexOK /\ ProcOK /\ HistoryOK)' => TypeOK'
  BY TypeParts, PTL
<1>3. TypeOK'
  BY <1>1, <1>2
<1>4. SurviveInv'
  BY DEF ServerInv, SurviveInv, AckedBytesSurvive, Committed
<1>5. TombInv'
  <2>1. \A c \in Content : row'[c] # "none" => c \in blob' \cup tomb'
    BY DEF ServerInv, TombInv, RowHasBlobOrTombstone
  <2>2. \A r \in Request : up'[r].pc \in {"created", "indexing"} => up'[r].sha \in blob' \cup tomb'
    BY DEF ServerInv, TombInv, Committed
  <2>3. \A p \in Purger : pg'[p].gone \subseteq tomb' /\ pg'[p].todo \subseteq tomb'
    BY DEF ServerInv, TombInv
  <2> QED
    BY <2>1, <2>2, <2>3 DEF TombInv, RowHasBlobOrTombstone, Committed
<1> QED
  BY <1>3, <1>4, <1>5 DEF ServerInv

\* A reindex that changes nothing but its own state owes only itself.
LEMMA RxMovesKeeps ==
  ASSUME RebuildInv, RxMoves, RxInv'
  PROVE  RebuildInv'
<1>1. ServerInv'
  <2>1. UNCHANGED vars
    BY DEF RxMoves, vars
  <2> QED
    BY <2>1, ServerKeeps DEF RebuildInv
<1>2. log \in Seq(Line) /\ log' = log /\ doomed' = doomed /\ vf' = vf
  BY DEF RebuildInv, ServerInv, TypeOK, RxMoves, disk, seen
<1>3. LogSound' /\ VfInv'
  BY <1>2, LogKept, SoundKept, VfKept DEF RebuildInv
<1> QED
  BY <1>1, <1>3 DEF RebuildInv

\* One that writes to the database owes the rows too.
LEMMA RxWritesKeeps ==
  ASSUME RebuildInv, UNCHANGED <<disk, procs, seen, spent, vf>>, IndexOK',
         tomb \subseteq tomb', tomb' \subseteq Content,
         \A c \in Content : row'[c] # "none" => row[c] # "none" \/ c \in blob \cup tomb,
         RxInv'
  PROVE  RebuildInv'
<1>1. LogOK'
  BY DEF RebuildInv, ServerInv, TypeOK, LogOK, disk, seen
<1>2. ServerInv'
  <2>1. spent' \in 0..MaxStimuli
    BY DEF RebuildInv, ServerInv, TypeOK
  <2> QED
    BY <1>1, <2>1, ToolKeepsServer DEF RebuildInv, disk, procs, seen
<1>3. log \in Seq(Line) /\ log' = log /\ doomed' = doomed /\ vf' = vf
  BY DEF RebuildInv, ServerInv, TypeOK, disk, seen
<1>4. LogSound' /\ VfInv'
  BY <1>3, LogKept, SoundKept, VfKept DEF RebuildInv
<1> QED
  BY <1>2, <1>4 DEF RebuildInv

\* The verify's steps that touch nothing but its own state.
LEMMA VfMovesKeeps ==
  ASSUME RebuildInv, UNCHANGED <<disk, index, procs, seen, rx>>,
         spent' \in 0..MaxStimuli, VfInv'
  PROVE  RebuildInv'
<1>1. LogOK' /\ IndexOK'
  BY DEF RebuildInv, ServerInv, TypeOK, LogOK, IndexOK, Referential, disk, index, seen
<1>2. ServerInv'
  BY <1>1, ToolKeepsServer DEF RebuildInv, ServerInv, TypeOK, disk, index, procs, seen
<1>3. /\ log \in Seq(Line) /\ log' = log /\ row' = row /\ tomb' = tomb
      /\ blob' = blob /\ doomed' = doomed /\ rx' = rx
  BY DEF RebuildInv, ServerInv, TypeOK, disk, index, seen
<1>4. Beside
  BY <1>3, LogKept DEF Beside
<1>5. LogSound'
  BY <1>4, SoundKept DEF RebuildInv, Beside
<1>6. RxInv'
  <2>1. RxWatches
    BY <1>3, NothingArchived, StillWatches
  <2> QED
    BY <1>3, <1>4, <2>1, RxKept DEF RebuildInv, RxInv, RxTyped
<1> QED
  BY <1>2, <1>5, <1>6 DEF RebuildInv

\* A rebuild starts with everything ahead of it.
LEMMA StartReindexKeeps ==
  ASSUME RebuildInv, NEW adopt \in BOOLEAN, StartReindex(adopt)
  PROVE  RebuildInv'
<1> DEFINE B == {c \in blob \ doomed : adopt \/ Logged("asset", c)}
           G == {c \in Content : Retracted(c)}
<1>1. rx' = [NoRx EXCEPT !.pc = "scan", !.adopt = adopt, !.base = B, !.gone = G]
  BY DEF StartReindex
<1>2. B \subseteq Content /\ G \subseteq Content
  BY DEF RebuildInv, ServerInv, TypeOK
<1>3. /\ \A c \in B : c \in blob /\ c \notin doomed /\ (adopt \/ Logged("asset", c))
      /\ \A c \in G : Retracted(c)
  OBVIOUS
<1> HIDE DEF B, G
<1>4. Corrupt \in Line /\ Len(log) \in Nat
  BY DEF Corrupt, Line, Via, RebuildInv, ServerInv, TypeOK
<1>5. /\ rx' \in RxState /\ rx'.pc = "scan" /\ rx'.line = 0 /\ rx'.adopt = adopt
      /\ rx'.seen = {} /\ rx'.retracted = {} /\ rx'.base = B /\ rx'.gone = G
  BY <1>1, <1>2, <1>4 DEF NoRx, RxState
<1>6. UNCHANGED <<blob, log, doomed>> /\ UNCHANGED <<disk, index, procs, seen, vf>>
  BY DEF StartReindex, disk, seen
<1>7. \A kind, c : Lines(kind, c)' = Lines(kind, c) /\ Lines(kind, c) \subseteq Nat \ {0}
  BY <1>4, <1>6 DEF Lines
<1>8. RxTyped' /\ CurStored'
  BY <1>4, <1>5, <1>6 DEF RxTyped, CurStored
<1>9. Restoring'
  <2>1. ASSUME NEW c \in B PROVE Found(c)'
    <3>1. CASE adopt
      BY <1>5, <3>1 DEF Found
    <3>2. CASE Logged("asset", c)
      <4>1. PICK k \in Lines("asset", c) : TRUE
        BY <3>2 DEF Logged
      <4>2. k \in Lines("asset", c)' /\ k > rx'.line
        BY <1>5, <1>7, <4>1
      <4> QED
        BY <1>5, <4>2 DEF Found
    <3> QED
      BY <1>3, <2>1, <3>1, <3>2
  <2> QED
    BY <1>3, <1>5, <1>6, <2>1 DEF Restoring
<1>10. Retracting'
  <2>1. ASSUME NEW c \in G PROVE Settled(c)'
    <3>1. PICK k \in Lines("purge", c) : \A j \in Lines("asset", c) : j < k
      BY <1>3, <2>1 DEF Retracted
    <3>2. k \in Nat \ {0} /\ ~(k <= rx'.line)
      BY <1>5, <1>7, <3>1
    <3> QED
      BY <1>7, <3>1, <3>2 DEF Settled
  <2> QED
    BY <1>5, <2>1 DEF Retracting
<1>11. RxInv'
  BY <1>8, <1>9, <1>10 DEF RxInv
<1>12. ServerInv'
  <2>1. LogOK' /\ IndexOK'
    BY <1>6 DEF RebuildInv, ServerInv, TypeOK, LogOK, IndexOK, Referential, disk, index, seen
  <2>2. spent' \in 0..MaxStimuli
    BY StimulusTypes DEF RebuildInv, ServerInv, TypeOK, StartReindex
  <2> QED
    BY <1>6, <2>1, <2>2, ToolKeepsServer
    DEF RebuildInv, ServerInv, TypeOK, disk, index, procs, seen
<1>13. LogSound' /\ VfInv'
  BY <1>6, LogKept, SoundKept, VfKept DEF RebuildInv, ServerInv, TypeOK
<1> QED
  BY <1>11, <1>12, <1>13 DEF RebuildInv

\* What a readable line makes of a rebuild.
LEMMA ReplaysIs ==
  ASSUME RxTyped, log \in Seq(Line), rx.pc = "scan", NEW l \in Line,
         l.kind # "corrupt", l.sha \in Content, Replays(l)
  PROVE  /\ rx' \in RxState
         /\ rx'.line = rx.line + 1 /\ rx'.seen = rx.seen \cup {l.sha}
         /\ rx'.retracted = IF l.kind = "purge" THEN rx.retracted \cup {l.sha}
                                                ELSE rx.retracted \ {l.sha}
         /\ rx'.adopt = rx.adopt /\ rx'.base = rx.base /\ rx'.gone = rx.gone
         /\ rx'.touched = rx.touched /\ rx'.todo = rx.todo
         /\ IF l.kind = "asset" /\ l.sha \in blob THEN rx'.pc = "record" /\ rx'.cur = l
                                                  ELSE rx'.pc = "scan"
<1> DEFINE n == rx.line + 1
           s == rx.seen \cup {l.sha}
           t == IF l.kind = "purge" THEN rx.retracted \cup {l.sha} ELSE rx.retracted \ {l.sha}
           p == IF l.kind = "asset" /\ l.sha \in blob THEN "record" ELSE rx.pc
           k == IF l.kind = "asset" /\ l.sha \in blob THEN l ELSE Corrupt
<1>1. rx' = [rx EXCEPT !.line = n, !.seen = s, !.retracted = t, !.pc = p, !.cur = k]
  BY DEF Replays
<1>2. n \in Nat /\ s \subseteq Content /\ t \subseteq Content
  BY DEF RxTyped, RxState
<1>3. k \in Line /\ p \in {"scan", "record"}
  BY DEF Corrupt, Line, Via
<1> HIDE DEF n, s, t, p, k
<1>4. /\ rx' \in RxState /\ rx'.line = n /\ rx'.seen = s /\ rx'.retracted = t
      /\ rx'.pc = p /\ rx'.cur = k /\ rx'.adopt = rx.adopt /\ rx'.base = rx.base
      /\ rx'.gone = rx.gone /\ rx'.touched = rx.touched /\ rx'.todo = rx.todo
  BY <1>1, <1>2, <1>3 DEF RxTyped, RxState
<1> QED
  BY <1>4 DEF n, s, t, p, k

\* A line read is a row about to be written, or a purge held back, or nothing the
\* rebuild was owed.
LEMMA ReindexLineKeeps == RebuildInv /\ ReindexLine => RebuildInv'
<1> SUFFICES ASSUME RebuildInv, ReindexLine PROVE RebuildInv'
  OBVIOUS
<1>0. /\ RxMoves /\ UNCHANGED <<blob, log, torn, row, tomb, doomed>>
      /\ log \in Seq(Line) /\ Len(log) \in Nat
      /\ RxInv /\ LogSound
  BY DEF ReindexLine, RxMoves, RebuildInv, ServerInv, TypeOK, disk, index, seen
<1>1. PICK l : l = log[rx.line + 1]
  OBVIOUS
<1>2. /\ rx.pc = "scan" /\ rx.line \in Nat /\ rx.line + 1 \in 1..Len(log)
      /\ l \in Line
  BY <1>0, <1>1 DEF ReindexLine, RxInv, RxTyped, RxState
<1>3. CASE l.kind = "corrupt"
  <2>1. LogOK'
    BY <1>0 DEF LogOK, RebuildInv, ServerInv, TypeOK, RxMoves, disk, seen
  <2>2. rx' = NoRx
    BY <1>1, <1>3 DEF ReindexLine
  <2> QED
    BY <1>0, <2>1, <2>2, ToolStops, RxMovesKeeps
<1>4. CASE l.kind # "corrupt"
  <2>1. Replays(l) /\ l.sha \in Content /\ (l.kind = "purge" => l.sha \in doomed)
    BY <1>0, <1>1, <1>2, <1>4 DEF ReindexLine, LogSound
  <2>2. RxTyped
    BY <1>0 DEF RxInv
  <2>3. /\ rx' \in RxState
        /\ rx'.line = rx.line + 1 /\ rx'.seen = rx.seen \cup {l.sha}
        /\ rx'.retracted = IF l.kind = "purge" THEN rx.retracted \cup {l.sha}
                                               ELSE rx.retracted \ {l.sha}
        /\ rx'.adopt = rx.adopt /\ rx'.base = rx.base /\ rx'.gone = rx.gone
        /\ rx'.touched = rx.touched /\ rx'.todo = rx.todo
        /\ IF l.kind = "asset" /\ l.sha \in blob THEN rx'.pc = "record" /\ rx'.cur = l
                                                 ELSE rx'.pc = "scan"
    BY <1>0, <1>2, <1>4, <2>1, <2>2, ReplaysIs
  <2>4. l.kind \in {"asset", "purge"}
    BY <1>2, <1>4 DEF Line
  <2>5. RxTyped'
    BY <1>0, <1>2, <2>1, <2>3 DEF RxTyped
  <2>6. CurStored'
    BY <1>0, <2>3 DEF CurStored
  <2>7. \A kind, c : Lines(kind, c)' = Lines(kind, c) /\ Lines(kind, c) \subseteq 1..Len(log)
    BY <1>0 DEF Lines
  <2>8. Restoring'
    <3>1. rx'.retracted \subseteq doomed' /\ rx'.base \ doomed' \subseteq blob'
      BY <1>0, <2>1, <2>3 DEF RxInv, Restoring
    <3>2. ASSUME NEW c \in rx.base \ doomed
          PROVE  Found(c)'
      <4>1. c \in blob /\ Found(c)
        BY <1>0, <1>2 DEF RxInv, Restoring
      <4>2. CASE row[c] # "none"
        BY <1>0, <4>2 DEF Found
      <4>3. CASE \E k \in Lines("asset", c) : k > rx.line
        <5>1. PICK k \in Lines("asset", c) : k > rx.line
          BY <4>3
        <5>2. CASE k = rx.line + 1
          <6>1. l.kind = "asset" /\ l.sha = c
            BY <1>1, <5>2 DEF Lines
          <6> QED
            BY <2>3, <4>1, <6>1 DEF Found
        <5>3. CASE k # rx.line + 1
          <6>1. k \in Nat /\ k > rx.line + 1
            BY <1>2, <2>7, <5>1, <5>3
          <6>2. k \in Lines("asset", c)' /\ k > rx'.line
            BY <2>3, <2>7, <6>1, <5>1
          <6> QED
            BY <2>3, <6>2 DEF Found
        <5> QED
          BY <5>2, <5>3
      <4>4. CASE rx.adopt /\ c \notin rx.seen
        <5>1. CASE c = l.sha
          BY <2>1, <2>3, <2>4, <3>2, <4>1, <5>1 DEF Found
        <5>2. CASE c # l.sha
          BY <2>3, <4>4, <5>2 DEF Found
        <5> QED
          BY <5>1, <5>2
      <4> QED
        BY <1>2, <4>1, <4>2, <4>3, <4>4 DEF Found
    <3> QED
      BY <1>0, <2>3, <3>1, <3>2 DEF Restoring
  <2>9. Retracting'
    <3>1. ASSUME NEW c \in rx.gone \ rx.touched
          PROVE  Settled(c)'
      <4>1. PICK k \in Lines("purge", c) :
                   /\ \A j \in Lines("asset", c) : j < k
                   /\ k <= rx.line => c \in rx.retracted
        BY <1>0, <1>2, <3>1 DEF RxInv, Retracting, Settled
      <4>2. k \in 1..Len(log) /\ log[k].kind = "purge" /\ log[k].sha = c
        BY DEF Lines
      <4>3. ASSUME k <= rx.line + 1 PROVE c \in rx'.retracted
        <5>1. CASE k = rx.line + 1
          BY <1>1, <2>3, <4>2, <5>1
        <5>2. CASE k # rx.line + 1
          <6>1. k <= rx.line
            BY <1>2, <4>2, <4>3, <5>2
          <6>2. ~(l.kind = "asset" /\ l.sha = c)
            <7>1. l.kind = "asset" /\ l.sha = c => rx.line + 1 \in Lines("asset", c)
              BY <1>1, <1>2 DEF Lines
            <7>2. ~(rx.line + 1 < k)
              BY <1>2, <4>2, <6>1
            <7> QED
              BY <4>1, <7>1, <7>2
          <6> QED
            BY <2>3, <2>4, <4>1, <6>1, <6>2
        <5> QED
          BY <5>1, <5>2
      <4> QED
        BY <2>3, <2>7, <4>1, <4>3 DEF Settled
    <3>2. rx'.pc \in {"scan", "record"}
      BY <2>3
    <3> QED
      BY <2>3, <3>1, <3>2 DEF Retracting
  <2> QED
    BY <1>0, <2>5, <2>6, <2>8, <2>9, RxMovesKeeps DEF RxInv
<1> QED
  BY <1>3, <1>4

\* What a rebuild that only writes to its own memory leaves alone.
LEMMA RxMovesFrame ==
  ASSUME RebuildInv, RxMoves
  PROVE  /\ UNCHANGED <<blob, log, row, tomb, doomed>>
         /\ log \in Seq(Line) /\ Len(log) \in Nat
         /\ RxInv /\ LogSound /\ rx \in RxState
         /\ LogOK'
         /\ \A kind, c : Lines(kind, c)' = Lines(kind, c) /\ Lines(kind, c) \subseteq 1..Len(log)
<1>1. /\ UNCHANGED <<blob, log, torn, row, tomb, doomed, lost>>
      /\ log \in Seq(Line) /\ Len(log) \in Nat
      /\ RxInv /\ LogSound /\ rx \in RxState
  BY DEF RxMoves, RebuildInv, ServerInv, TypeOK, RxInv, RxTyped, disk, index, seen
<1>2. LogOK'
  BY <1>1 DEF LogOK, RebuildInv, ServerInv, TypeOK
<1>3. \A kind, c : Lines(kind, c)' = Lines(kind, c) /\ Lines(kind, c) \subseteq 1..Len(log)
  BY <1>1 DEF Lines
<1> QED
  BY <1>1, <1>2, <1>3

\* A rebuild that gives up, or has been read, is owed nothing.
LEMMA RxGivesUpKeeps ==
  ASSUME RebuildInv, RxMoves, rx' = NoRx
  PROVE  RebuildInv'
  BY RxMovesFrame, ToolStops, RxMovesKeeps

\* At the end of the log everything the manifest names is indexed, every purge it
\* ends with is held back, and the walk is owed whatever no line named.
LEMMA ReindexEndKeeps == RebuildInv /\ ReindexEndOfLog => RebuildInv'
<1> SUFFICES ASSUME RebuildInv, ReindexEndOfLog PROVE RebuildInv'
  OBVIOUS
<1>0. RxMoves /\ rx.pc = "scan" /\ rx.line = Len(log)
  BY DEF ReindexEndOfLog
<1>1. /\ UNCHANGED <<blob, log, row, tomb, doomed>>
      /\ log \in Seq(Line) /\ Len(log) \in Nat
      /\ RxInv /\ LogSound /\ rx \in RxState
      /\ \A kind, c : Lines(kind, c)' = Lines(kind, c) /\ Lines(kind, c) \subseteq 1..Len(log)
  BY <1>0, RxMovesFrame
<1>2. rx.gone \ rx.touched \subseteq rx.retracted
  <2>1. ASSUME NEW c \in rx.gone \ rx.touched PROVE c \in rx.retracted
    <3>1. PICK k \in Lines("purge", c) : k <= rx.line => c \in rx.retracted
      BY <1>0, <1>1, <2>1 DEF RxInv, Retracting, Settled
    <3>2. k \in 1..Len(log)
      BY <1>1
    <3> QED
      BY <1>0, <1>1, <3>1, <3>2
  <2> QED
    BY <2>1
<1>3. \A c \in rx.base \ doomed : c \in blob /\ (row[c] # "none" \/ (rx.adopt /\ c \notin rx.seen))
  <2> SUFFICES ASSUME NEW c \in rx.base \ doomed
               PROVE  c \in blob /\ (row[c] # "none" \/ (rx.adopt /\ c \notin rx.seen))
    OBVIOUS
  <2>1. c \in blob /\ Found(c)
    BY <1>0, <1>1 DEF RxInv, Restoring
  <2>2. \A k \in Lines("asset", c) : ~(k > rx.line)
    BY <1>0, <1>1
  <2> QED
    BY <1>0, <2>1, <2>2 DEF Found
<1>4. CASE torn
  BY <1>0, <1>4, RxGivesUpKeeps DEF ReindexEndOfLog
<1>5. CASE ~torn /\ rx.adopt
  <2> DEFINE T == blob \ rx.seen
  <2>1. T \subseteq Content
    BY DEF RebuildInv, ServerInv, TypeOK
  <2>2. rx' = [rx EXCEPT !.pc = "adopt", !.todo = T]
    BY <1>5 DEF ReindexEndOfLog
  <2> HIDE DEF T
  <2>3. /\ rx' \in RxState /\ rx'.pc = "adopt" /\ rx'.todo = T /\ rx'.line = rx.line
        /\ rx'.seen = rx.seen /\ rx'.base = rx.base /\ rx'.gone = rx.gone
        /\ rx'.touched = rx.touched /\ rx'.retracted = rx.retracted
    BY <1>1, <2>1, <2>2 DEF RxState
  <2>4. RxTyped' /\ CurStored'
    BY <1>0, <1>1, <2>3 DEF RxTyped, CurStored
  <2>5. \A c \in rx.base \ doomed : Found(c)'
    BY <1>1, <1>3, <2>3 DEF Found, T
  <2>6. Restoring'
    BY <1>1, <2>3, <2>5 DEF RxInv, Restoring
  <2>7. Retracting'
    BY <1>2, <2>3 DEF Retracting
  <2> QED
    BY <1>0, <2>4, <2>6, <2>7, RxMovesKeeps DEF RxInv
<1>6. CASE ~torn /\ ~rx.adopt
  <2>2. rx' = [rx EXCEPT !.pc = "tombstone"]
    BY <1>6 DEF ReindexEndOfLog
  <2>3. /\ rx' \in RxState /\ rx'.pc = "tombstone" /\ rx'.line = rx.line
        /\ rx'.seen = rx.seen /\ rx'.base = rx.base /\ rx'.gone = rx.gone
        /\ rx'.touched = rx.touched /\ rx'.retracted = rx.retracted
    BY <1>1, <2>2 DEF RxState
  <2>4. RxTyped' /\ CurStored'
    BY <1>0, <1>1, <2>3 DEF RxTyped, CurStored
  <2>5. \A c \in rx.base \ doomed : Found(c)'
    BY <1>1, <1>3, <1>6 DEF Found
  <2>6. Restoring'
    BY <1>1, <2>3, <2>5 DEF RxInv, Restoring
  <2>7. Retracting'
    BY <1>2, <2>3 DEF Retracting
  <2> QED
    BY <1>0, <2>4, <2>6, <2>7, RxMovesKeeps DEF RxInv
<1> QED
  BY <1>4, <1>5, <1>6

\* The row of the line in hand is written, and nobody else's goes.
LEMMA ReindexRecordKeeps == RebuildInv /\ ReindexRecord => RebuildInv'
<1> SUFFICES ASSUME RebuildInv, ReindexRecord PROVE RebuildInv'
  OBVIOUS
<1>0. PICK d : d = rx.cur.sha
  OBVIOUS
<1>1. /\ UNCHANGED <<disk, procs, seen, spent, vf>>
      /\ UNCHANGED <<blob, log, tomb, doomed>>
      /\ rx.pc \in {"record", "recordOrphan"}
      /\ RxInv /\ rx \in RxState /\ d \in Content /\ rx.cur.via \in Via
      /\ tomb \subseteq Content
  BY <1>0 DEF ReindexRecord, RebuildInv, ServerInv, TypeOK, RxInv, RxTyped, RxState, Line,
              disk, seen
<1>2. IndexOK
  BY TypeParts DEF RebuildInv, ServerInv
<1>3. RecordAsset(d, rx.cur.via)
  BY <1>0 DEF ReindexRecord
<1>4. IndexOK' /\ row'[d] # "none" /\ \A c \in Content : c # d => row'[c] = row[c]
  BY <1>1, <1>2, <1>3, RecordAssetTypes
<1>5. d \in blob \cup tomb
  BY <1>0, <1>1 DEF RxInv, CurStored
<1>6. \A c \in Content : row'[c] # "none" => row[c] # "none" \/ c \in blob \cup tomb
  BY <1>4, <1>5
<1> DEFINE p == IF rx.pc = "record" THEN "scan" ELSE "adopt"
<1>7. rx' = [rx EXCEPT !.pc = p, !.cur = Corrupt]
  BY DEF ReindexRecord
<1>8. p \in {"scan", "adopt"} /\ Corrupt \in Line
      /\ (p = "scan" <=> rx.pc = "record") /\ (p = "adopt" <=> rx.pc = "recordOrphan")
  BY <1>1 DEF Corrupt, Line, Via
<1> HIDE DEF p
<1>9. /\ rx' \in RxState /\ rx'.pc = p /\ rx'.line = rx.line /\ rx'.adopt = rx.adopt
      /\ rx'.seen = rx.seen /\ rx'.base = rx.base /\ rx'.gone = rx.gone
      /\ rx'.touched = rx.touched /\ rx'.retracted = rx.retracted /\ rx'.todo = rx.todo
  BY <1>1, <1>7, <1>8 DEF RxState
<1>10. RxTyped' /\ CurStored'
  BY <1>1, <1>8, <1>9 DEF RxInv, RxTyped, CurStored
<1>11. \A kind, c : Lines(kind, c)' = Lines(kind, c)
  BY <1>1 DEF Lines
<1>12. ASSUME NEW c \in rx.base \ doomed
       PROVE  Found(c)'
  <2>1. c \in Content /\ Found(c)
    BY <1>1 DEF RxInv, Restoring, RxState
  <2>2. row[c] # "none" => row'[c] # "none"
    BY <1>4, <2>1
  <2> QED
    BY <1>0, <1>1, <1>4, <1>8, <1>9, <1>11, <2>1, <2>2 DEF Found
<1>13. Restoring'
  BY <1>1, <1>9, <1>12 DEF RxInv, Restoring
<1>14. Retracting'
  <2>1. \A c : Settled(c) => Settled(c)'
    BY <1>9, <1>11 DEF Settled
  <2> QED
    BY <1>1, <1>8, <1>9, <2>1 DEF RxInv, Retracting
<1> QED
  BY <1>1, <1>4, <1>6, <1>10, <1>13, <1>14, RxWritesKeeps DEF RxInv

\* The walk takes a stored file in hand.
LEMMA AdoptOrphanKeeps ==
  ASSUME NEW c \in Content
  PROVE  RebuildInv /\ AdoptOrphan(c) => RebuildInv'
<1> SUFFICES ASSUME RebuildInv, AdoptOrphan(c) PROVE RebuildInv'
  OBVIOUS
<1>0. RxMoves /\ rx.pc = "adopt" /\ c \in blob
  BY DEF AdoptOrphan
<1>1. /\ UNCHANGED <<blob, log, row, tomb, doomed>>
      /\ RxInv /\ rx \in RxState
  BY <1>0, RxMovesFrame
<1> DEFINE k == AssetLine(c, "web")
           s == rx.seen \cup {c}
           t == rx.todo \ {c}
<1>2. rx' = [rx EXCEPT !.pc = "recordOrphan", !.cur = k, !.seen = s, !.todo = t]
  BY DEF AdoptOrphan
<1>3. k \in Line /\ k.kind = "asset" /\ k.sha = c /\ s \subseteq Content /\ t \subseteq Content
  BY <1>1 DEF AssetLine, Line, Via, RxState
<1>4. t = rx.todo \ {c}
  OBVIOUS
<1> HIDE DEF k, s, t
<1>5. /\ rx' \in RxState /\ rx'.pc = "recordOrphan" /\ rx'.cur = k /\ rx'.todo = t
      /\ rx'.line = rx.line /\ rx'.base = rx.base /\ rx'.gone = rx.gone
      /\ rx'.touched = rx.touched /\ rx'.retracted = rx.retracted
  BY <1>1, <1>2, <1>3 DEF RxState
<1>6. RxTyped' /\ CurStored'
  BY <1>0, <1>1, <1>3, <1>5 DEF RxInv, RxTyped, CurStored
<1>7. ASSUME NEW d \in rx.base \ doomed
      PROVE  Found(d)'
  <2>1. Found(d)
    BY <1>0, <1>1 DEF RxInv, Restoring
  <2>2. row[d] # "none" \/ d \in rx.todo
    BY <1>0, <2>1 DEF Found
  <2> QED
    BY <1>1, <1>3, <1>4, <1>5, <2>2 DEF Found
<1>8. Restoring'
  BY <1>1, <1>5, <1>7 DEF RxInv, Restoring
<1>9. Retracting'
  BY <1>0, <1>1, <1>5 DEF RxInv, Retracting
<1> QED
  BY <1>0, <1>6, <1>8, <1>9, RxMovesKeeps DEF RxInv

\* A file that has gone was purged, and the walk owes it nothing.
LEMMA OrphanVanishedKeeps ==
  ASSUME NEW c \in Content
  PROVE  RebuildInv /\ OrphanVanished(c) => RebuildInv'
<1> SUFFICES ASSUME RebuildInv, OrphanVanished(c) PROVE RebuildInv'
  OBVIOUS
<1>0. RxMoves /\ rx.pc = "adopt" /\ c \notin blob
  BY DEF OrphanVanished
<1>1. /\ UNCHANGED <<blob, log, row, tomb, doomed>>
      /\ RxInv /\ rx \in RxState
  BY <1>0, RxMovesFrame
<1>2. CASE rx' = NoRx
  BY <1>0, <1>2, RxGivesUpKeeps
<1>3. CASE rx' = [rx EXCEPT !.todo = @ \ {c}]
  <2>1. /\ rx' \in RxState /\ rx'.pc = "adopt" /\ rx'.todo = rx.todo \ {c}
        /\ rx'.line = rx.line /\ rx'.base = rx.base /\ rx'.gone = rx.gone
        /\ rx'.touched = rx.touched /\ rx'.retracted = rx.retracted
    BY <1>0, <1>1, <1>3 DEF RxState
  <2>2. RxTyped' /\ CurStored'
    BY <1>0, <1>1, <2>1 DEF RxInv, RxTyped, CurStored
  <2>3. ASSUME NEW d \in rx.base \ doomed
        PROVE  Found(d)'
    <3>1. Found(d) /\ d # c
      BY <1>0, <1>1 DEF RxInv, Restoring
    <3>2. row[d] # "none" \/ d \in rx.todo
      BY <1>0, <3>1 DEF Found
    <3> QED
      BY <1>1, <2>1, <3>1, <3>2 DEF Found
  <2>4. Restoring'
    BY <1>1, <2>1, <2>3 DEF RxInv, Restoring
  <2>5. Retracting'
    BY <1>0, <1>1, <2>1 DEF RxInv, Retracting
  <2> QED
    BY <1>0, <2>2, <2>4, <2>5, RxMovesKeeps DEF RxInv
<1> QED
  BY <1>2, <1>3 DEF OrphanVanished

\* When the walk has nothing before it, everything that was stored is indexed.
LEMMA AdoptEndsKeeps == RebuildInv /\ AdoptEnds => RebuildInv'
<1> SUFFICES ASSUME RebuildInv, AdoptEnds PROVE RebuildInv'
  OBVIOUS
<1>0. RxMoves /\ rx.pc = "adopt" /\ rx.todo = {} /\ rx' = [rx EXCEPT !.pc = "tombstone"]
  BY DEF AdoptEnds
<1>1. /\ UNCHANGED <<blob, log, row, tomb, doomed>>
      /\ RxInv /\ rx \in RxState
  BY <1>0, RxMovesFrame
<1>2. /\ rx' \in RxState /\ rx'.pc = "tombstone"
      /\ rx'.line = rx.line /\ rx'.base = rx.base /\ rx'.gone = rx.gone
      /\ rx'.touched = rx.touched /\ rx'.retracted = rx.retracted
  BY <1>0, <1>1 DEF RxState
<1>3. RxTyped' /\ CurStored'
  BY <1>0, <1>1, <1>2 DEF RxInv, RxTyped, CurStored
<1>4. \A d \in rx.base \ doomed : Found(d)'
  BY <1>0, <1>1, <1>2 DEF RxInv, Restoring, Found
<1>5. Restoring'
  BY <1>1, <1>2, <1>4 DEF RxInv, Restoring
<1>6. Retracting'
  BY <1>0, <1>1, <1>2 DEF RxInv, Retracting
<1> QED
  BY <1>0, <1>3, <1>5, <1>6, RxMovesKeeps DEF RxInv

\* At the tombstone step everything owed is indexed and everything retracted held back.
LEMMA RxSettled ==
  ASSUME RebuildInv, rx.pc \in {"tombstone", "drop"}
  PROVE  /\ \A c \in rx.base \ doomed : row[c] # "none"
         /\ rx.gone \ rx.touched \subseteq rx.retracted
         /\ rx.retracted \subseteq doomed /\ rx.retracted \subseteq Content
         /\ rx.pc = "drop" => rx.retracted \subseteq tomb
         /\ rx \in RxState /\ tomb \subseteq Content /\ IndexOK
<1>1. \A c \in rx.base \ doomed : row[c] # "none"
  BY DEF RebuildInv, RxInv, Restoring, Found
<1>2. IndexOK /\ tomb \subseteq Content
  BY TypeParts DEF RebuildInv, ServerInv, HistoryOK
<1> QED
  BY <1>1, <1>2 DEF RebuildInv, RxInv, RxTyped, RxState, Restoring, Retracting

\* The tombstones arrive before the rows they are about go.
LEMMA TombstoneKeeps == RebuildInv /\ ReindexTombstone => RebuildInv'
<1> SUFFICES ASSUME RebuildInv, ReindexTombstone PROVE RebuildInv'
  OBVIOUS
<1>0. /\ rx.pc = "tombstone"
      /\ UNCHANGED <<disk, procs, seen, spent, vf>>
      /\ UNCHANGED <<blob, log, row, via, mapped, linked, doomed>>
      /\ tomb' = tomb \cup rx.retracted
  BY DEF ReindexTombstone, disk, seen
<1>1. /\ \A c \in rx.base \ doomed : row[c] # "none"
      /\ rx.gone \ rx.touched \subseteq rx.retracted
      /\ rx.retracted \subseteq doomed /\ rx.retracted \subseteq Content
      /\ rx \in RxState /\ tomb \subseteq Content /\ IndexOK
  BY <1>0, RxSettled
<1> DEFINE p == IF rx.retracted = {} THEN "done" ELSE "drop"
<1>2. rx' = [rx EXCEPT !.pc = p] /\ p \in {"done", "drop"}
  BY DEF ReindexTombstone
<1> HIDE DEF p
<1>3. /\ rx' \in RxState /\ rx'.pc = p
      /\ rx'.line = rx.line /\ rx'.base = rx.base /\ rx'.gone = rx.gone
      /\ rx'.touched = rx.touched /\ rx'.retracted = rx.retracted
  BY <1>1, <1>2 DEF RxState
<1>4. RxTyped' /\ CurStored'
  BY <1>0, <1>2, <1>3 DEF RebuildInv, RxInv, RxTyped, CurStored
<1>5. Restoring'
  <2>1. rx.base \ doomed \subseteq blob
    BY DEF RebuildInv, RxInv, Restoring
  <2>2. \A c \in rx.base \ doomed : Found(c)'
    BY <1>0, <1>1 DEF Found
  <2> QED
    BY <1>0, <1>1, <1>3, <2>1, <2>2 DEF Restoring
<1>6. Retracting'
  BY <1>0, <1>1, <1>2, <1>3 DEF Retracting
<1>7. IndexOK'
  BY <1>0, <1>1 DEF IndexOK, Referential
<1> QED
  BY <1>0, <1>1, <1>4, <1>5, <1>6, <1>7, RxWritesKeeps DEF RxInv

\* A row that is dropped leaves nothing without its bytes.
LEMMA ReindexDropKeeps == RebuildInv /\ ReindexDrop => RebuildInv'
<1> SUFFICES ASSUME RebuildInv, ReindexDrop PROVE RebuildInv'
  OBVIOUS
<1>0. /\ rx.pc = "drop" /\ rx' = [rx EXCEPT !.pc = "done"]
      /\ UNCHANGED <<disk, procs, seen, spent, vf>>
      /\ UNCHANGED <<blob, log, tomb, doomed>>
      /\ DropRows(Family(rx.retracted))
  BY DEF ReindexDrop, disk, seen
<1>1. /\ rx.retracted \subseteq doomed /\ rx.retracted \subseteq Content
      /\ rx \in RxState /\ tomb \subseteq Content /\ IndexOK
  BY <1>0, RxSettled
<1>2. Family(rx.retracted) \in SUBSET Content
  BY <1>1, FamilyContent DEF IndexOK
<1>3. IndexOK' /\ \A c \in Content : row'[c] # "none" => row[c] # "none"
  BY <1>0, <1>1, <1>2, DropRowsTypes
<1>4. /\ rx' \in RxState /\ rx'.pc = "done"
      /\ rx'.line = rx.line /\ rx'.base = rx.base /\ rx'.retracted = rx.retracted
  BY <1>0, <1>1 DEF RxState
<1>5. RxTyped' /\ CurStored' /\ Retracting'
  BY <1>0, <1>4 DEF RebuildInv, RxInv, RxTyped, CurStored, Retracting
<1>6. Restoring'
  BY <1>0, <1>4 DEF RebuildInv, RxInv, Restoring
<1> QED
  BY <1>0, <1>1, <1>3, <1>5, <1>6, RxWritesKeeps DEF RxInv

\* Every step of a rebuild leaves everybody what they are owed.
LEMMA ReindexStepKeeps == RebuildInv /\ ReindexStep => RebuildInv'
<1>1. RebuildInv /\ (ReindexRecordFails \/ ReindexStops) => RebuildInv'
  BY RxGivesUpKeeps DEF ReindexRecordFails, ReindexStops
<1> QED
  BY <1>1, ReindexLineKeeps, ReindexEndKeeps, ReindexRecordKeeps, AdoptOrphanKeeps,
     OrphanVanishedKeeps, AdoptEndsKeeps, TombstoneKeeps, ReindexDropKeeps DEF ReindexStep

\* A verify starts owing nothing.
LEMMA StartVerifyKeeps == RebuildInv /\ StartVerify => RebuildInv'
<1> SUFFICES ASSUME RebuildInv, StartVerify PROVE RebuildInv'
  OBVIOUS
<1>1. /\ vf' = [NoVf EXCEPT !.pc = "rows", !.todo = Content]
      /\ UNCHANGED <<disk, index, procs, seen, rx>>
      /\ log' = log /\ Len(log) \in Nat /\ Corrupt \in Line
  BY DEF StartVerify, RebuildInv, ServerInv, TypeOK, disk, Corrupt, Line, Via
<1>2. vf' \in VfState /\ vf'.pc = "rows" /\ vf'.line = 0 /\ vf'.logged = {}
  BY <1>1 DEF NoVf, VfState
<1>3. VfInv'
  BY <1>1, <1>2 DEF VfInv, VfTyped, Closing
<1>4. spent' \in 0..MaxStimuli
  BY StimulusTypes DEF RebuildInv, ServerInv, TypeOK, StartVerify
<1> QED
  BY <1>1, <1>3, <1>4, VfMovesKeeps

\* What a verify that only writes to its own memory leaves alone.
LEMMA VfMovesFrame ==
  ASSUME RebuildInv, VfMoves
  PROVE  /\ UNCHANGED <<log, row>> /\ log \in Seq(Line) /\ Len(log) \in Nat
         /\ VfInv /\ vf \in VfState /\ vf.line \in Nat /\ LogSound /\ LogOK'
         /\ \A c : Logged("asset", c)' <=> Logged("asset", c)
         /\ VfInv' => RebuildInv'
<1>1. /\ UNCHANGED <<log, row, torn, lost>> /\ log \in Seq(Line) /\ Len(log) \in Nat
      /\ VfInv /\ vf \in VfState /\ vf.line \in Nat /\ LogSound
      /\ UNCHANGED <<disk, index, procs, seen, rx>> /\ spent' \in 0..MaxStimuli
  BY DEF VfMoves, RebuildInv, ServerInv, TypeOK, VfInv, VfTyped, VfState, disk, index, seen
<1>2. LogOK'
  BY <1>1 DEF LogOK, RebuildInv, ServerInv, TypeOK
<1>3. \A c : Logged("asset", c)' <=> Logged("asset", c)
  BY <1>1 DEF Logged, Lines
<1>4. VfInv' => RebuildInv'
  BY <1>1, VfMovesKeeps
<1> QED
  BY <1>1, <1>2, <1>3, <1>4

\* Rows and lines are collected, and nothing is owed yet.
LEMMA VerifyReadsKeeps ==
  RebuildInv /\ ((\E c \in Content : VerifyRow(c)) \/ VerifyLine \/ VerifyStops) => RebuildInv'
<1>1. ASSUME RebuildInv, NEW c \in Content, VerifyRow(c)
      PROVE  RebuildInv'
  <2>0. VfMoves
    BY <1>1 DEF VerifyRow
  <2>1. /\ log' = log /\ VfInv /\ vf \in VfState
        /\ \A d : Logged("asset", d)' <=> Logged("asset", d)
    BY <1>1, <2>0, VfMovesFrame
  <2> DEFINE rest == vf.todo \ {c}
             found == IF row[c] # "none" THEN vf.indexed \cup {c} ELSE vf.indexed
             p == IF rest = {} THEN "scan" ELSE vf.pc
  <2>2. vf' = [vf EXCEPT !.todo = rest, !.indexed = found, !.pc = p]
    BY <1>1 DEF VerifyRow
  <2>3. rest \subseteq Content /\ found \subseteq Content /\ p \in {"rows", "scan"}
    BY <1>1, <2>1 DEF VfState, VerifyRow
  <2> HIDE DEF rest, found, p
  <2>4. vf' \in VfState /\ vf'.pc = p /\ vf'.line = vf.line /\ vf'.logged = vf.logged
    BY <2>1, <2>2, <2>3 DEF VfState
  <2>5. VfTyped'
    BY <2>1, <2>3, <2>4 DEF VfInv, VfTyped
  <2>6. Closing'
    BY <2>1, <2>3, <2>4 DEF VfInv, Closing
  <2> QED
    BY <1>1, <2>0, <2>5, <2>6, VfMovesFrame DEF VfInv
<1>2. ASSUME RebuildInv, VerifyLine
      PROVE  RebuildInv'
  <2>0. VfMoves /\ vf.pc = "scan" /\ vf.line < Len(log)
    BY <1>2 DEF VerifyLine
  <2>1. /\ log' = log /\ log \in Seq(Line) /\ Len(log) \in Nat /\ LogOK'
        /\ VfInv /\ vf \in VfState /\ vf.line \in Nat /\ LogSound
        /\ \A d : Logged("asset", d)' <=> Logged("asset", d)
    BY <1>2, <2>0, VfMovesFrame
  <2>2. PICK l : l = log[vf.line + 1]
    OBVIOUS
  <2>3. CASE l.kind = "corrupt"
    <3>1. vf' = NoVf
      BY <1>2, <2>2, <2>3 DEF VerifyLine
    <3> QED
      BY <1>2, <2>0, <2>1, <3>1, ToolStops, VfMovesFrame
  <2>4. CASE l.kind # "corrupt"
    <3> DEFINE n == vf.line + 1
               L == IF l.kind = "asset" THEN vf.logged \cup {l.sha} ELSE vf.logged
    <3>1. vf' = [vf EXCEPT !.line = n, !.logged = L]
      BY <1>2, <2>2, <2>4 DEF VerifyLine, LogsAssets
    <3>2. n \in 1..Len(log) /\ n \in Nat
      BY <2>0, <2>1
    <3>3. l.sha \in Content /\ (l.kind = "asset" => Logged("asset", l.sha))
      BY <2>1, <2>2, <2>4, <3>2 DEF LogSound, Logged, Lines
    <3>4. L \subseteq Content /\ \A c \in L : Logged("asset", c)
      BY <2>1, <3>3 DEF VfInv, Closing, VfState
    <3> HIDE DEF n, L
    <3>5. vf' \in VfState /\ vf'.pc = "scan" /\ vf'.line = n /\ vf'.logged = L
      BY <2>0, <2>1, <3>1, <3>2, <3>4 DEF VfState
    <3>6. VfTyped' /\ Closing'
      BY <2>1, <3>2, <3>4, <3>5 DEF VfTyped, Closing
    <3> QED
      BY <1>2, <2>0, <3>6, VfMovesFrame DEF VfInv
  <2> QED
    BY <2>3, <2>4
<1>3. ASSUME RebuildInv, VerifyStops
      PROVE  RebuildInv'
  BY <1>3, ToolStops, VfMovesFrame DEF VerifyStops
<1> QED
  BY <1>1, <1>2, <1>3

\* What no line names is owed one; a row that is gone is owed none.
LEMMA VerifyFixesKeeps ==
  RebuildInv /\ (VerifyEndOfLog \/ (\E c \in Content : VerifyLoad(c)) \/ VerifyEnds) => RebuildInv'
<1>1. ASSUME RebuildInv, VerifyEndOfLog
      PROVE  RebuildInv'
  <2>0. VfMoves /\ vf.pc = "scan"
    BY <1>1 DEF VerifyEndOfLog
  <2>1. /\ log' = log /\ LogOK' /\ VfInv /\ vf \in VfState
        /\ \A d : Logged("asset", d)' <=> Logged("asset", d)
    BY <1>1, <2>0, VfMovesFrame
  <2>2. CASE torn
    BY <1>1, <2>0, <2>1, <2>2, ToolStops, VfMovesFrame DEF VerifyEndOfLog
  <2>3. CASE ~torn
    <3> DEFINE T == vf.indexed \ vf.logged
    <3>1. vf' = [vf EXCEPT !.pc = "fix", !.todo = T]
      BY <1>1, <2>3 DEF VerifyEndOfLog
    <3>2. T \subseteq Content /\ \A c \in vf.indexed : c \in T \/ c \in vf.logged
      BY <2>1 DEF VfState
    <3> HIDE DEF T
    <3>3. /\ vf' \in VfState /\ vf'.pc = "fix" /\ vf'.line = vf.line /\ vf'.todo = T
          /\ vf'.logged = vf.logged /\ vf'.indexed = vf.indexed /\ vf'.left = vf.left
      BY <2>1, <3>1, <3>2 DEF VfState
    <3>4. VfTyped' /\ Closing'
      BY <2>1, <3>2, <3>3 DEF VfInv, VfTyped, Closing
    <3> QED
      BY <1>1, <2>0, <3>4, VfMovesFrame DEF VfInv
  <2> QED
    BY <2>2, <2>3
<1>2. ASSUME RebuildInv, NEW c \in Content, VerifyLoad(c)
      PROVE  RebuildInv'
  <2>0. VfMoves /\ vf.pc = "fix"
    BY <1>2 DEF VerifyLoad
  <2>1. /\ log' = log /\ VfInv /\ vf \in VfState
        /\ \A d : Logged("asset", d)' <=> Logged("asset", d)
    BY <1>2, <2>0, VfMovesFrame
  <2> DEFINE T == vf.todo \ {c}
  <2>2. T \subseteq Content /\ \A d \in vf.todo : d = c \/ d \in T
    BY <2>1 DEF VfState
  <2>3. CASE row[c] = "none"
    <3> DEFINE L == vf.left \cup {c}
    <3>1. vf' = [vf EXCEPT !.todo = T, !.left = L]
      BY <1>2, <2>3 DEF VerifyLoad
    <3>2. L \subseteq Content /\ vf.left \subseteq L /\ c \in L
      BY <2>1 DEF VfState
    <3> HIDE DEF T, L
    <3>3. /\ vf' \in VfState /\ vf'.pc = "fix" /\ vf'.line = vf.line /\ vf'.todo = T
          /\ vf'.logged = vf.logged /\ vf'.indexed = vf.indexed /\ vf'.left = L
      BY <2>0, <2>1, <2>2, <3>1, <3>2 DEF VfState
    <3>4. VfTyped'
      BY <2>1, <3>3 DEF VfInv, VfTyped
    <3>5. Closing'
      BY <2>0, <2>1, <2>2, <3>2, <3>3 DEF VfInv, Closing
    <3> QED
      BY <1>2, <2>0, <3>4, <3>5, VfMovesFrame DEF VfInv
  <2>4. CASE row[c] # "none"
    <3> DEFINE k == FromRow(c)
    <3>1. vf' = [vf EXCEPT !.todo = T, !.pc = "append", !.cur = k]
      BY <1>2, <2>4 DEF VerifyLoad
    <3>2. k \in Line /\ k.kind = "asset" /\ k.sha = c
      BY DEF FromRow, AssetLine, Line, Via
    <3> HIDE DEF T, k
    <3>3. /\ vf' \in VfState /\ vf'.pc = "append" /\ vf'.line = vf.line /\ vf'.todo = T
          /\ vf'.logged = vf.logged /\ vf'.indexed = vf.indexed /\ vf'.left = vf.left
          /\ vf'.cur = k
      BY <2>0, <2>1, <2>2, <3>1, <3>2 DEF VfState
    <3>4. VfTyped'
      BY <2>1, <3>2, <3>3 DEF VfInv, VfTyped
    <3>5. Closing'
      BY <2>0, <2>1, <2>2, <3>2, <3>3 DEF VfInv, Closing
    <3> QED
      BY <1>2, <2>0, <3>4, <3>5, VfMovesFrame DEF VfInv
  <2> QED
    BY <2>3, <2>4
<1>3. ASSUME RebuildInv, VerifyEnds
      PROVE  RebuildInv'
  <2>0. VfMoves /\ vf' = [vf EXCEPT !.pc = "done"]
    BY <1>3 DEF VerifyEnds
  <2>1. /\ log' = log /\ VfInv /\ vf \in VfState
        /\ \A d : Logged("asset", d)' <=> Logged("asset", d)
    BY <1>3, <2>0, VfMovesFrame
  <2>2. vf' \in VfState /\ vf'.pc = "done" /\ vf'.line = vf.line /\ vf'.logged = vf.logged
    BY <2>0, <2>1 DEF VfState
  <2>3. VfTyped' /\ Closing'
    BY <2>1, <2>2 DEF VfInv, VfTyped, Closing
  <2> QED
    BY <1>3, <2>0, <2>3, VfMovesFrame DEF VfInv
<1> QED
  BY <1>1, <1>2, <1>3

\* The line verify writes is the one that was owed; one it lost is reported.
LEMMA VerifyAppendKeeps ==
  RebuildInv /\ (VerifyAppend \/ VerifyAppendFails) => RebuildInv'
<1> SUFFICES ASSUME RebuildInv, VerifyAppend \/ VerifyAppendFails PROVE RebuildInv'
  OBVIOUS
<1>0. PICK k : k = vf.cur
  OBVIOUS
<1>1. /\ vf.pc = "append" /\ k \in Line /\ k.kind = "asset" /\ k.sha \in Content
      /\ vf \in VfState /\ rx \in RxState /\ log \in Seq(Line) /\ Len(log) \in Nat
      /\ VfInv /\ RxInv
  BY <1>0 DEF VerifyAppend, VerifyAppendFails, RebuildInv, VfInv, VfTyped, VfState,
              RxInv, RxTyped, ServerInv, TypeOK
<1>2. /\ UNCHANGED <<blob, index, procs, acked, doomed, spent>>
      /\ UNCHANGED <<row, via, mapped, linked, tomb, up, pg>>
  BY DEF VerifyAppend, VerifyAppendFails, index, procs
<1>3. LogOK' /\ IndexOK' /\ spent' \in 0..MaxStimuli
  <2>1. LogOK /\ IndexOK /\ spent \in 0..MaxStimuli
    BY TypeParts DEF RebuildInv, ServerInv, HistoryOK
  <2>2. LogOK'
    <3>1. CASE VerifyAppend
      BY <1>0, <1>1, <2>1, <3>1, AppendTypes DEF VerifyAppend
    <3>2. CASE VerifyAppendFails
      <4>1. \A l \in {k} : l.kind \in {"asset", "purge"} /\ l.sha \in Content
        BY <1>1
      <4> QED
        BY <1>0, <2>1, <3>2, <4>1, AppendLostTypes DEF VerifyAppendFails
    <3> QED
      BY <3>1, <3>2
  <2>3. IndexOK' /\ spent' \in 0..MaxStimuli
    BY <1>2, <2>1 DEF IndexOK, Referential
  <2> QED
    BY <2>2, <2>3
<1>4. ServerInv'
  BY <1>2, <1>3, ToolKeepsServer DEF RebuildInv, ServerInv, TypeOK
<1>5. LogGrows /\ GrowsSound /\ (VerifyAppend /\ ~torn => Logged("asset", k.sha)')
  <2>1. CASE VerifyAppend
    <3>1. /\ LogGrows /\ GrowsSound /\ Len(log') = Len(log) + 1
          /\ log'[Len(log) + 1] = IF torn THEN Corrupt ELSE k
      BY <1>0, <1>1, <2>1, LogAppended DEF VerifyAppend
    <3>2. ~torn => Len(log) + 1 \in Lines("asset", k.sha)'
      BY <1>1, <3>1 DEF Lines
    <3> QED
      BY <3>1, <3>2 DEF Logged
  <2>2. CASE VerifyAppendFails /\ ~VerifyAppend
    BY <1>1, <2>2, LogKept DEF VerifyAppendFails, AppendLost
  <2> QED
    BY <2>1, <2>2
<1>6. Beside
  BY <1>2, <1>5 DEF Beside
<1>7. LogSound'
  BY <1>6, SoundKept DEF RebuildInv, Beside
<1>8. RxInv'
  <2>1. rx' \in RxState /\ RxWatches
    <3>1. CASE VerifyAppend
      BY <1>1, <3>1, TouchWatches DEF VerifyAppend
    <3>2. CASE VerifyAppendFails
      BY <1>1, <1>2, <3>2, NothingArchived, StillWatches DEF VerifyAppendFails, AppendLost
    <3> QED
      BY <3>1, <3>2
  <2> QED
    BY <1>1, <1>6, <2>1, RxKept
<1>9. VfInv'
  <2>1. PICK L \in SUBSET Content :
               /\ vf' = [vf EXCEPT !.pc = "fix", !.cur = Corrupt, !.left = L]
               /\ vf.left \subseteq L
               /\ k.sha \in L \/ Logged("asset", k.sha)'
    <3>1. CASE VerifyAppend
      <4> DEFINE L == IF torn THEN vf.left \cup {k.sha} ELSE vf.left
      <4>1. vf' = [vf EXCEPT !.pc = "fix", !.cur = Corrupt, !.left = L]
        BY <1>0, <3>1 DEF VerifyAppend
      <4>2. L \subseteq Content /\ vf.left \subseteq L /\ (torn => k.sha \in L)
        BY <1>1 DEF VfState
      <4> QED
        BY <1>5, <3>1, <4>1, <4>2
    <3>2. CASE VerifyAppendFails
      <4>1. vf' = [vf EXCEPT !.pc = "fix", !.cur = Corrupt, !.left = vf.left \cup {k.sha}]
        BY <1>0, <3>2 DEF VerifyAppendFails
      <4>2. vf.left \cup {k.sha} \subseteq Content
        BY <1>1 DEF VfState
      <4> QED
        BY <4>1, <4>2
    <3> QED
      BY <3>1, <3>2
  <2>2. Corrupt \in Line
    BY DEF Corrupt, Line, Via
  <2>3. /\ vf' \in VfState /\ vf'.pc = "fix" /\ vf'.line = vf.line /\ vf'.todo = vf.todo
        /\ vf'.logged = vf.logged /\ vf'.indexed = vf.indexed /\ vf'.left = L
    BY <1>1, <2>1, <2>2 DEF VfState
  <2>4. VfTyped'
    <3>1. vf.line \in Nat /\ vf.line <= Len(log)
      BY <1>1 DEF VfInv, VfTyped, VfState
    <3> QED
      BY <1>5, <2>3, <3>1 DEF VfTyped, LogGrows
  <2>5. \A c : Logged("asset", c) => Logged("asset", c)'
    BY <1>5, LinesGrow
  <2>6. Closing'
    BY <1>0, <1>1, <2>1, <2>3, <2>5 DEF VfInv, Closing
  <2> QED
    BY <2>4, <2>6 DEF VfInv
<1> QED
  BY <1>4, <1>7, <1>8, <1>9 DEF RebuildInv

\* Every step of a verify leaves everybody what they are owed.
LEMMA VerifyStepKeeps == RebuildInv /\ VerifyStep => RebuildInv'
  BY VerifyReadsKeeps, VerifyFixesKeeps, VerifyAppendKeeps DEF VerifyStep

\* So does every step of anybody.
LEMMA RebuildStep == RebuildInv /\ [RebuildNext]_allVars => RebuildInv'
<1>1. RebuildInv /\ UNCHANGED allVars => RebuildInv'
  <2> SUFFICES ASSUME RebuildInv, UNCHANGED allVars PROVE RebuildInv'
    OBVIOUS
  <2>1. UNCHANGED vars /\ rx' = rx /\ vf' = vf
    BY DEF allVars, tools
  <2>2. VfMoves
    BY <2>1 DEF VfMoves, vars
  <2>3. VfInv'
    BY <2>1, <2>2, VfMovesFrame, LogKept, VfKept
  <2> QED
    BY <2>2, <2>3, VfMovesFrame
<1> QED
  BY <1>1, ServerStepKeeps, LosesDatabaseKeeps, StartReindexKeeps, ReindexStepKeeps,
     StartVerifyKeeps, VerifyStepKeeps DEF RebuildNext

\* The empty server, with no tool running, owes nobody anything.
LEMMA RebuildStarts == RebuildInit => RebuildInv
<1> SUFFICES ASSUME RebuildInit PROVE RebuildInv
  OBVIOUS
<1>1. TypeOK /\ TombInv
  BY TypeInit, TombInit DEF RebuildInit
<1>2. SurviveInv
  BY SlotTypes DEF RebuildInit, Init, SurviveInv, AckedBytesSurvive, Committed
<1>3. LogSound
  BY DEF RebuildInit, Init, LogSound
<1>4. RxInv /\ VfInv
  BY <1>1, IdleTools DEF RebuildInit, TypeOK, LogOK
<1> QED
  BY <1>1, <1>2, <1>3, <1>4 DEF RebuildInv, ServerInv

\* Everybody is always left what they are owed.
LEMMA RebuildInvariant == RebuildSpec => []RebuildInv
  BY RebuildStarts, RebuildStep, PTL DEF RebuildSpec

-----------------------------------------------------------------------------
(* What a rebuild promises.                                                *)

\* Every variable keeps its type, the tools' beside the server's.
THEOREM RebuildTypeCorrect == RebuildSpec => []RebuildTypeOK
<1>1. RebuildInv => RebuildTypeOK
  BY DEF RebuildInv, ServerInv, RxInv, RxTyped, VfInv, VfTyped, RebuildTypeOK
<1> QED
  BY <1>1, RebuildInvariant, PTL

\* A rebuild running beside the server never puts a row into the gallery without its
\* bytes, unless somebody permanently deleted it and the database knows.
THEOREM RebuildRowHasBlobOrTombstone == RebuildSpec => []RowHasBlobOrTombstone
<1>1. RebuildInv => RowHasBlobOrTombstone
  BY DEF RebuildInv, ServerInv, TombInv
<1> QED
  BY <1>1, RebuildInvariant, PTL

\* Nor does either tool cost the bytes of an original a client was told is archived.
THEOREM RebuildAckedBytesSurvive == RebuildSpec => []AckedBytesSurvive
<1>1. RebuildInv => AckedBytesSurvive
  BY DEF RebuildInv, ServerInv, SurviveInv
<1> QED
  BY <1>1, RebuildInvariant, PTL

\* Only the step after the walk, or the drop, finishes a rebuild.
LEMMA FinishesBy ==
  ASSUME RebuildInv, [RebuildNext]_allVars, Finishes
  PROVE  \/ ReindexTombstone /\ rx.retracted = {}
         \/ ReindexDrop
<1>1. rx.pc \in {"tombstone", "drop"} /\ rx'.pc = "done" /\ rx \in RxState
  BY DEF Finishes, RebuildInv, RxInv, RxTyped
<1>2. NoRx.pc = "idle"
  BY DEF NoRx
<1>3. CASE ServerStep
  <2>1. rx'.pc = rx.pc
    BY <1>1, <1>3, TouchWatches DEF ServerStep, RxWatches
  <2> QED
    BY <1>1, <2>1
<1>4. CASE ServerLosesDatabase
  BY <1>1, <1>2, <1>4 DEF ServerLosesDatabase
<1>5. CASE \E adopt \in BOOLEAN : StartReindex(adopt)
  BY <1>1, <1>5 DEF StartReindex
<1>6. CASE ReindexStep
  <2>1. ReindexTombstone \/ ReindexDrop
    BY <1>1, <1>6 DEF ReindexStep, ReindexLine, ReindexEndOfLog, ReindexRecord,
                      ReindexRecordFails, AdoptOrphan, OrphanVanished, AdoptEnds, ReindexStops
  <2>2. ReindexTombstone => rx'.pc = IF rx.retracted = {} THEN "done" ELSE "drop"
    BY <1>1 DEF ReindexTombstone, RxState
  <2> QED
    BY <1>1, <2>1, <2>2
<1>7. CASE StartVerify \/ VerifyStep
  <2>1. rx'.pc = rx.pc
    <3>1. CASE VerifyAppend
      BY <1>1, <3>1, TouchWatches DEF VerifyAppend, RxWatches
    <3>2. CASE StartVerify
      BY <3>2 DEF StartVerify
    <3>3. CASE VerifyStep /\ ~VerifyAppend
      BY <3>3 DEF VerifyStep, VerifyRow, VerifyLoad, VerifyLine, VerifyEndOfLog,
                  VerifyAppendFails, VerifyEnds, VerifyStops, VfMoves
    <3> QED
      BY <1>7, <3>1, <3>2, <3>3
  <2> QED
    BY <1>1, <2>1
<1>8. CASE UNCHANGED allVars
  BY <1>1, <1>8 DEF allVars, tools
<1> QED
  BY <1>3, <1>4, <1>5, <1>6, <1>7, <1>8 DEF RebuildNext

\* A rebuild that finishes has a row for every original that was in the tree and that
\* nobody has purged, however the server interleaved with it, but for the motion of a
\* still it retracts.
THEOREM RebuildRestoresCorrect == RebuildSpec => RebuildRestores
<1>1. RebuildInv /\ [RebuildNext]_allVars
        => [Finishes => \A c \in rx.base \ doomed :
                          row'[c] # "none" \/ PartOf[c] \in rx.retracted]_allVars
  <2> SUFFICES ASSUME RebuildInv, [RebuildNext]_allVars, Finishes, NEW c \in rx.base \ doomed
               PROVE  row'[c] # "none" \/ PartOf[c] \in rx.retracted
    OBVIOUS
  <2>1. /\ row[c] # "none" /\ rx.retracted \subseteq doomed /\ c \in Content
    BY RxSettled DEF Finishes, RxState
  <2>2. CASE ReindexTombstone
    BY <2>1, <2>2 DEF ReindexTombstone
  <2>3. CASE ReindexDrop
    <3>1. row'[c] = IF c \in Family(rx.retracted) THEN "none" ELSE row[c]
      BY <2>1, <2>3 DEF ReindexDrop, DropRows
    <3>2. c \notin rx.retracted
      BY <2>1
    <3> QED
      BY <2>1, <3>1, <3>2 DEF Family, Parts
  <2> QED
    BY <2>2, <2>3, FinishesBy
<1> QED
  BY <1>1, RebuildInvariant, PTL DEF RebuildSpec, RebuildRestores

\* A rebuild that finishes has resurrected nothing the manifest says was destroyed,
\* unless somebody archived it again meanwhile.
THEOREM RebuildKeepsPurgedCorrect == RebuildSpec => RebuildKeepsPurged
<1>1. RebuildInv /\ [RebuildNext]_allVars
        => [Finishes => \A c \in rx.gone \ rx.touched :
                          row'[c] = "none" /\ c \in tomb']_allVars
  <2> SUFFICES ASSUME RebuildInv, [RebuildNext]_allVars, Finishes, NEW c \in rx.gone \ rx.touched
               PROVE  row'[c] = "none" /\ c \in tomb'
    OBVIOUS
  <2>1. c \in rx.retracted /\ c \in Content
    BY RxSettled DEF Finishes
  <2>2. CASE ReindexDrop
    <3>1. c \in Family(rx.retracted)
      BY <2>1 DEF Family
    <3>2. c \in tomb
      BY <2>1, <2>2, RxSettled DEF ReindexDrop
    <3> QED
      BY <2>1, <2>2, <3>1, <3>2 DEF ReindexDrop, DropRows
  <2> QED
    BY <2>1, <2>2, FinishesBy
<1> QED
  BY <1>1, RebuildInvariant, PTL DEF RebuildSpec, RebuildKeepsPurged

\* Only a verify with nothing left before it finishes.
LEMMA VerifyEndsBy ==
  ASSUME RebuildInv, [RebuildNext]_allVars, vf.pc = "fix", vf'.pc = "done"
  PROVE  VerifyEnds
<1>1. vf \in VfState /\ NoVf.pc = "idle"
  BY DEF RebuildInv, VfInv, VfTyped, NoVf
<1>2. vf' # vf
  OBVIOUS
<1>3. CASE ServerStep \/ ServerLosesDatabase \/ UNCHANGED allVars
  BY <1>1, <1>2, <1>3 DEF ServerStep, ServerLosesDatabase, allVars, tools
<1>4. CASE (\E adopt \in BOOLEAN : StartReindex(adopt)) \/ ReindexStep
  BY <1>2, <1>4 DEF StartReindex, ReindexStep, ReindexLine, ReindexEndOfLog, ReindexRecord,
                    ReindexRecordFails, AdoptOrphan, OrphanVanished, AdoptEnds,
                    ReindexTombstone, ReindexDrop, ReindexStops, RxMoves
<1>5. CASE StartVerify \/ VerifyStep
  <2>1. ASSUME NEW c \in Content, VerifyLoad(c) PROVE FALSE
    <3>1. vf'.pc \in {"fix", "append"}
      BY <1>1, <2>1 DEF VerifyLoad, VfState
    <3> QED
      BY <3>1
  <2> QED
    BY <1>1, <1>5, <2>1 DEF StartVerify, VerifyStep, VerifyRow, VerifyLine, VerifyEndOfLog,
                            VerifyAppend, VerifyAppendFails, VerifyStops
<1> QED
  BY <1>3, <1>4, <1>5 DEF RebuildNext

\* A verify --fix that finishes leaves no row it found without a line, but those whose
\* append was lost and those that had gone before it came to them.
THEOREM VerifyClosesGapCorrect == RebuildSpec => VerifyClosesGap
<1>1. RebuildInv /\ [RebuildNext]_allVars
        => [vf.pc = "fix" /\ vf'.pc = "done" =>
              \A c \in vf.indexed \ vf.left : row[c] # "none" => Logged("asset", c)]_allVars
  BY VerifyEndsBy DEF RebuildInv, VfInv, Closing, VerifyEnds
<1> QED
  BY <1>1, RebuildInvariant, PTL DEF RebuildSpec, VerifyClosesGap

-----------------------------------------------------------------------------
(* What the archive promises, kept with the tools beside it.               *)

\* A step of a tool is one the archive's clients and its disk do not see, but for the
\* lines it adds to the manifest.
LEMMA ToolsAside ==
  ASSUME RebuildInv, [RebuildNext]_allVars
  PROVE  \/ [Next]_vars
         \/ /\ UNCHANGED <<blob, up, pg, acked, doomed>>
            /\ \A kind, c : Known(kind, c) => Known(kind, c)'
<1>1. CASE ServerStep \/ ServerLosesDatabase
  BY <1>1 DEF ServerStep, ServerLosesDatabase, Next
<1>2. CASE UNCHANGED allVars
  BY <1>2 DEF allVars
<1>3. CASE VerifyAppend \/ VerifyAppendFails
  <2>1. TypeOK /\ vf.cur \in Line
    BY <1>3 DEF RebuildInv, ServerInv, VfInv, VfTyped, VfState
  <2>2. \A kind, c : Known(kind, c) => Known(kind, c)'
    BY <1>3, <2>1, AppendKnown, AppendLostKnown DEF VerifyAppend, VerifyAppendFails
  <2> QED
    BY <1>3, <2>2 DEF VerifyAppend, VerifyAppendFails, procs
<1>4. CASE \/ \E adopt \in BOOLEAN : StartReindex(adopt)
           \/ ReindexStep \/ StartVerify \/ (VerifyStep /\ ~VerifyAppend /\ ~VerifyAppendFails)
  <2>1. UNCHANGED <<disk, procs, seen>>
    BY <1>4 DEF StartReindex, ReindexStep, ReindexLine, ReindexEndOfLog, ReindexRecord,
                ReindexRecordFails, AdoptOrphan, OrphanVanished, AdoptEnds, ReindexTombstone,
                ReindexDrop, ReindexStops, RxMoves, StartVerify, VerifyStep, VerifyRow,
                VerifyLoad, VerifyLine, VerifyEndOfLog, VerifyEnds, VerifyStops, VfMoves
  <2>2. UNCHANGED <<blob, log, lost, up, pg, acked, doomed>>
    BY <2>1 DEF disk, procs, seen
  <2>3. \A kind, c : Known(kind, c) => Known(kind, c)'
    BY <2>2 DEF Known, Logged, Lines
  <2> QED
    BY <2>2, <2>3
<1> QED
  BY <1>1, <1>2, <1>3, <1>4 DEF RebuildNext

\* With the tools beside it the archive still makes its clients the promise Custody
\* states, and no more.
THEOREM RebuildAcksOnlyKept == RebuildSpec => AcksOnlyKept
<1>1. RebuildInit => Client!Init
  BY DEF RebuildInit, Init, Client!Init
<1>2. RebuildInv /\ RebuildInv' /\ [RebuildNext]_allVars
        => [Client!Next]_<<blob \cup doomed, acked>>
  BY ToolsAside, ClientStep DEF RebuildInv, ServerInv
<1>3. RebuildSpec => Client!Init /\ [][Client!Next]_<<blob \cup doomed, acked>>
  BY <1>1, <1>2, RebuildInvariant, PTL DEF RebuildSpec
<1> QED
  BY <1>3, PTL DEF AcksOnlyKept, Client!Spec

\* No original is unlinked but beside a tombstone that names it, even while a rebuild
\* is putting rows and tombstones back.
THEOREM RebuildTombstonedBeforeUnlinked == RebuildSpec => TombstonedBeforeUnlinked
<1>1. RebuildInv /\ [RebuildNext]_allVars => [\A c \in blob \ blob' : c \in tomb]_vars
  <2> SUFFICES ASSUME RebuildInv, [RebuildNext]_allVars, NEW c \in blob \ blob'
               PROVE  c \in tomb
    OBVIOUS
  <2>1. CASE ServerStep
    BY <2>1, ServerMoves DEF RebuildInv, Beside
  <2>2. CASE ServerLosesDatabase
    BY <2>2 DEF ServerLosesDatabase, LoseDatabase, Halt
  <2>3. CASE ~ServerStep /\ ~ServerLosesDatabase
    <3>1. blob' = blob
      BY <2>3 DEF RebuildNext, StartReindex, ReindexStep, ReindexLine, ReindexEndOfLog,
                  ReindexRecord, ReindexRecordFails, AdoptOrphan, OrphanVanished, AdoptEnds,
                  ReindexTombstone, ReindexDrop, ReindexStops, RxMoves, StartVerify,
                  VerifyStep, VerifyRow, VerifyLoad, VerifyLine, VerifyEndOfLog, VerifyAppend,
                  VerifyAppendFails, VerifyEnds, VerifyStops, VfMoves, allVars, vars, disk
    <3> QED
      BY <3>1
  <2> QED
    BY <2>1, <2>2, <2>3
<1> QED
  BY <1>1, RebuildInvariant, PTL DEF RebuildSpec, TombstonedBeforeUnlinked

\* Every step, of the server or a tool, keeps each missing acknowledged original on record.
LEMMA RebuildRecordStep == RebuildInv /\ RecordInv /\ [RebuildNext]_allVars => RecordInv'
<1> SUFFICES ASSUME RebuildInv, RecordInv, [RebuildNext]_allVars PROVE RecordInv'
  OBVIOUS
<1>1. CASE [Next]_vars
  BY <1>1, RecordStep DEF RebuildInv, ServerInv
<1>2. CASE /\ UNCHANGED <<blob, up, pg, acked, doomed>>
           /\ \A kind, c : Known(kind, c) => Known(kind, c)'
  <2>1. \A c : OnRecord(c) => OnRecord(c)'
    BY <1>2 DEF OnRecord
  <2>2. LossIsOnRecord'
    <3>1. \A c \in acked \ blob : OnRecord(c)
      BY DEF RecordInv, LossIsOnRecord, OnRecord, Known
    <3>2. \A c \in acked' \ blob' : OnRecord(c)'
      BY <1>2, <2>1, <3>1
    <3> QED
      BY <3>2 DEF LossIsOnRecord, OnRecord, Known
  <2>3. \A r \in Request : Committed(r)' => up'[r].sha \in blob' \/ (OnRecord(up[r].sha))'
    <3> SUFFICES ASSUME NEW r \in Request, Committed(r)'
                 PROVE  up'[r].sha \in blob' \/ (OnRecord(up[r].sha))'
      OBVIOUS
    <3>1. PICK c : c = up[r].sha
      OBVIOUS
    <3>2. Committed(r) /\ up'[r].sha = c
      BY <1>2, <3>1 DEF Committed
    <3>3. c \in blob \/ OnRecord(c)
      BY <3>1, <3>2 DEF RecordInv
    <3>4. c \in blob' \/ OnRecord(c)'
      BY <1>2, <2>1, <3>3
    <3> QED
      BY <3>2, <3>4
  <2>4. \A p \in Purger :
          /\ pg'[p].todo \subseteq pg'[p].gone
          /\ pg'[p].pc = "logging" => \A c \in pg'[p].gone \ pg'[p].todo : OnRecord(c)'
          /\ pg'[p].pc = "unlinking" => \A c \in pg'[p].gone : OnRecord(c)'
    BY <1>2, <2>1 DEF RecordInv
  <2> QED
    BY <2>2, <2>3, <2>4 DEF RecordInv
<1> QED
  BY <1>1, <1>2, ToolsAside

\* Neither tool takes a loss off the record: an original a client was promised is gone
\* only with its purge in the manifest, or the append that would say so interrupted.
THEOREM RebuildLossIsOnRecord == RebuildSpec => []LossIsOnRecord
<1>1. RebuildInit => RecordInv
  BY SlotTypes DEF RebuildInit, Init, RecordInv, LossIsOnRecord, Committed
<1>2. RecordInv => LossIsOnRecord
  BY DEF RecordInv
<1> QED
  BY <1>1, <1>2, RebuildRecordStep, RebuildInvariant, PTL DEF RebuildSpec
=============================================================================
