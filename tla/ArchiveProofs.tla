--------------------------- MODULE ArchiveProofs ---------------------------
(***************************************************************************)
(* What holds of Archive for every set of contents, requests and purges,   *)
(* and every number of stimuli.                                            *)
(***************************************************************************)
EXTENDS Archive, TLAPS

-----------------------------------------------------------------------------
(* The operators the handlers are built from.                              *)

\* A family is a set of contents that has everything selected in it.
LEMMA FamilyContent ==
  ASSUME linked \subseteq Content, NEW S \in SUBSET Content
  PROVE  Family(S) \subseteq Content /\ S \subseteq Family(S)
  BY DEF Family, Parts

\* Lines are lines.
LEMMA LineTypes ==
  ASSUME NEW c \in Content, NEW w \in Via
  PROVE  /\ AssetLine(c, w) \in Line /\ PurgeLine(c) \in Line /\ Corrupt \in Line
         /\ AssetLine(c, w).kind = "asset" /\ AssetLine(c, w).sha = c
         /\ PurgeLine(c).kind = "purge" /\ PurgeLine(c).sha = c
  BY DEF AssetLine, PurgeLine, Corrupt, Line, Via

\* The part of TypeOK that the manifest's own operations touch.
LogOK == /\ log \in Seq(Line)
         /\ torn \in BOOLEAN
         /\ lost \subseteq {"asset", "purge"} \X Content

\* A line appended whole, or after a torn one, leaves a log of lines.
LEMMA AppendTypes ==
  ASSUME LogOK, NEW c \in Content, NEW line \in Line,
         line.sha = c, line.kind \in {"asset", "purge"}, Append1(line)
  PROVE  LogOK'
<1>1. Corrupt \in Line
  BY DEF Corrupt, Line, Via
<1>2. log' \in Seq(Line)
  BY <1>1 DEF LogOK, Append1
<1>3. <<line.kind, line.sha>> \in {"asset", "purge"} \X Content
  OBVIOUS
<1>4. lost' \subseteq {"asset", "purge"} \X Content
  BY <1>3 DEF LogOK, Append1
<1> QED
  BY <1>2, <1>4 DEF LogOK, Append1

\* A line an interrupted append lost leaves a log of lines, and a record of the loss.
LEMMA AppendLostTypes ==
  ASSUME LogOK, NEW lines,
         \A l \in lines : l.kind \in {"asset", "purge"} /\ l.sha \in Content,
         AppendLost(lines)
  PROVE  LogOK'
<1>1. \A l \in lines : <<l.kind, l.sha>> \in {"asset", "purge"} \X Content
  OBVIOUS
<1>2. lost' \subseteq {"asset", "purge"} \X Content
  BY <1>1 DEF LogOK, AppendLost
<1> QED
  BY <1>2 DEF LogOK, AppendLost

\* The part of TypeOK that a transaction on the index touches.
IndexOK == /\ row \in [Content -> {"none", "live", "trash"}]
           /\ via \in [Content -> Via]
           /\ mapped \subseteq Content
           /\ linked \subseteq Content
           /\ Referential

\* RecordAsset leaves nothing dangling: a mapping points at the row it was
\* written with, and a link at a still the device has delivered.
LEMMA RecordAssetTypes ==
  ASSUME IndexOK, NEW c \in Content, NEW from \in Via, RecordAsset(c, from)
  PROVE  IndexOK' /\ row'[c] # "none" /\ \A d \in Content : d # c => row'[d] = row[d]
<1> USE DEF IndexOK
<1>1. /\ row' \in [Content -> {"none", "live", "trash"}]
      /\ row'[c] # "none"
      /\ \A d \in Content : row[d] # "none" => row'[d] # "none"
      /\ \A d \in Content : d # c => row'[d] = row[d]
  BY DEF RecordAsset
<1>2. /\ via' \in [Content -> Via] /\ \A d \in Content : d # c => via'[d] = via[d]
      /\ mapped' \subseteq mapped \cup {c}
  BY DEF RecordAsset
<1>3. \A v \in linked' : \/ v \in linked
                         \/ v = c /\ PartOf[c] \in mapped
                         \/ v \in Content /\ via[v] = "half" /\ PartOf[v] = c
  <2>1. CASE from = "web"
    BY <2>1 DEF RecordAsset
  <2>2. CASE from = "half"
    BY <2>2 DEF RecordAsset
  <2>3. CASE from = "phone"
    BY <2>3 DEF RecordAsset
  <2> QED
    BY <2>1, <2>2, <2>3 DEF Via
<1>4. linked' \subseteq Content
  BY <1>3
<1>5. /\ \A d \in mapped' \cup linked' : row'[d] # "none"
      /\ \A d \in Content : via'[d] # "web" => row'[d] # "none"
  BY <1>1, <1>2, <1>3, <1>4 DEF Referential
<1>6. \A v \in linked' : IsVideo(v) /\ row'[PartOf[v]] # "none"
  <2> SUFFICES ASSUME NEW v \in linked'
               PROVE  IsVideo(v) /\ row'[PartOf[v]] # "none"
    OBVIOUS
  <2>1. CASE v \in linked
    <3>1. IsVideo(v) /\ row[PartOf[v]] # "none" /\ PartOf[v] \in Content
      BY <2>1, PartsAssumption DEF Referential, IsVideo
    <3> QED
      BY <3>1, <1>1
  <2>2. CASE v = c /\ PartOf[c] \in mapped
    <3>1. PartOf[c] \in Content /\ row[PartOf[c]] # "none"
      BY <2>2 DEF Referential
    <3> QED
      BY <2>2, <3>1, <1>1, PartsAssumption DEF IsVideo
  <2>3. CASE v \in Content /\ PartOf[v] = c
    BY <2>3, <1>1, PartsAssumption DEF IsVideo
  <2> QED
    BY <1>3, <2>1, <2>2, <2>3
<1> QED
  BY <1>1, <1>2, <1>4, <1>5, <1>6 DEF Referential, IsVideo

\* Deleting rows leaves nothing dangling either.
LEMMA DropRowsTypes ==
  ASSUME IndexOK, NEW S \in SUBSET Content, DropRows(S)
  PROVE  IndexOK' /\ \A c \in Content : row'[c] # "none" => row[c] # "none" /\ c \notin S
<1> USE DEF IndexOK
<1>1. row' \in [Content -> {"none", "live", "trash"}]
  BY DEF DropRows
<1>2. \A d \in Content : row'[d] = IF d \in S THEN "none" ELSE row[d]
  BY DEF DropRows
<1>3. /\ \A d \in mapped' \cup linked' : row'[d] # "none"
      /\ \A d \in Content : via'[d] # "web" => row'[d] # "none"
  BY <1>2 DEF DropRows, Referential
<1>4. \A v \in linked' : IsVideo(v) /\ row'[PartOf[v]] # "none"
  <2> SUFFICES ASSUME NEW v \in linked'
               PROVE  IsVideo(v) /\ row'[PartOf[v]] # "none"
    OBVIOUS
  <2>1. v \in linked /\ PartOf[v] \notin S
    BY DEF DropRows
  <2>2. IsVideo(v) /\ row[PartOf[v]] # "none" /\ PartOf[v] \in Content
    BY <2>1, PartsAssumption DEF Referential, IsVideo
  <2> QED
    BY <2>1, <2>2, <1>2
<1> QED
  <2>1. via' \in [Content -> Via]
    BY DEF DropRows, Via
  <2>2. mapped' \subseteq Content /\ linked' \subseteq Content
    BY DEF DropRows
  <2>3. Referential'
    BY <1>3, <1>4 DEF Referential, IsVideo
  <2> QED
    BY <1>1, <1>2, <2>1, <2>2, <2>3

-----------------------------------------------------------------------------
(* Types.                                                                  *)

\* The part of TypeOK that the handlers' own memory and history make up.
ProcOK == /\ up \in [Request -> UploadState]
          /\ \A r \in Request : up[r].pc # "idle" => up[r].sha \in Content
          /\ pg \in [Purger -> PurgeState]

HistoryOK == /\ blob \subseteq Content
             /\ tomb \subseteq Content
             /\ acked \subseteq Content
             /\ doomed \subseteq Content
             /\ spent \in 0..MaxStimuli

\* The type invariant, in the four parts the steps disturb separately.
LEMMA TypeParts == TypeOK <=> LogOK /\ IndexOK /\ ProcOK /\ HistoryOK
  BY DEF TypeOK, LogOK, IndexOK, ProcOK, HistoryOK

\* An idle slot, and a slot one step further on, are slots.
LEMMA SlotTypes ==
  /\ NoUpload \in UploadState /\ NoUpload.pc = "idle"
  /\ NoPurge \in PurgeState /\ NoPurge.pc = "idle" /\ NoPurge.gone = {} /\ NoPurge.todo = {}
  BY DEF NoUpload, UploadState, NoPurge, PurgeState, Via

\* What is asked from outside stays within its bound.
LEMMA StimulusTypes ==
  ASSUME spent \in 0..MaxStimuli, Stimulus
  PROVE  spent' \in 0..MaxStimuli
  BY BoundAssumption DEF Stimulus

\* What a request that is in the handler holds.
LEMMA UploadTypes ==
  ASSUME ProcOK, NEW r \in Request, up[r].pc # "idle"
  PROVE  /\ up[r].sha \in Content /\ up[r].via \in Via
         /\ [up EXCEPT ![r] = NoUpload] \in [Request -> UploadState]
         /\ \A k \in {"staged", "absent", "created", "indexing"} :
              [up EXCEPT ![r].pc = k] \in [Request -> UploadState]
<1>1. up[r] \in UploadState
  BY DEF ProcOK
<1>2. \A k \in {"staged", "absent", "created", "indexing"} :
         [up[r] EXCEPT !.pc = k] \in UploadState
  BY <1>1 DEF UploadState
<1> QED
  BY <1>1, <1>2, SlotTypes DEF ProcOK, UploadState

\* The step of a request that ends it, or moves it on, keeps every slot sound.
LEMMA UploadMoves ==
  ASSUME ProcOK, NEW r \in Request, up[r].pc # "idle", pg' = pg,
         \/ up' = [up EXCEPT ![r] = NoUpload]
         \/ \E k \in {"staged", "absent", "created", "indexing"} :
              up' = [up EXCEPT ![r].pc = k]
  PROVE  ProcOK'
<1>1. up' \in [Request -> UploadState]
  <2>1. CASE up' = [up EXCEPT ![r] = NoUpload]
    BY <2>1, UploadTypes
  <2>2. CASE \E k \in {"staged", "absent", "created", "indexing"} :
               up' = [up EXCEPT ![r].pc = k]
    <3>1. PICK k \in {"staged", "absent", "created", "indexing"} :
                 up' = [up EXCEPT ![r].pc = k]
      BY <2>2
    <3>2. [up EXCEPT ![r].pc = k] \in [Request -> UploadState]
      BY UploadTypes
    <3> QED
      BY <3>1, <3>2
  <2> QED
    BY <2>1, <2>2
<1>2. \A q \in Request : up'[q].pc # "idle" => up'[q].sha \in Content
  <2>1. ASSUME NEW q \in Request, q # r PROVE up'[q] = up[q]
    BY <2>1 DEF ProcOK
  <2>2. up[r] \in UploadState
    BY DEF ProcOK
  <2>3. up'[r].pc # "idle" => up'[r].sha = up[r].sha
    BY <2>2, SlotTypes DEF ProcOK, UploadState
  <2> QED
    BY <2>1, <2>3, UploadTypes DEF ProcOK
<1> QED
  BY <1>1, <1>2 DEF ProcOK

\* The same of a purge, for each of its two kinds of step.
LEMMA PurgeMoves ==
  ASSUME ProcOK, NEW p \in Purger, NEW c \in Content, up' = up,
         Tombstoned(p, c) \/ Unlinked(p, c)
  PROVE  ProcOK'
<1>1. pg[p] \in PurgeState
  BY DEF ProcOK
<1>2. [pc |-> "unlinking", gone |-> pg[p].gone, todo |-> pg[p].gone] \in PurgeState
  BY <1>1 DEF PurgeState
<1>3. [pg[p] EXCEPT !.todo = pg[p].todo \ {c}] \in PurgeState
  BY <1>1 DEF PurgeState
<1>4. pg' \in [Purger -> PurgeState]
  BY <1>2, <1>3, SlotTypes DEF ProcOK, Tombstoned, Unlinked
<1> QED
  BY <1>4 DEF ProcOK

\* A stop leaves the manifest readable as a manifest, and every slot idle.
LEMMA HaltTypes ==
  ASSUME LogOK, ProcOK, Halt
  PROVE  LogOK' /\ ProcOK'
<1>1. \A l \in Unwritten : l.kind \in {"asset", "purge"} /\ l.sha \in Content
  <2> SUFFICES ASSUME NEW l \in Unwritten
               PROVE  l.kind \in {"asset", "purge"} /\ l.sha \in Content
    OBVIOUS
  <2>1. CASE \E r \in Request : up[r].pc = "created" /\ l = AssetLine(up[r].sha, up[r].via)
    <3>1. PICK r \in Request : up[r].pc = "created" /\ l = AssetLine(up[r].sha, up[r].via)
      BY <2>1
    <3> QED
      BY <3>1 DEF AssetLine, ProcOK
  <2>2. CASE \E p \in Purger : \E c \in pg[p].todo : l = PurgeLine(c)
    <3>1. PICK p \in Purger : \E c \in pg[p].todo : l = PurgeLine(c)
      BY <2>2
    <3>2. pg[p].todo \subseteq Content
      BY DEF ProcOK, PurgeState
    <3> QED
      BY <3>1, <3>2 DEF PurgeLine
  <2> QED
    BY <2>1, <2>2 DEF Unwritten
<1>2. \A l \in Unwritten : <<l.kind, l.sha>> \in {"asset", "purge"} \X Content
  BY <1>1
<1>3. lost' \subseteq {"asset", "purge"} \X Content
  <2> DEFINE caught == {<<l.kind, l.sha>> : l \in Unwritten}
  <2>1. caught \subseteq {"asset", "purge"} \X Content
    BY <1>2
  <2>2. lost' \subseteq lost \cup caught
    BY DEF Halt
  <2> QED
    BY <2>1, <2>2 DEF LogOK
<1>4. LogOK'
  BY <1>3 DEF LogOK, Halt
<1>5. ProcOK'
  <2>1. up' \in [Request -> UploadState] /\ pg' \in [Purger -> PurgeState]
    BY SlotTypes DEF Halt
  <2>2. \A r \in Request : up'[r].pc = "idle"
    BY SlotTypes DEF Halt
  <2> QED
    BY <2>1, <2>2 DEF ProcOK
<1> QED
  BY <1>4, <1>5

\* The empty server is typed.
LEMMA TypeInit == Init => TypeOK
<1> SUFFICES ASSUME Init PROVE TypeOK
  OBVIOUS
<1>1. LogOK
  <2>1. log \in Seq(Line)
    BY DEF Init
  <2>2. torn \in BOOLEAN
    BY DEF Init
  <2>3. lost \subseteq {"asset", "purge"} \X Content
    BY DEF Init
  <2> QED
    BY <2>1, <2>2, <2>3 DEF LogOK
<1>2. IndexOK
  BY DEF Init, IndexOK, Referential, Via
<1>3. ProcOK
  BY SlotTypes DEF Init, ProcOK
<1>4. HistoryOK
  BY BoundAssumption DEF Init, HistoryOK
<1> QED
  BY <1>1, <1>2, <1>3, <1>4, TypeParts

\* Every statement of an upload, a purge or an operator keeps every variable in its type.
LEMMA TypeStep == TypeOK /\ [Next]_vars => TypeOK'
<1> SUFFICES ASSUME TypeOK, [Next]_vars PROVE TypeOK'
  OBVIOUS
<1>types. LogOK /\ IndexOK /\ ProcOK /\ HistoryOK
  BY TypeParts
<1>parts. (LogOK /\ IndexOK /\ ProcOK /\ HistoryOK)' => TypeOK'
  BY TypeParts, PTL
<1>log. UNCHANGED <<log, torn, lost>> => LogOK'
  BY <1>types DEF LogOK
<1>index. UNCHANGED <<row, via, mapped, linked>> => IndexOK'
  BY <1>types DEF IndexOK, Referential
<1>proc. UNCHANGED procs => ProcOK'
  BY <1>types DEF ProcOK, procs
<1>stim. Stimulus => spent' \in 0..MaxStimuli
  BY <1>types, StimulusTypes DEF HistoryOK
<1> USE DEF disk, index, procs, seen
<1>1. ASSUME NEW r \in Request, NEW c \in Content, NEW w \in Via,
             BeginUpload(r, c, w)
      PROVE  TypeOK'
  <2>1. [pc |-> "staged", sha |-> c, via |-> w] \in UploadState
    BY DEF UploadState
  <2>2. ProcOK'
    BY <1>types, <1>1, <2>1 DEF BeginUpload, ProcOK
  <2>3. HistoryOK'
    BY <1>types, <1>1, <1>stim DEF BeginUpload, HistoryOK
  <2> QED
    BY <1>1, <1>parts, <1>log, <1>index, <2>2, <2>3 DEF BeginUpload
<1>2. ASSUME NEW r \in Request, UploadStep(r)
      PROVE  TypeOK'
  <2>slot. up[r].pc # "idle" => up[r].sha \in Content /\ up[r].via \in Via
    BY <1>types, UploadTypes
  <2>1. CASE StatBlob(r)
    <3>1. ProcOK'
      BY <1>types, <2>1, UploadMoves DEF StatBlob
    <3>2. HistoryOK'
      BY <1>types, <2>1 DEF StatBlob, HistoryOK
    <3> QED
      BY <2>1, <1>parts, <1>log, <1>index, <3>1, <3>2 DEF StatBlob
  <2>2. CASE CommitBlob(r)
    <3>1. ProcOK'
      BY <1>types, <2>2, UploadMoves DEF CommitBlob
    <3>2. HistoryOK'
      BY <1>types, <2>2, <2>slot DEF CommitBlob, HistoryOK
    <3> QED
      BY <2>2, <1>parts, <1>log, <1>index, <3>1, <3>2 DEF CommitBlob
  <2>3. CASE LogUpload(r)
    <3>1. ProcOK'
      BY <1>types, <2>3, UploadMoves DEF LogUpload
    <3>2. HistoryOK'
      BY <1>types, <2>3 DEF LogUpload, HistoryOK
    <3>3. LogOK'
      BY <1>types, <2>3, <2>slot, LineTypes, AppendTypes DEF LogUpload
    <3> QED
      BY <2>3, <1>parts, <1>index, <3>1, <3>2, <3>3 DEF LogUpload
  <2>4. CASE LogUploadFails(r)
    <3>1. ProcOK'
      BY <1>types, <2>4, UploadMoves DEF LogUploadFails
    <3>2. HistoryOK'
      BY <1>types, <2>4 DEF LogUploadFails, HistoryOK
    <3>3. LogOK'
      BY <1>types, <2>4, <2>slot, LineTypes, AppendLostTypes DEF LogUploadFails
    <3> QED
      BY <2>4, <1>parts, <1>index, <3>1, <3>2, <3>3 DEF LogUploadFails
  <2>5. CASE RecordUpload(r)
    <3>1. ProcOK'
      BY <1>types, <2>5, UploadMoves DEF RecordUpload
    <3>2. HistoryOK'
      BY <1>types, <2>5, <2>slot DEF RecordUpload, HistoryOK
    <3>3. IndexOK'
      BY <1>types, <2>5, <2>slot, RecordAssetTypes DEF RecordUpload
    <3> QED
      BY <2>5, <1>parts, <1>log, <3>1, <3>2, <3>3 DEF RecordUpload
  <2>6. CASE RecordUploadFails(r)
    <3>1. ProcOK'
      BY <1>types, <2>6, UploadMoves DEF RecordUploadFails
    <3>2. HistoryOK'
      BY <1>types, <2>6 DEF RecordUploadFails, HistoryOK
    <3>3. IndexOK'
      BY <1>types, <1>index, <2>6, <2>slot, RecordAssetTypes DEF RecordUploadFails
    <3> QED
      BY <2>6, <1>parts, <1>log, <3>1, <3>2, <3>3 DEF RecordUploadFails
  <2> QED
    BY <1>2, <2>1, <2>2, <2>3, <2>4, <2>5, <2>6 DEF UploadStep
<1>3. ASSUME NEW c \in Content, Trash(c) \/ Restore(c)
      PROVE  TypeOK'
  <2>1. /\ row' \in [Content -> {"none", "live", "trash"}]
        /\ \A d \in Content : row[d] # "none" => row'[d] # "none"
    BY <1>types, <1>3 DEF IndexOK, Trash, Restore
  <2>2. IndexOK'
    <3>1. /\ \A d \in mapped \cup linked : row'[d] # "none"
          /\ \A d \in Content : via[d] # "web" => row'[d] # "none"
      BY <1>types, <2>1 DEF IndexOK, Referential
    <3>2. \A v \in linked : IsVideo(v) /\ row'[PartOf[v]] # "none"
      BY <1>types, <2>1, PartsAssumption DEF IndexOK, Referential, IsVideo
    <3> QED
      BY <1>types, <1>3, <2>1, <3>1, <3>2 DEF IndexOK, Referential, Trash, Restore, IsVideo
  <2>3. HistoryOK'
    BY <1>types, <1>3, <1>stim DEF Trash, Restore, HistoryOK
  <2> QED
    BY <1>3, <1>parts, <1>log, <1>proc, <2>2, <2>3 DEF Trash, Restore
<1>4. ASSUME NEW p \in Purger, NEW S \in SUBSET Content, PurgeRows(p, S)
      PROVE  TypeOK'
  <2>1. Family(S) \in SUBSET Content
    BY <1>types, FamilyContent DEF IndexOK
  <2>2. IndexOK'
    BY <1>types, <1>4, <2>1, DropRowsTypes DEF PurgeRows
  <2>3. [pc |-> "logging", gone |-> Family(S), todo |-> Family(S)] \in PurgeState
    BY <2>1 DEF PurgeState
  <2>4. ProcOK'
    BY <1>types, <1>4, <2>3 DEF PurgeRows, ProcOK
  <2>5. HistoryOK'
    BY <1>types, <1>4, <2>1, <1>stim DEF PurgeRows, HistoryOK
  <2> QED
    BY <1>4, <1>parts, <1>log, <2>2, <2>4, <2>5 DEF PurgeRows
<1>5. ASSUME NEW p \in Purger, PurgeStep(p)
      PROVE  TypeOK'
  <2>1. PICK c \in Content : \/ LogPurge(p, c) \/ LogPurgeFails(p, c)
                             \/ UnlinkBlob(p, c) \/ UnlinkFails(p, c)
    BY <1>5 DEF PurgeStep
  <2>2. ProcOK'
    BY <1>types, <2>1, PurgeMoves DEF LogPurge, LogPurgeFails, UnlinkBlob, UnlinkFails
  <2>3. HistoryOK'
    BY <1>types, <2>1 DEF LogPurge, LogPurgeFails, UnlinkBlob, UnlinkFails, HistoryOK
  <2>4. IndexOK'
    BY <1>index, <2>1 DEF LogPurge, LogPurgeFails, UnlinkBlob, UnlinkFails
  <2>5. LogOK'
    <3>1. CASE LogPurge(p, c)
      <4>1. PurgeLine(c) \in Line /\ PurgeLine(c).kind = "purge" /\ PurgeLine(c).sha = c
        BY DEF PurgeLine, Line, Via
      <4> QED
        BY <1>types, <3>1, <4>1, AppendTypes DEF LogPurge
    <3>2. CASE LogPurgeFails(p, c)
      <4>1. \A l \in {PurgeLine(c)} : l.kind \in {"asset", "purge"} /\ l.sha \in Content
        BY DEF PurgeLine
      <4> QED
        BY <1>types, <3>2, <4>1, AppendLostTypes DEF LogPurgeFails
    <3>3. CASE UnlinkBlob(p, c) \/ UnlinkFails(p, c)
      BY <1>log, <3>3 DEF UnlinkBlob, UnlinkFails
    <3> QED
      BY <2>1, <3>1, <3>2, <3>3
  <2> QED
    BY <1>parts, <2>2, <2>3, <2>4, <2>5
<1>6. ASSUME Crash \/ LoseDatabase
      PROVE  TypeOK'
  <2>1. LogOK' /\ ProcOK'
    BY <1>types, <1>6, HaltTypes DEF Crash, LoseDatabase
  <2>2. IndexOK'
    BY <1>types, <1>index, <1>6, DropRowsTypes DEF Crash, LoseDatabase
  <2>3. HistoryOK'
    BY <1>types, <1>6, <1>stim DEF Crash, LoseDatabase, Halt, HistoryOK
  <2> QED
    BY <1>parts, <2>1, <2>2, <2>3
<1>7. CASE UNCHANGED vars
  BY <1>7, <1>types, <1>parts, <1>log, <1>index, <1>proc DEF vars, HistoryOK
<1> QED
  BY <1>1, <1>2, <1>3, <1>4, <1>5, <1>6, <1>7 DEF Next

\* Every variable keeps its type and the index never dangles, whatever fails.
THEOREM TypeCorrect == Spec => []TypeOK
  BY TypeInit, TypeStep, PTL DEF Spec

-----------------------------------------------------------------------------
(* The bytes.                                                              *)

\* Past the rename, an upload's content has its bytes or has been purged since.
Committed(r) == up[r].pc \in {"created", "indexing"}

\* AckedBytesSurvive is not inductive alone: an upload is answered two steps
\* after its rename, and an original is unlinked two steps after its row.
SurviveInv ==
  /\ AckedBytesSurvive
  /\ \A r \in Request : Committed(r) => up[r].sha \in blob \cup doomed
  /\ \A p \in Purger : pg[p].gone \subseteq doomed /\ pg[p].todo \subseteq doomed

\* The same argument about the tombstones, which a lost database forgets along
\* with everything that was relying on them.
TombInv ==
  /\ RowHasBlobOrTombstone
  /\ \A r \in Request : Committed(r) => up[r].sha \in blob \cup tomb
  /\ \A p \in Purger : pg[p].gone \subseteq tomb /\ pg[p].todo \subseteq tomb

\* What a step of an upload leaves of the slots: the others as they were.
LEMMA UploadFrame ==
  ASSUME TypeOK, NEW r \in Request, UploadStep(r)
  PROVE  /\ \A q \in Request : q # r => up'[q] = up[q]
         /\ pg' = pg
         /\ up[r].pc # "idle" /\ up[r].sha \in Content /\ up[r].via \in Via
<1>1. up \in [Request -> UploadState]
  BY DEF TypeOK
<1>2. \A q \in Request : q # r => up'[q] = up[q]
  BY <1>1 DEF UploadStep, StatBlob, CommitBlob, LogUpload, LogUploadFails,
              RecordUpload, RecordUploadFails
<1>3. pg' = pg /\ up[r].pc # "idle"
  BY DEF UploadStep, StatBlob, CommitBlob, LogUpload, LogUploadFails,
         RecordUpload, RecordUploadFails
<1> QED
  BY <1>1, <1>2, <1>3 DEF TypeOK, UploadState

\* What one step of an upload does to its own slot.
LEMMA UploadSlot ==
  ASSUME TypeOK, NEW r \in Request, UploadStep(r)
  PROVE  /\ up'[r].pc # "idle" => up'[r].sha = up[r].sha
         /\ StatBlob(r) => up'[r].pc = IF up[r].sha \in blob THEN "indexing" ELSE "absent"
         /\ CommitBlob(r) => up'[r].pc = "created"
         /\ LogUpload(r) => up'[r].pc = "indexing"
         /\ LogUploadFails(r) \/ RecordUpload(r) \/ RecordUploadFails(r) => up'[r].pc = "idle"
<1>1. up \in [Request -> UploadState] /\ up[r] \in UploadState
  BY DEF TypeOK
<1>2. CASE StatBlob(r)
  BY <1>1, <1>2 DEF StatBlob, CommitBlob, LogUpload, LogUploadFails, RecordUpload,
                    RecordUploadFails, UploadState
<1>3. CASE CommitBlob(r)
  BY <1>1, <1>3 DEF StatBlob, CommitBlob, LogUpload, LogUploadFails, RecordUpload,
                    RecordUploadFails, UploadState
<1>4. CASE LogUpload(r)
  BY <1>1, <1>4, SlotTypes DEF StatBlob, CommitBlob, LogUpload, LogUploadFails,
                    RecordUpload, RecordUploadFails, UploadState
<1>5. CASE LogUploadFails(r)
  BY <1>1, <1>5, SlotTypes DEF StatBlob, CommitBlob, LogUpload, LogUploadFails,
                    RecordUpload, RecordUploadFails, UploadState
<1>6. CASE RecordUpload(r) \/ RecordUploadFails(r)
  BY <1>1, <1>6, SlotTypes DEF StatBlob, CommitBlob, LogUpload, LogUploadFails,
                    RecordUpload, RecordUploadFails, UploadState
<1> QED
  BY <1>2, <1>3, <1>4, <1>5, <1>6 DEF UploadStep

\* A step of a purge never adds to the rows it deleted, and unlinks only those.
LEMMA PurgeFrame ==
  ASSUME TypeOK, NEW p \in Purger, PurgeStep(p)
  PROVE  /\ \A q \in Purger : q # p => pg'[q] = pg[q]
         /\ pg'[p].gone \subseteq pg[p].gone
         /\ pg'[p].todo \subseteq pg[p].gone \cup pg[p].todo
         /\ blob \ blob' \subseteq pg[p].todo /\ blob' \subseteq blob
         /\ UNCHANGED <<up, row, via, mapped, linked, tomb, acked, doomed>>
<1>1. pg \in [Purger -> PurgeState] /\ pg[p] \in PurgeState
  BY DEF TypeOK
<1>2. PICK c \in pg[p].todo : \/ LogPurge(p, c) \/ LogPurgeFails(p, c)
                              \/ UnlinkBlob(p, c) \/ UnlinkFails(p, c)
  BY DEF PurgeStep, LogPurge, LogPurgeFails, UnlinkBlob, UnlinkFails
<1>3. /\ blob \ blob' \subseteq pg[p].todo /\ blob' \subseteq blob
      /\ UNCHANGED <<up, row, via, mapped, linked, tomb, acked, doomed>>
  BY <1>2 DEF LogPurge, LogPurgeFails, UnlinkBlob, UnlinkFails, index, disk, seen
<1>4. Tombstoned(p, c) \/ Unlinked(p, c)
  BY <1>2 DEF LogPurge, LogPurgeFails, UnlinkBlob, UnlinkFails
<1>5. \A q \in Purger : q # p => pg'[q] = pg[q]
  BY <1>1, <1>4 DEF Tombstoned, Unlinked
<1>6. /\ pg'[p].gone \subseteq pg[p].gone
      /\ pg'[p].todo \subseteq pg[p].gone \cup pg[p].todo
  BY <1>1, <1>4, SlotTypes DEF Tombstoned, Unlinked, PurgeState
<1> QED
  BY <1>3, <1>5, <1>6

\* A purge that starts has what it deleted, and nothing else, before it.
LEMMA PurgeStarts ==
  ASSUME TypeOK, NEW p \in Purger, NEW S \in SUBSET Content, PurgeRows(p, S)
  PROVE  /\ \A q \in Purger : q # p => pg'[q] = pg[q]
         /\ pg'[p] = [pc |-> "logging", gone |-> Family(S), todo |-> Family(S)]
         /\ Family(S) \subseteq Content
         /\ \A c \in Content : row'[c] # "none" => row[c] # "none"
<1>1. linked \subseteq Content /\ pg \in [Purger -> PurgeState]
  BY DEF TypeOK
<1>2. Family(S) \subseteq Content
  BY <1>1, FamilyContent
<1> QED
  BY <1>1, <1>2 DEF PurgeRows, DropRows

\* After a stop there is nobody in a handler.
LEMMA HaltFrame ==
  ASSUME Halt
  PROVE  /\ \A r \in Request : up'[r].pc = "idle"
         /\ \A p \in Purger : pg'[p].pc = "idle" /\ pg'[p].gone = {} /\ pg'[p].todo = {}
         /\ UNCHANGED <<blob, log, acked, doomed>>
  BY SlotTypes DEF Halt

\* Every step keeps what was acknowledged, and what a request has committed and is still
\* to acknowledge, among the stored or the deleted.
LEMMA SurviveStep == TypeOK /\ SurviveInv /\ [Next]_vars => SurviveInv'
<1> SUFFICES ASSUME TypeOK, SurviveInv, [Next]_vars PROVE SurviveInv'
  OBVIOUS
<1> USE DEF SurviveInv, AckedBytesSurvive, Committed
<1>1. ASSUME NEW r \in Request, NEW c \in Content, NEW w \in Via,
             BeginUpload(r, c, w)
      PROVE  SurviveInv'
  <2>1. \A q \in Request : Committed(q)' => Committed(q) /\ up'[q].sha = up[q].sha
    BY <1>1 DEF BeginUpload, TypeOK
  <2> QED
    BY <1>1, <2>1 DEF BeginUpload, disk, seen
<1>2. ASSUME NEW r \in Request, UploadStep(r)
      PROVE  SurviveInv'
  <2>1. blob \subseteq blob' /\ doomed' = doomed
    BY <1>2 DEF UploadStep, StatBlob, CommitBlob, LogUpload, LogUploadFails,
                RecordUpload, RecordUploadFails, disk, seen
  <2>2. Committed(r)' => up'[r].sha \in blob' \cup doomed'
    <3>1. CASE StatBlob(r)
      BY <3>1, <2>1, <1>2, UploadSlot
    <3>2. CASE CommitBlob(r)
      BY <3>2, <1>2, UploadSlot DEF CommitBlob
    <3>3. CASE LogUpload(r)
      BY <3>3, <2>1, <1>2, UploadSlot DEF LogUpload
    <3>4. CASE LogUploadFails(r) \/ RecordUpload(r) \/ RecordUploadFails(r)
      BY <3>4, <1>2, UploadSlot
    <3> QED
      BY <1>2, <3>1, <3>2, <3>3, <3>4 DEF UploadStep
  <2>3. acked' \subseteq blob' \cup doomed'
    <3>1. acked' \subseteq acked \cup {up[r].sha} /\ (acked' # acked => Committed(r))
      BY <1>2 DEF UploadStep, StatBlob, CommitBlob, LogUpload, LogUploadFails,
                  RecordUpload, RecordUploadFails, seen
    <3> QED
      BY <3>1, <2>1
  <2> QED
    BY <1>2, <2>1, <2>2, <2>3, UploadFrame
<1>3. ASSUME NEW c \in Content, Trash(c) \/ Restore(c)
      PROVE  SurviveInv'
  BY <1>3 DEF Trash, Restore, disk, procs, seen
<1>4. ASSUME NEW p \in Purger, NEW S \in SUBSET Content, PurgeRows(p, S)
      PROVE  SurviveInv'
  BY <1>4, PurgeStarts DEF PurgeRows, disk
<1>5. ASSUME NEW p \in Purger, PurgeStep(p)
      PROVE  SurviveInv'
  BY <1>5, PurgeFrame
<1>6. ASSUME Crash \/ LoseDatabase
      PROVE  SurviveInv'
  BY <1>6, HaltFrame DEF Crash, LoseDatabase
<1>7. CASE UNCHANGED vars
  BY <1>7 DEF vars, disk, procs, seen
<1> QED
  BY <1>1, <1>2, <1>3, <1>4, <1>5, <1>6, <1>7 DEF Next

\* No crash, failure or interleaving costs the bytes of an original somebody was
\* told is archived: only a purge that has deleted its row does.
THEOREM AckedBytesSurviveCorrect == Spec => []AckedBytesSurvive
<1>1. Init => SurviveInv
  BY SlotTypes DEF Init, SurviveInv, AckedBytesSurvive, Committed
<1>2. SurviveInv => AckedBytesSurvive
  BY DEF SurviveInv
<1> QED
  BY <1>1, <1>2, SurviveStep, TypeCorrect, PTL DEF Spec

\* A step that keeps what it kept and answers nobody, and one that answers.
LEMMA ClientKeeps ==
  ASSUME blob \cup doomed \subseteq blob' \cup doomed', blob' \cup doomed' \subseteq Content,
         acked' = acked
  PROVE  Client!Next
<1>1. PICK S \in SUBSET Content : S = blob' \cup doomed'
  OBVIOUS
<1>2. Client!Keep(S)
  BY <1>1 DEF Client!Keep
<1> QED
  BY <1>2 DEF Client!Next

\* Every step is, for the client, a store, an acknowledgement of what is kept, a deletion,
\* or nothing: Archive takes the steps Custody allows.
LEMMA ClientStep == TypeOK /\ TypeOK' /\ SurviveInv /\ [Next]_vars => Client!Next
<1> SUFFICES ASSUME TypeOK, TypeOK', SurviveInv, [Next]_vars PROVE Client!Next
  OBVIOUS
<1>0. blob' \cup doomed' \subseteq Content
  BY DEF TypeOK
<1>1. ASSUME NEW r \in Request, NEW c \in Content, NEW w \in Via, BeginUpload(r, c, w)
      PROVE  Client!Next
  BY <1>0, <1>1, ClientKeeps DEF BeginUpload, disk, seen
<1>2. ASSUME NEW r \in Request, UploadStep(r)
      PROVE  Client!Next
  <2>1. CASE RecordUpload(r)
    <3>1. up[r].sha \in Content /\ up[r].sha \in blob \cup doomed
      BY <2>1, <1>2, UploadFrame DEF RecordUpload, SurviveInv, Committed
    <3>2. blob' = blob /\ doomed' = doomed /\ acked' = acked \cup {up[r].sha}
      BY <2>1 DEF RecordUpload, disk
    <3>3. Client!Claim(up[r].sha)
      BY <3>1, <3>2 DEF Client!Claim
    <3> QED
      BY <3>1, <3>3 DEF Client!Next
  <2>2. CASE ~RecordUpload(r)
    <3>1. blob \subseteq blob' /\ doomed' = doomed /\ acked' = acked
      BY <1>2, <2>2 DEF UploadStep, StatBlob, CommitBlob, LogUpload, LogUploadFails,
                        RecordUploadFails, disk, seen
    <3> QED
      BY <1>0, <3>1, ClientKeeps
  <2> QED
    BY <2>1, <2>2
<1>3. ASSUME NEW c \in Content, Trash(c) \/ Restore(c)
      PROVE  Client!Next
  BY <1>0, <1>3, ClientKeeps DEF Trash, Restore, disk, seen
<1>4. ASSUME NEW p \in Purger, NEW S \in SUBSET Content, PurgeRows(p, S)
      PROVE  Client!Next
  BY <1>0, <1>4, ClientKeeps DEF PurgeRows, disk
<1>5. ASSUME NEW p \in Purger, PurgeStep(p)
      PROVE  Client!Next
  BY <1>0, <1>5, ClientKeeps, PurgeFrame DEF SurviveInv
<1>6. ASSUME Crash \/ LoseDatabase
      PROVE  Client!Next
  BY <1>0, <1>6, ClientKeeps, HaltFrame DEF Crash, LoseDatabase
<1>7. CASE UNCHANGED vars
  BY <1>0, <1>7, ClientKeeps DEF vars, disk, seen
<1> QED
  BY <1>1, <1>2, <1>3, <1>4, <1>5, <1>6, <1>7 DEF Next

\* The archive makes its clients the promise Custody states: what it has kept only
\* grows, and it acknowledges only that.
THEOREM AcksOnlyKeptCorrect == Spec => AcksOnlyKept
<1>1. Init => SurviveInv /\ Client!Init
  BY SlotTypes DEF Init, SurviveInv, AckedBytesSurvive, Committed, Client!Init
<1>2. TypeOK /\ TypeOK' /\ SurviveInv /\ [Next]_vars
        => [Client!Next]_<<blob \cup doomed, acked>>
  BY ClientStep
<1>3. Spec => Client!Init /\ [][Client!Next]_<<blob \cup doomed, acked>>
  BY <1>1, <1>2, SurviveStep, TypeCorrect, PTL DEF Spec
<1> QED
  BY <1>3, PTL DEF AcksOnlyKept, Client!Spec

-----------------------------------------------------------------------------
(* The tombstones.                                                         *)

\* Every step keeps, for a row or a request about to write one, the bytes or a tombstone.
LEMMA TombStep == TypeOK /\ TombInv /\ [Next]_vars => TombInv'
<1> SUFFICES ASSUME TypeOK, TombInv, [Next]_vars PROVE TombInv'
  OBVIOUS
<1> USE DEF TombInv, RowHasBlobOrTombstone, Committed
<1>1. ASSUME NEW r \in Request, NEW c \in Content, NEW w \in Via,
             BeginUpload(r, c, w)
      PROVE  TombInv'
  <2>1. \A q \in Request : Committed(q)' => Committed(q) /\ up'[q].sha = up[q].sha
    BY <1>1 DEF BeginUpload, TypeOK
  <2> QED
    BY <1>1, <2>1 DEF BeginUpload, disk, index
<1>2. ASSUME NEW r \in Request, UploadStep(r)
      PROVE  TombInv'
  <2>1. blob \subseteq blob' /\ tomb' = tomb
    BY <1>2 DEF UploadStep, StatBlob, CommitBlob, LogUpload, LogUploadFails,
                RecordUpload, RecordUploadFails, disk, index
  <2>2. Committed(r)' => up'[r].sha \in blob' \cup tomb'
    <3>1. CASE StatBlob(r)
      BY <3>1, <2>1, <1>2, UploadSlot
    <3>2. CASE CommitBlob(r)
      BY <3>2, <1>2, UploadSlot DEF CommitBlob
    <3>3. CASE LogUpload(r)
      BY <3>3, <2>1, <1>2, UploadSlot DEF LogUpload
    <3>4. CASE LogUploadFails(r) \/ RecordUpload(r) \/ RecordUploadFails(r)
      BY <3>4, <1>2, UploadSlot
    <3> QED
      BY <1>2, <3>1, <3>2, <3>3, <3>4 DEF UploadStep
  <2>3. \A c \in Content : row'[c] # "none" => row[c] # "none" \/ (c = up[r].sha /\ Committed(r))
    <3>1. CASE RecordUpload(r) \/ RecordUploadFails(r)
      BY <3>1 DEF RecordUpload, RecordUploadFails, RecordAsset, TypeOK
    <3>2. CASE StatBlob(r) \/ CommitBlob(r) \/ LogUpload(r) \/ LogUploadFails(r)
      <4>1. row' = row
        BY <3>2 DEF StatBlob, CommitBlob, LogUpload, LogUploadFails, index
      <4> QED
        BY <4>1
    <3> QED
      BY <1>2, <3>1, <3>2 DEF UploadStep
  <2> QED
    BY <1>2, <2>1, <2>2, <2>3, UploadFrame
<1>3. ASSUME NEW c \in Content, Trash(c) \/ Restore(c)
      PROVE  TombInv'
  BY <1>3 DEF Trash, Restore, disk, procs
<1>4. ASSUME NEW p \in Purger, NEW S \in SUBSET Content, PurgeRows(p, S)
      PROVE  TombInv'
  <2>1. blob' = blob /\ up' = up /\ tomb' = tomb \cup Family(S)
    BY <1>4 DEF PurgeRows, disk
  <2>2. /\ \A q \in Purger : q # p => pg'[q] = pg[q]
        /\ pg'[p] = [pc |-> "logging", gone |-> Family(S), todo |-> Family(S)]
        /\ \A c \in Content : row'[c] # "none" => row[c] # "none"
    BY <1>4, PurgeStarts
  <2>3. RowHasBlobOrTombstone'
    BY <2>1, <2>2
  <2>4. \A q \in Purger : pg'[q].gone \subseteq tomb' /\ pg'[q].todo \subseteq tomb'
    BY <2>1, <2>2
  <2> QED
    BY <2>1, <2>3, <2>4
<1>5. ASSUME NEW p \in Purger, PurgeStep(p)
      PROVE  TombInv'
  BY <1>5, PurgeFrame
<1>6. CASE Crash
  BY <1>6, HaltFrame DEF Crash, index
<1>7. CASE LoseDatabase
  BY <1>7, HaltFrame DEF LoseDatabase, DropRows
<1>8. CASE UNCHANGED vars
  BY <1>8 DEF vars, disk, index, procs
<1> QED
  BY <1>1, <1>2, <1>3, <1>4, <1>5, <1>6, <1>7, <1>8 DEF Next

\* The empty server has no row to have lost the bytes of.
LEMMA TombInit == Init => TombInv
  BY SlotTypes DEF Init, TombInv, RowHasBlobOrTombstone, Committed

\* Nothing is in the gallery without its bytes unless somebody permanently
\* deleted it, and the database knows they did.
THEOREM RowHasBlobOrTombstoneCorrect == Spec => []RowHasBlobOrTombstone
<1>1. TombInv => RowHasBlobOrTombstone
  BY DEF TombInv
<1> QED
  BY <1>1, TombInit, TombStep, TypeCorrect, PTL DEF Spec

\* An original is only ever unlinked beside a tombstone that names it.
THEOREM TombstonedBeforeUnlinkedCorrect == Spec => TombstonedBeforeUnlinked
<1>1. TypeOK /\ TombInv /\ [Next]_vars => [\A c \in blob \ blob' : c \in tomb]_vars
  <2> SUFFICES ASSUME TypeOK, TombInv, Next, NEW c \in blob \ blob'
               PROVE  c \in tomb
    OBVIOUS
  <2>1. \E p \in Purger : PurgeStep(p)
    BY DEF Next, BeginUpload, UploadStep, StatBlob, CommitBlob, LogUpload, LogUploadFails,
           RecordUpload, RecordUploadFails, Trash, Restore, PurgeRows, Crash, LoseDatabase,
           Halt, disk
  <2>2. PICK p \in Purger : PurgeStep(p)
    BY <2>1
  <2> QED
    BY <2>2, PurgeFrame DEF TombInv
<1> QED
  BY <1>1, TombInit, TombStep, TypeCorrect, PTL DEF Spec, TombstonedBeforeUnlinked

-----------------------------------------------------------------------------
(* The manifest.                                                           *)

\* A line in the manifest, or known to be missing from it, for good.
Known(kind, c) == Logged(kind, c) \/ <<kind, c>> \in lost

\* A content whose unlink may come next, or came, has its purge on record.
OnRecord(c) == Known("purge", c)

RecordInv ==
  /\ LossIsOnRecord
  /\ \A r \in Request : Committed(r) => up[r].sha \in blob \/ OnRecord(up[r].sha)
  /\ \A p \in Purger :
       /\ pg[p].todo \subseteq pg[p].gone
       /\ pg[p].pc = "logging" => \A c \in pg[p].gone \ pg[p].todo : OnRecord(c)
       /\ pg[p].pc = "unlinking" => \A c \in pg[p].gone : OnRecord(c)

\* A content has its asset line, or what became of the line is known.  Nothing
\* undoes it once it holds.
LineKnown(c) ==
  \/ Known("asset", c)
  \/ \E r \in Request : up[r].pc = "created" /\ up[r].sha = c

LineInv ==
  /\ \A c \in Content : row[c] # "none" \/ c \in blob => LineKnown(c)
  /\ \A r \in Request : up[r].pc = "indexing" => LineKnown(up[r].sha)

\* After an append the line is in the log or on the list of the lost, and so is every
\* line that was.
LEMMA AppendKnown ==
  ASSUME TypeOK, NEW line \in Line, Append1(line)
  PROVE  /\ Known(line.kind, line.sha)'
         /\ \A kind, c : Known(kind, c) => Known(kind, c)'
<1>1. /\ Len(log') = Len(log) + 1 /\ Len(log) \in Nat
      /\ log'[Len(log) + 1] = IF torn THEN Corrupt ELSE line
      /\ \A i \in 1..Len(log) : log'[i] = log[i]
  BY DEF TypeOK, Append1, Corrupt, Line
<1>2. \A kind, c : Logged(kind, c) => Logged(kind, c)'
  BY <1>1 DEF Logged, Lines
<1>3. \A kind, c : <<kind, c>> \in lost => <<kind, c>> \in lost'
  BY DEF Append1
<1>4. Known(line.kind, line.sha)'
  <2>1. CASE torn
    BY <2>1 DEF Append1, Known
  <2>2. CASE ~torn
    <3>1. Len(log) + 1 \in 1..Len(log') /\ log'[Len(log) + 1] = line
      BY <2>2, <1>1
    <3> QED
      BY <3>1, <1>1 DEF Known, Logged, Lines
  <2> QED
    BY <2>1, <2>2
<1> QED
  BY <1>2, <1>3, <1>4 DEF Known

\* An append that fails puts its lines on the list of the lost and takes nothing off it.
LEMMA AppendLostKnown ==
  ASSUME NEW lines, AppendLost(lines)
  PROVE  /\ \A l \in lines : Known(l.kind, l.sha)'
         /\ \A kind, c : Known(kind, c) => Known(kind, c)'
<1>1. \A l \in lines : <<l.kind, l.sha>> \in lost'
  BY DEF AppendLost
<1>2. \A kind, c : Logged(kind, c) => Logged(kind, c)'
  BY DEF AppendLost, Logged, Lines
<1>3. lost \subseteq lost'
  BY DEF AppendLost
<1> QED
  BY <1>1, <1>2, <1>3 DEF Known

\* A process that stops puts what it was about to write on the list of the lost.
LEMMA HaltKnown ==
  ASSUME Halt
  PROVE  /\ \A l \in Unwritten : Known(l.kind, l.sha)'
         /\ \A kind, c : Known(kind, c) => Known(kind, c)'
<1>1. \A l \in Unwritten : <<l.kind, l.sha>> \in lost'
  BY DEF Halt
<1>2. \A kind, c : Logged(kind, c) => Logged(kind, c)'
  BY DEF Halt, Logged, Lines
<1>3. lost \subseteq lost'
  BY DEF Halt
<1> QED
  BY <1>1, <1>2, <1>3 DEF Known

\* The manifest never takes anything back.
LEMMA KnownStays ==
  ASSUME TypeOK, [Next]_vars
  PROVE  \A kind, c : Known(kind, c) => Known(kind, c)'
<1>same. ASSUME UNCHANGED <<log, lost>> PROVE \A kind, c : Known(kind, c) => Known(kind, c)'
  BY <1>same DEF Known, Logged, Lines
<1>1. ASSUME NEW r \in Request, UploadStep(r)
      PROVE  \A kind, c : Known(kind, c) => Known(kind, c)'
  <2>1. CASE LogUpload(r)
    <3>1. AssetLine(up[r].sha, up[r].via) \in Line
      BY <1>1, UploadFrame, LineTypes
    <3> QED
      BY <2>1, <3>1, AppendKnown DEF LogUpload
  <2>2. CASE LogUploadFails(r)
    BY <2>2, AppendLostKnown DEF LogUploadFails
  <2>3. CASE StatBlob(r) \/ CommitBlob(r) \/ RecordUpload(r) \/ RecordUploadFails(r)
    BY <2>3, <1>same DEF StatBlob, CommitBlob, RecordUpload, RecordUploadFails, disk, seen
  <2> QED
    BY <1>1, <2>1, <2>2, <2>3 DEF UploadStep
<1>2. ASSUME NEW p \in Purger, NEW c \in Content,
             LogPurge(p, c) \/ LogPurgeFails(p, c) \/ UnlinkBlob(p, c) \/ UnlinkFails(p, c)
      PROVE  \A kind, d : Known(kind, d) => Known(kind, d)'
  <2>1. PurgeLine(c) \in Line
    BY DEF PurgeLine, Line, Via
  <2>2. CASE LogPurge(p, c)
    BY <2>1, <2>2, AppendKnown DEF LogPurge
  <2>3. CASE LogPurgeFails(p, c)
    BY <2>3, AppendLostKnown DEF LogPurgeFails
  <2>4. CASE UnlinkBlob(p, c) \/ UnlinkFails(p, c)
    BY <2>4, <1>same DEF UnlinkBlob, UnlinkFails, disk, seen
  <2> QED
    BY <1>2, <2>2, <2>3, <2>4
<1>3. ASSUME Crash \/ LoseDatabase
      PROVE  \A kind, c : Known(kind, c) => Known(kind, c)'
  BY <1>3, HaltKnown DEF Crash, LoseDatabase
<1>4. ASSUME \/ \E r \in Request, c \in Content, w \in Via : BeginUpload(r, c, w)
             \/ \E c \in Content : Trash(c) \/ Restore(c)
             \/ \E p \in Purger, S \in SUBSET Content : PurgeRows(p, S)
             \/ UNCHANGED vars
      PROVE  UNCHANGED <<log, lost>>
  BY <1>4 DEF BeginUpload, Trash, Restore, PurgeRows, vars, disk, seen
<1> QED
  BY <1>same, <1>1, <1>2, <1>3, <1>4 DEF Next, PurgeStep

\* Every step keeps each missing acknowledged original on record.
LEMMA RecordStep == TypeOK /\ RecordInv /\ [Next]_vars => RecordInv'
<1> SUFFICES ASSUME TypeOK, RecordInv, [Next]_vars PROVE RecordInv'
  OBVIOUS
<1> USE DEF Committed
<1>stays. \A c : OnRecord(c) => OnRecord(c)'
  BY KnownStays DEF OnRecord
<1>loss. LossIsOnRecord <=> \A c \in acked \ blob : OnRecord(c)
  BY DEF LossIsOnRecord, OnRecord, Known
<1>loss2. LossIsOnRecord' <=> \A c \in acked' \ blob' : OnRecord(c)'
  BY DEF LossIsOnRecord, OnRecord, Known
<1>1. ASSUME NEW r \in Request, NEW c \in Content, NEW w \in Via,
             BeginUpload(r, c, w)
      PROVE  RecordInv'
  <2>1. \A q \in Request : Committed(q)' => Committed(q) /\ up'[q].sha = up[q].sha
    BY <1>1 DEF BeginUpload, TypeOK
  <2>2. pg' = pg /\ blob' = blob /\ acked' = acked
    BY <1>1 DEF BeginUpload, disk, seen
  <2> QED
    BY <2>1, <2>2, <1>stays, <1>loss, <1>loss2 DEF RecordInv
<1>2. ASSUME NEW r \in Request, UploadStep(r)
      PROVE  RecordInv'
  <2>1. blob \subseteq blob' /\ pg' = pg
    BY <1>2, UploadFrame DEF UploadStep, StatBlob, CommitBlob, LogUpload, LogUploadFails,
                RecordUpload, RecordUploadFails, disk
  <2>c. PICK c \in Content : c = up[r].sha
    BY <1>2, UploadFrame
  <2>0. Committed(r) => c \in blob' \/ OnRecord(c)'
    BY <2>c, <2>1, <1>stays DEF RecordInv
  <2>2. Committed(r)' => (up'[r].sha = c /\ (c \in blob' \/ OnRecord(c)'))
    <3>1. CASE StatBlob(r)
      BY <3>1, <2>c, <2>1, <1>2, UploadSlot
    <3>2. CASE CommitBlob(r)
      BY <3>2, <2>c, <1>2, UploadSlot DEF CommitBlob
    <3>3. CASE LogUpload(r)
      BY <3>3, <2>c, <2>0, <1>2, UploadSlot DEF LogUpload
    <3>4. CASE LogUploadFails(r) \/ RecordUpload(r) \/ RecordUploadFails(r)
      BY <3>4, <1>2, UploadSlot
    <3> QED
      BY <1>2, <3>1, <3>2, <3>3, <3>4 DEF UploadStep
  <2>3. \A d \in acked' \ blob' : OnRecord(d)'
    <3>1. acked' \subseteq acked \cup {c} /\ (acked' # acked => Committed(r))
      BY <1>2, <2>c DEF UploadStep, StatBlob, CommitBlob, LogUpload, LogUploadFails,
                  RecordUpload, RecordUploadFails, seen
    <3>2. \A d \in acked \ blob' : OnRecord(d)'
      BY <2>1, <1>stays, <1>loss DEF RecordInv
    <3> QED
      BY <3>1, <3>2, <2>0
  <2>4. ASSUME NEW q \in Request, Committed(q)'
        PROVE  up'[q].sha \in blob' \/ (OnRecord(up[q].sha))'
    <3>1. CASE q = r
      BY <2>4, <3>1, <2>2
    <3>2. CASE q # r
      <4>1. up'[q] = up[q]
        BY <1>2, <3>2, UploadFrame
      <4>2. PICK d : d = up[q].sha
        OBVIOUS
      <4>3. d \in blob \/ OnRecord(d)
        BY <2>4, <4>1, <4>2 DEF RecordInv
      <4> QED
        BY <4>1, <4>2, <4>3, <2>1, <1>stays
    <3> QED
      BY <3>1, <3>2
  <2> QED
    BY <2>1, <2>3, <2>4, <1>stays, <1>loss2 DEF RecordInv
<1>3. ASSUME \/ \E c \in Content : Trash(c) \/ Restore(c)
             \/ UNCHANGED vars
      PROVE  RecordInv'
  <2>1. UNCHANGED <<blob, acked, up, pg>>
    BY <1>3 DEF Trash, Restore, vars, disk, procs, seen
  <2> QED
    BY <2>1, <1>stays, <1>loss, <1>loss2 DEF RecordInv
<1>4. ASSUME NEW p \in Purger, NEW S \in SUBSET Content, PurgeRows(p, S)
      PROVE  RecordInv'
  <2>1. UNCHANGED <<blob, acked, up>>
    BY <1>4 DEF PurgeRows, disk
  <2>2. /\ \A q \in Purger : q # p => pg'[q] = pg[q]
        /\ pg'[p] = [pc |-> "logging", gone |-> Family(S), todo |-> Family(S)]
    BY <1>4, PurgeStarts
  <2>3. \A q \in Purger :
          /\ pg'[q].todo \subseteq pg'[q].gone
          /\ pg'[q].pc = "logging" => \A c \in pg'[q].gone \ pg'[q].todo : OnRecord(c)'
          /\ pg'[q].pc = "unlinking" => \A c \in pg'[q].gone : OnRecord(c)'
    BY <2>2, <1>stays DEF RecordInv
  <2> QED
    BY <2>1, <2>3, <1>stays, <1>loss, <1>loss2 DEF RecordInv
<1>5. ASSUME NEW p \in Purger, NEW d \in Content,
             \/ LogPurge(p, d) \/ LogPurgeFails(p, d)
             \/ UnlinkBlob(p, d) \/ UnlinkFails(p, d)
      PROVE  RecordInv'
  <2>1. PurgeStep(p)
    BY <1>5 DEF PurgeStep
  <2>2. UNCHANGED <<acked, up>> /\ \A q \in Purger : q # p => pg'[q] = pg[q]
    BY <2>1, PurgeFrame
  <2>3. d \in pg[p].todo /\ pg[p] \in PurgeState
    BY <1>5 DEF LogPurge, LogPurgeFails, UnlinkBlob, UnlinkFails, TypeOK
  <2>4. CASE LogPurge(p, d) \/ LogPurgeFails(p, d)
    <3>1. blob' = blob /\ Tombstoned(p, d) /\ pg[p].pc = "logging"
      BY <2>4 DEF LogPurge, LogPurgeFails
    <3>2. OnRecord(d)'
      <4>1. PurgeLine(d) \in Line /\ PurgeLine(d).kind = "purge" /\ PurgeLine(d).sha = d
        BY DEF PurgeLine, Line, Via
      <4>2. CASE LogPurge(p, d)
        BY <4>1, <4>2, AppendKnown DEF LogPurge, OnRecord
      <4>3. CASE LogPurgeFails(p, d)
        BY <4>1, <4>3, AppendLostKnown DEF LogPurgeFails, OnRecord
      <4> QED
        BY <2>4, <4>2, <4>3
    <3>3. pg'[p] = IF pg[p].todo \ {d} = {}
                   THEN [pc |-> "unlinking", gone |-> pg[p].gone, todo |-> pg[p].gone]
                   ELSE [pg[p] EXCEPT !.todo = pg[p].todo \ {d}]
      BY <3>1 DEF Tombstoned, TypeOK
    <3>4. \A c \in pg[p].gone \ (pg[p].todo \ {d}) : OnRecord(c)'
      BY <3>1, <3>2, <1>stays DEF RecordInv
    <3>5. /\ pg'[p].todo \subseteq pg'[p].gone
          /\ pg'[p].pc = "logging" => \A c \in pg'[p].gone \ pg'[p].todo : OnRecord(c)'
          /\ pg'[p].pc = "unlinking" => \A c \in pg'[p].gone : OnRecord(c)'
      <4>1. pg[p].todo \subseteq pg[p].gone
        BY DEF RecordInv
      <4>2. CASE pg[p].todo \ {d} = {}
        BY <4>1, <4>2, <3>3, <3>4
      <4>3. CASE pg[p].todo \ {d} # {}
        BY <4>1, <4>3, <3>1, <3>3, <3>4, <2>3 DEF PurgeState
      <4> QED
        BY <4>2, <4>3
    <3> QED
      BY <3>1, <3>5, <2>2, <1>stays, <1>loss, <1>loss2 DEF RecordInv
  <2>5. CASE UnlinkBlob(p, d) \/ UnlinkFails(p, d)
    <3>1. blob \ {d} \subseteq blob' /\ Unlinked(p, d) /\ pg[p].pc = "unlinking"
      BY <2>5 DEF UnlinkBlob, UnlinkFails, disk
    <3>2. OnRecord(d)'
      BY <3>1, <2>3, <1>stays DEF RecordInv
    <3>3. pg'[p] = IF pg[p].todo \ {d} = {} THEN NoPurge
                   ELSE [pg[p] EXCEPT !.todo = pg[p].todo \ {d}]
      BY <3>1 DEF Unlinked, TypeOK
    <3>4. /\ pg'[p].todo \subseteq pg'[p].gone
          /\ pg'[p].pc = "logging" => \A c \in pg'[p].gone \ pg'[p].todo : OnRecord(c)'
          /\ pg'[p].pc = "unlinking" => \A c \in pg'[p].gone : OnRecord(c)'
      <4>1. pg[p].todo \subseteq pg[p].gone /\ \A c \in pg[p].gone : OnRecord(c)'
        BY <3>1, <1>stays DEF RecordInv
      <4>2. CASE pg[p].todo \ {d} = {}
        BY <4>2, <3>3, SlotTypes
      <4>3. CASE pg[p].todo \ {d} # {}
        BY <4>1, <4>3, <3>1, <3>3, <2>3 DEF PurgeState
      <4> QED
        BY <4>2, <4>3
    <3>5. \A c \in acked' \ blob' : OnRecord(c)'
      BY <3>1, <3>2, <2>2, <1>stays, <1>loss DEF RecordInv
    <3>6. \A q \in Request : Committed(q)' => up'[q].sha \in blob' \/ (OnRecord(up[q].sha))'
      BY <3>1, <3>2, <2>2, <1>stays DEF RecordInv
    <3> QED
      BY <3>4, <3>5, <3>6, <2>2, <1>stays, <1>loss2 DEF RecordInv
  <2> QED
    BY <1>5, <2>4, <2>5
<1>6. ASSUME Crash \/ LoseDatabase
      PROVE  RecordInv'
  <2>1. Halt
    BY <1>6 DEF Crash, LoseDatabase
  <2> QED
    BY <2>1, HaltFrame, <1>stays, <1>loss, <1>loss2 DEF RecordInv
<1> QED
  BY <1>1, <1>2, <1>3, <1>4, <1>5, <1>6 DEF Next, PurgeStep

\* When an original somebody was promised is gone, the manifest says it was a
\* decision, unless the append that says so was interrupted.
THEOREM LossIsOnRecordCorrect == Spec => []LossIsOnRecord
<1>1. Init => RecordInv
  BY SlotTypes DEF Init, RecordInv, LossIsOnRecord, Committed
<1>2. RecordInv => LossIsOnRecord
  BY DEF RecordInv
<1> QED
  BY <1>1, <1>2, RecordStep, TypeCorrect, PTL DEF Spec

\* A line that is known stays known, whoever was about to write it.
LEMMA LineKnownStays ==
  ASSUME TypeOK, [Next]_vars
  PROVE  \A c \in Content : LineKnown(c) => LineKnown(c)'
<1> SUFFICES ASSUME NEW c \in Content, NEW r \in Request,
                    up[r].pc = "created", up[r].sha = c
             PROVE  LineKnown(c)'
  BY KnownStays DEF LineKnown
<1>r. AssetLine(c, up[r].via) \in Line
      /\ AssetLine(c, up[r].via).kind = "asset" /\ AssetLine(c, up[r].via).sha = c
  BY LineTypes DEF TypeOK, UploadState
<1>1. ASSUME up'[r] = up[r] PROVE LineKnown(c)'
  BY <1>1 DEF LineKnown
<1>2. CASE LogUpload(r)
  BY <1>2, <1>r, AppendKnown DEF LogUpload, LineKnown
<1>3. CASE LogUploadFails(r)
  BY <1>3, <1>r, AppendLostKnown DEF LogUploadFails, LineKnown
<1>4. CASE Crash \/ LoseDatabase
  <2>1. AssetLine(c, up[r].via) \in Unwritten
    BY DEF Unwritten
  <2> QED
    BY <1>4, <2>1, <1>r, HaltKnown DEF Crash, LoseDatabase, LineKnown
<1>5. CASE \E q \in Request : UploadStep(q) /\ q # r
  BY <1>5, <1>1, UploadFrame
<1>6. CASE UploadStep(r)
  BY <1>6, <1>2, <1>3 DEF UploadStep, StatBlob, CommitBlob, RecordUpload, RecordUploadFails
<1>7. CASE \/ \E q \in Request, d \in Content, w \in Via : BeginUpload(q, d, w)
           \/ \E d \in Content : Trash(d) \/ Restore(d)
           \/ \E p \in Purger, S \in SUBSET Content : PurgeRows(p, S)
           \/ \E p \in Purger : PurgeStep(p)
           \/ UNCHANGED vars
  <2>1. CASE \E q \in Request, d \in Content, w \in Via : BeginUpload(q, d, w)
    BY <2>1, <1>1 DEF BeginUpload, TypeOK
  <2>2. CASE \/ \E d \in Content : Trash(d) \/ Restore(d)
             \/ \E p \in Purger, S \in SUBSET Content : PurgeRows(p, S)
             \/ UNCHANGED vars
    BY <2>2, <1>1 DEF Trash, Restore, PurgeRows, vars, procs
  <2>3. CASE \E p \in Purger : PurgeStep(p)
    BY <2>3, <1>1, PurgeFrame
  <2> QED
    BY <1>7, <2>1, <2>2, <2>3
<1> QED
  BY <1>4, <1>5, <1>6, <1>7 DEF Next

\* Every step keeps a line, or its recorded loss, behind each row and each stored original.
LEMMA LineStep == TypeOK /\ LineInv /\ [Next]_vars => LineInv'
<1> SUFFICES ASSUME TypeOK, LineInv, [Next]_vars PROVE LineInv'
  OBVIOUS
<1>stays. \A c \in Content : LineKnown(c) => LineKnown(c)'
  BY LineKnownStays
<1>same. ASSUME \A c \in Content : row'[c] # "none" => row[c] # "none",
                blob' \subseteq blob,
                \A q \in Request : up'[q].pc = "indexing" => up'[q] = up[q]
         PROVE  LineInv'
  <2>1. \A c \in Content : row'[c] # "none" \/ c \in blob' => LineKnown(c)'
    BY <1>same, <1>stays DEF LineInv
  <2>2. ASSUME NEW q \in Request, up'[q].pc = "indexing"
        PROVE  (LineKnown(up[q].sha))'
    <3>1. PICK c \in Content : c = up[q].sha
      BY <1>same, <2>2 DEF TypeOK
    <3>2. LineKnown(c)' /\ up'[q].sha = c
      BY <1>same, <1>stays, <2>2, <3>1 DEF LineInv
    <3> QED
      BY <3>2
  <2> QED
    BY <2>1, <2>2 DEF LineInv
<1>1. ASSUME NEW r \in Request, NEW d \in Content, NEW w \in Via,
             BeginUpload(r, d, w)
      PROVE  LineInv'
  <2>1. \A q \in Request : up'[q].pc = "indexing" => up'[q] = up[q]
    BY <1>1 DEF BeginUpload, TypeOK
  <2> QED
    BY <1>1, <1>same, <2>1 DEF BeginUpload, disk, index
<1>2. ASSUME NEW r \in Request, UploadStep(r)
      PROVE  LineInv'
  <2>c. PICK c \in Content : c = up[r].sha
    BY <1>2, UploadFrame
  <2>1. CASE CommitBlob(r)
    <3>1. LineKnown(c)'
      BY <1>2, <2>1, <2>c, UploadSlot DEF LineKnown
    <3>2. row' = row /\ blob' = blob \cup {c}
      BY <2>1, <2>c DEF CommitBlob, index
    <3>3. \A q \in Request : up'[q].pc = "indexing" => up'[q] = up[q]
      BY <1>2, <2>1, UploadFrame, UploadSlot
    <3>4. \A d \in Content : row'[d] # "none" \/ d \in blob' => LineKnown(d)'
      BY <3>1, <3>2, <1>stays DEF LineInv
    <3>5. ASSUME NEW q \in Request, up'[q].pc = "indexing"
          PROVE  (LineKnown(up[q].sha))'
      <4>1. PICK d \in Content : d = up[q].sha
        BY <3>3, <3>5 DEF TypeOK
      <4>2. LineKnown(d)' /\ up'[q].sha = d
        BY <3>3, <3>5, <4>1, <1>stays DEF LineInv
      <4> QED
        BY <4>2
    <3> QED
      BY <3>4, <3>5 DEF LineInv
  <2>2. ASSUME blob' = blob, \A d \in Content : row'[d] # "none" => row[d] # "none" \/ d = c,
               LineKnown(c)'
        PROVE  LineInv'
    <3>1. \A d \in Content : row'[d] # "none" \/ d \in blob' => LineKnown(d)'
      BY <2>2, <1>stays DEF LineInv
    <3>2. ASSUME NEW q \in Request, up'[q].pc = "indexing"
          PROVE  (LineKnown(up[q].sha))'
      <4>1. CASE q = r
        <5>1. up'[q].sha = c
          BY <4>1, <3>2, <2>c, <1>2, UploadSlot
        <5> QED
          BY <5>1, <2>2
      <4>2. CASE q # r
        <5>1. up'[q] = up[q]
          BY <4>2, <1>2, UploadFrame
        <5>2. PICK d \in Content : d = up[q].sha
          BY <5>1, <3>2 DEF TypeOK
        <5>3. LineKnown(d)' /\ up'[q].sha = d
          BY <5>1, <5>2, <3>2, <1>stays DEF LineInv
        <5> QED
          BY <5>3
      <4> QED
        BY <4>1, <4>2
    <3> QED
      BY <3>1, <3>2 DEF LineInv
  <2>3. CASE StatBlob(r)
    <3>1. CASE c \in blob
      <4>1. LineKnown(c)'
        BY <3>1, <1>stays DEF LineInv
      <4> QED
        BY <2>2, <2>3, <4>1 DEF StatBlob, disk, index
    <3>2. CASE c \notin blob
      <4>1. \A q \in Request : up'[q].pc = "indexing" => up'[q] = up[q]
        BY <1>2, <2>3, <2>c, <3>2, UploadFrame, UploadSlot
      <4> QED
        BY <2>3, <1>same, <4>1 DEF StatBlob, disk, index
    <3> QED
      BY <3>1, <3>2
  <2>4. CASE LogUpload(r)
    <3>1. LineKnown(c)'
      BY <2>4, <2>c, <1>stays DEF LogUpload, LineKnown
    <3> QED
      BY <2>2, <2>4, <3>1 DEF LogUpload, index
  <2>5. CASE LogUploadFails(r)
    <3>1. LineKnown(c)'
      BY <2>5, <2>c, <1>stays DEF LogUploadFails, LineKnown
    <3> QED
      BY <2>2, <2>5, <3>1 DEF LogUploadFails, index
  <2>6. CASE RecordUpload(r) \/ RecordUploadFails(r)
    <3>1. LineKnown(c)'
      BY <2>6, <2>c, <1>stays DEF RecordUpload, RecordUploadFails, LineInv
    <3>2. \A d \in Content : row'[d] # "none" => row[d] # "none" \/ d = c
      BY <2>6, <2>c DEF RecordUpload, RecordUploadFails, RecordAsset, TypeOK
    <3> QED
      BY <2>2, <2>6, <3>1, <3>2 DEF RecordUpload, RecordUploadFails, disk
  <2> QED
    BY <1>2, <2>1, <2>3, <2>4, <2>5, <2>6 DEF UploadStep
<1>3. ASSUME NEW d \in Content, Trash(d) \/ Restore(d)
      PROVE  LineInv'
  <2>1. \A c \in Content : row'[c] # "none" => row[c] # "none"
    BY <1>3 DEF Trash, Restore
  <2> QED
    BY <1>3, <1>same, <2>1 DEF Trash, Restore, disk, procs
<1>4. ASSUME NEW p \in Purger, NEW S \in SUBSET Content, PurgeRows(p, S)
      PROVE  LineInv'
  BY <1>4, <1>same, PurgeStarts DEF PurgeRows, disk
<1>5. ASSUME NEW p \in Purger, PurgeStep(p)
      PROVE  LineInv'
  BY <1>5, <1>same, PurgeFrame
<1>6. ASSUME Crash \/ LoseDatabase
      PROVE  LineInv'
  <2>1. \A c \in Content : row'[c] # "none" => row[c] # "none"
    BY <1>6 DEF Crash, LoseDatabase, DropRows, index
  <2>2. blob' = blob /\ \A r \in Request : up'[r].pc = "idle"
    BY <1>6, HaltFrame DEF Crash, LoseDatabase
  <2> QED
    BY <1>same, <2>1, <2>2
<1>7. CASE UNCHANGED vars
  BY <1>7, <1>same DEF vars, disk, index, procs
<1> QED
  BY <1>1, <1>2, <1>3, <1>4, <1>5, <1>6, <1>7 DEF Next

\* A row without a manifest line is one whose line was interrupted, or is on its
\* way: the order blob, manifest, row leaves no other way to miss it.
THEOREM LineUnlessInterruptedCorrect == Spec => []LineUnlessInterrupted
<1>1. Init => LineInv
  BY SlotTypes DEF Init, LineInv
<1>2. LineInv => LineUnlessInterrupted
  BY DEF LineInv, LineUnlessInterrupted, LineKnown, Known
<1> QED
  BY <1>1, <1>2, LineStep, TypeCorrect, PTL DEF Spec
=============================================================================
