---------------------------- MODULE Derivatives ----------------------------
(***************************************************************************)
(* What is made of a video, over the queue that makes it: the metadata run *)
(* and the playback run of one asset, statement by statement, beside       *)
(* whoever pairs, hides and restores that asset.                           *)
(*                                                                         *)
(* The two kinds of job write the same playback_state and nothing orders   *)
(* them: a metadata run reads the asset, works for minutes, and decides    *)
(* from what it read whether the rendition for players is owed.  The state *)
(* and the job that is to deliver on it change in two statements.          *)
(*                                                                         *)
(* The original, the tools and the rendition on disk answer as they like.  *)
(***************************************************************************)
EXTENDS JobQueue

CONSTANTS
  Video,        \* assets of this kind
  MaxAsks,      \* bound: how often work is asked for, an asset paired or hidden
  MaxFaults     \* bound: crashes, lost statements, stalled workers, outages

ASSUME DerivativesAssumption ==
  /\ Job = Video \X {"metadata", "playback"}
  /\ MaxAsks \in Nat /\ MaxFaults \in Nat

VARIABLES
  asset,     \* the columns of each asset that the runs read and write
  run,       \* how far each worker's run is, and what it read of the asset
  stranded,  \* observation: assets NothingStalled excuses, until told again
  asks,      \* asks used, against MaxAsks
  faults     \* faults used, against MaxFaults

budget == <<asks, faults>>
derivVars == <<vars, asset, run, stranded, budget>>

-----------------------------------------------------------------------------
Metadata(v) == <<v, "metadata">>
Playback(v) == <<v, "playback">>

AssetState ==
  [playback : {"none", "pending", "ready", "failed"},   \* playback_state
   derived : {"pending", "ready", "failed"},            \* derived_state
   live : BOOLEAN,       \* half of a Live Photo
   vault : BOOLEAN]      \* hidden, or archived, in the vault

\* saw: that the asset was half of a Live Photo, that its rendition was ready,
\* or neither, so that one is owed.
RunState ==
  [at : {"start", "read", "stored", "flipped", "ended"},
   saw : {"live", "ready", "owed"}]

\* A run that has no more use for what it saw.
Past(at) == [at |-> at, saw |-> "owed"]

Fresh == Past("start")

\* The queue and the assets have their types; only a run in progress is past
\* its start, only a metadata run is ever between its statements, and what is
\* in the vault is excused.
Typing ==
  /\ TypeOK
  /\ asset \in [Video -> AssetState]
  /\ run \in [Worker -> RunState]
  /\ \A w \in Worker :
       /\ run[w].at # "start" => work[w].pc = "running"
       /\ run[w].at \in {"stored", "flipped"} => work[w].job[2] = "metadata"
  /\ stranded \subseteq Video /\ {v \in Video : asset[v].vault} \subseteq stranded
  /\ asks \in 0..MaxAsks /\ faults \in 0..MaxFaults

\* An asset as it is recorded, paired or not by what was declared, with its first
\* job.
DerivInit ==
  /\ Init
  /\ row = [j \in Job |-> IF j[2] = "metadata" THEN Asked ELSE NoRow]
  /\ asset \in [Video -> [playback : {"none"}, derived : {"pending"},
                          live : BOOLEAN, vault : {FALSE}]]
  /\ run = [w \in Worker |-> Fresh]
  /\ stranded = {}
  /\ asks = 0 /\ faults = 0

Ask   == asks < MaxAsks /\ asks' = asks + 1 /\ UNCHANGED faults
Fault == faults < MaxFaults /\ faults' = faults + 1 /\ UNCHANGED asks

\* A worker between two statements of a run.
Running(w, at) == work[w].pc = "running" /\ run[w].at = at

RunsOf(j) == {w \in Worker : Executing(w, j)}

\* A run that has said its last of the asset and not yet reported to the row.
Ended(j) == {w \in RunsOf(j) : run[w].at = "ended" /\ work[w].claim # "gone"}

\* A metadata run between SetPlaybackState(pending) and Requeue.
Flipped(v) == {w \in RunsOf(Metadata(v)) : run[w].at = "flipped"}

\* SetPlaybackState to something final: nothing is owed any more.
Tell(v, state) ==
  /\ asset' = [asset EXCEPT ![v].playback = state]
  /\ stranded' = IF asset[v].vault THEN stranded ELSE stranded \ {v}

-----------------------------------------------------------------------------
(* Whoever asks, pairs, hides and restores.                                *)

Demand(j) == Ask /\ Asking(j) /\ UNCHANGED <<asset, run, stranded>>

\* A still is archived that claims the video: the pairing is recorded, and the
\* metadata job goes again where it has had its say.
Pair(v) ==
  /\ Ask
  /\ ~asset[v].live
  /\ asset' = [asset EXCEPT ![v].live = TRUE]
  /\ IF asset[v].derived # "pending" THEN AskFor(Metadata(v)) ELSE UNCHANGED vars
  /\ UNCHANGED <<run, stranded>>

\* The asset goes into the vault and its jobs go, but for what is running.
Hide(v) ==
  /\ Ask
  /\ ~asset[v].vault
  /\ asset' = [asset EXCEPT ![v].vault = TRUE]
  /\ Discard({Metadata(v), Playback(v)})
  /\ stranded' = stranded \cup {v}
  /\ UNCHANGED run

\* It comes back, with its metadata job where that never finished.
Restore(v) ==
  /\ asset[v].vault
  /\ asset' = [asset EXCEPT ![v].vault = FALSE]
  /\ IF asset[v].derived # "ready" THEN AskFor(Metadata(v)) ELSE UNCHANGED vars
  /\ UNCHANGED <<run, stranded, budget>>

-----------------------------------------------------------------------------
(* The runs.                                                               *)

Take(w, j) == Claim(w, j) /\ UNCHANGED <<asset, run, stranded, budget>>

\* What a run decides from, of an asset that reads a.
Reading(a) ==
  [at |-> "read", saw |-> IF a.live THEN "live"
                          ELSE IF a.playback = "ready" THEN "ready" ELSE "owed"]

\* Both runs begin by reading the asset, and end at once, as done, if it is in
\* the vault.
ReadAsset(w) ==
  LET a == asset[work[w].job[1]]
  IN  /\ Running(w, "start")
      /\ run' = [run EXCEPT ![w] = IF a.vault THEN Past("ended") ELSE Reading(a)]
      /\ UNCHANGED <<vars, asset, stranded, budget>>

\* The file carries another identifier than was declared: that pairs the video
\* or undoes a pairing, and the asset is read again.
ApplyContentID(w) ==
  LET v == work[w].job[1]
  IN  /\ Ask
      /\ Running(w, "read") /\ work[w].job[2] = "metadata"
      /\ \E paired \in BOOLEAN : asset' = [asset EXCEPT ![v].live = paired]
      /\ run' = [run EXCEPT ![w] = Reading(asset'[v])]
      /\ UNCHANGED <<vars, stranded>>

\* ApplyMetadata.
StoreMetadata(w) ==
  /\ Running(w, "read") /\ work[w].job[2] = "metadata"
  /\ asset' = [asset EXCEPT ![work[w].job[1]].derived = "ready"]
  /\ run' = [run EXCEPT ![w].at = "stored"]
  /\ UNCHANGED <<vars, stranded, budget>>

\* A Live Photo's motion is never opened in a player, and what cannot be decoded
\* cannot be transcoded.
OweNothing(w) ==
  /\ Running(w, "stored")
  /\ Tell(work[w].job[1], "none")
  /\ run' = [run EXCEPT ![w] = Past("ended")]
  /\ UNCHANGED <<vars, budget>>

\* The rendition was ready, and it is on disk.
KeepRendition(w) ==
  /\ Running(w, "stored") /\ run[w].saw = "ready"
  /\ run' = [run EXCEPT ![w] = Past("ended")]
  /\ UNCHANGED <<vars, asset, stranded, budget>>

\* SetPlaybackState(pending).
OwePlayback(w) ==
  /\ Running(w, "stored") /\ run[w].saw # "live"
  /\ asset' = [asset EXCEPT ![work[w].job[1]].playback = "pending"]
  /\ run' = [run EXCEPT ![w] = Past("flipped")]
  /\ UNCHANGED <<vars, stranded, budget>>

\* Mutant: Enqueue, which a playback job that has run makes do nothing.
QueuePlaybackOnce(w) ==
  LET v == work[w].job[1]
  IN  /\ Running(w, "flipped")
      /\ IF row[Playback(v)].state = "none" THEN AskFor(Playback(v)) ELSE UNCHANGED vars
      /\ stranded' = IF Ended(Playback(v)) # {} THEN stranded \cup {v} ELSE stranded
      /\ run' = [run EXCEPT ![w] = Past("ended")]
      /\ UNCHANGED <<asset, budget>>

\* Requeue of the playback job.  A playback run that has set its state and not yet
\* reported will complete this new request.
QueuePlayback(w) ==
  LET v == work[w].job[1]
  IN  /\ Running(w, "flipped")
      /\ AskFor(Playback(v))
      /\ stranded' = IF Ended(Playback(v)) # {} THEN stranded \cup {v} ELSE stranded
      /\ run' = [run EXCEPT ![w] = Past("ended")]
      /\ UNCHANGED <<asset, budget>>

\* The transcode, or nothing for what has become half of a Live Photo.
BuildPlayback(w) ==
  /\ Running(w, "read") /\ work[w].job[2] = "playback"
  /\ Tell(work[w].job[1], IF run[w].saw = "live" THEN "none" ELSE "ready")
  /\ run' = [run EXCEPT ![w] = Past("ended")]
  /\ UNCHANGED <<vars, budget>>

-----------------------------------------------------------------------------
(* The end of a run.                                                       *)

\* What a run leaves behind: a metadata run that stops between its two
\* statements has promised a rendition, and only its own job, gone again, makes
\* good on that.
Leave(w) ==
  LET v == work[w].job[1]
  IN  /\ run' = [run EXCEPT ![w] = Fresh]
      /\ stranded' = IF /\ w \in Flipped(v)
                        /\ work[w].claim # "ours" \/ RunsOf(Metadata(v)) # {w}
                     THEN stranded \cup {v} ELSE stranded

CompleteRun(w) ==
  /\ Running(w, "ended")
  /\ Complete(w)
  /\ run' = [run EXCEPT ![w] = Fresh]
  /\ UNCHANGED <<asset, stranded, budget>>

\* Any statement, or tool, before the last.
FailRun(w, hopeless) ==
  /\ run[w].at # "ended"
  /\ Fail(w, hopeless)
  /\ Leave(w)
  /\ UNCHANGED <<asset, budget>>

\* None of the two kinds asks the photo service; the kinds that do share the
\* table and its promises.
DeferRun(w) ==
  /\ run[w].at # "ended"
  /\ Fault
  /\ Defer(w)
  /\ Leave(w)
  /\ UNCHANGED asset

LoseReport(w) ==
  /\ Fault
  /\ ReportLost(w)
  /\ run[w].at = "ended" => work'[w] = Idle
  /\ Leave(w)
  /\ UNCHANGED asset

TellFailed(w) ==
  LET v == work[w].job[1]
  IN  /\ MarkFailed(w)
      /\ IF work[w].job[2] = "playback" THEN Tell(v, "failed")
         ELSE asset' = [asset EXCEPT ![v].derived = "failed"] /\ UNCHANGED stranded
      /\ UNCHANGED <<run, budget>>

\* Logged, and the asset is never told.
MarkLost(w) == Fault /\ MarkFailed(w) /\ UNCHANGED <<asset, run, stranded>>

\* Every worker goes.  The jobs they held are still theirs until the leases lapse.
CrashAll ==
  /\ Fault
  /\ Crash
  /\ run' = [w \in Worker |-> Fresh]
  /\ stranded' = stranded \cup
       {v \in Video : \E w \in Flipped(v) : work[w].claim # "ours"}
  /\ UNCHANGED asset

\* What happens to the rows alone.
Elapse(j) == (ComesDue(j) \/ Lapses(j)) /\ UNCHANGED <<asset, run, stranded, budget>>

Interrupt(j) == Fault /\ (ClaimLost(j) \/ Stalls(j)) /\ UNCHANGED <<asset, run, stranded>>

Beat(w) == Heartbeat(w) /\ UNCHANGED <<asset, run, stranded, budget>>

Sweep == ReclaimExpired /\ UNCHANGED <<asset, run, stranded, budget>>

-----------------------------------------------------------------------------
\* What a worker does of itself.
Working(w) ==
  \/ ReadAsset(w) \/ StoreMetadata(w)
  \/ OweNothing(w) \/ KeepRendition(w) \/ OwePlayback(w) \/ QueuePlayback(w)
  \/ BuildPlayback(w)
  \/ CompleteRun(w) \/ \E hopeless \in BOOLEAN : FailRun(w, hopeless)
  \/ TellFailed(w)

DerivNext ==
  \/ \E j \in Job : Demand(j) \/ Elapse(j) \/ Interrupt(j)
  \/ \E v \in Video : Pair(v) \/ Hide(v) \/ Restore(v)
  \/ \E w \in Worker : \/ \E j \in Job : Take(w, j)
                       \/ ApplyContentID(w) \/ Working(w) \/ Beat(w)
                       \/ DeferRun(w) \/ LoseReport(w) \/ MarkLost(w)
  \/ Sweep \/ CrashAll

DerivSpec == DerivInit /\ [][DerivNext]_derivVars

\* A pool polls for ever and its subprocesses end, the sweep ticks every minute,
\* and time passes.
Fairness ==
  /\ \A w \in Worker : WF_derivVars(\E j \in Job : Take(w, j)) /\ WF_derivVars(Working(w))
  /\ \A j \in Job : WF_derivVars(Elapse(j))
  /\ WF_derivVars(Sweep)

FairSpec == DerivSpec /\ Fairness

-----------------------------------------------------------------------------
(* What is promised of the assets.                                         *)

\* metadata.go: a row left 'pending' with no job behind the promise, over which
\* "the viewer shows 'preparing a version this browser can play' ... forever".
\* However the two runs interleave, lapse, fail and are asked for again, a
\* pending rendition has a playback job that is not done, or a metadata job that
\* is about to ask for one or has to run again.  Excused, until playback_state
\* is next told, is what went into the vault, a request made while an older
\* playback run was about to report, and a flip whose run stopped before asking
\* while its job was not its alone.
NothingStalled ==
  \A v \in Video \ stranded :
    asset[v].playback = "pending" /\ row[Playback(v)].state \in {"none", "done"} =>
      Flipped(v) # {} \/ row[Metadata(v)].state \in {"pending", "running", "failed"}

\* Work that is asked for is done, given up, or withdrawn in the end: no fault
\* leaves a row nobody will ever take (jobs.go ReclaimExpired).
Settles ==
  \A j \in Job : row[j].state \in {"pending", "running"}
                   ~> row[j].state \in {"done", "failed", "none"}
=============================================================================
