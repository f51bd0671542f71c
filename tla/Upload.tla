-------------------------------- MODULE Upload --------------------------------
(***************************************************************************)
(* The web upload page: useUpload, the intake that reads what was dropped  *)
(* on it, the run that sends it, and the buttons that stop either.         *)
(*                                                                         *)
(* Each drop is read by an intake of its own, one file at a time, and asks *)
(* the archive about what it read in batches.  A run sends what passed     *)
(* with a few workers over one queue.  Removing a row, Cancel and Reset    *)
(* abort requests of both kinds, which share one map of controllers: a     *)
(* file has one there while it is being read and while it is being sent.   *)
(***************************************************************************)
EXTENDS Naturals, Sequences, FiniteSets, SequencesExt, FiniteSetsExt

CONSTANTS File,        \* the rows the page may ever have
          Content,
          Bytes,       \* the content of a file
          Intake,      \* the drops
          Dropped,     \* the files of each drop that inspect lets through, in order
          Refused,     \* the files of each drop that it does not
          Worker,      \* CONCURRENCY of them
          CheckBatch,  \* CHECK_BATCH
          MaxFaults,   \* how many reads, checks and uploads may fail
          MaxPresses,  \* how often somebody removes, cancels or resets
          None

\* Every file dropped has a key of its own, so no row belongs to two drops.
ASSUME UploadAssumption ==
  /\ IsFiniteSet(File) /\ Bytes \in [File -> Content]
  /\ Dropped \in [Intake -> Seq(File)] /\ Refused \in [Intake -> SUBSET File]
  /\ \A i \in Intake : \A m, n \in 1 .. Len(Dropped[i]) :
       Dropped[i][m] = Dropped[i][n] => m = n
  /\ \A i \in Intake : ToSet(Dropped[i]) \cap Refused[i] = {}
  /\ \A i, j \in Intake : i # j =>
       (ToSet(Dropped[i]) \cup Refused[i]) \cap (ToSet(Dropped[j]) \cup Refused[j]) = {}
  /\ IsFiniteSet(Worker) /\ Worker # {} /\ CheckBatch \in Nat \ {0}
  /\ MaxFaults \in Nat /\ MaxPresses \in Nat
  /\ None \notin File

VARIABLES
  row,      \* the status of each row, "none" when it is not on the page
  intake,   \* each drop: what is left to read, the batch to ask about, the
            \* digests seen, and what of it the archive answered it has
  queue,    \* what the run has not handed to a worker yet
  worker,   \* each worker: what it sends, and the answer in transit
  running,
  archive,  \* the contents the archive holds; nothing is purged meanwhile
  faults,
  presses

vars == <<row, intake, queue, worker, running, archive, faults, presses>>

\* A row's life.  "twin" is the code's duplicate-in-batch.
Status == {"none", "checking", "ready", "rejected", "duplicate", "twin",
           "queued", "sending", "stored", "failed"}

Sendable == {f \in File : row[f] \in {"ready", "failed"}}

\* patch and remove: a row that is gone is not patched back.
Patched(r, fs, status) == [f \in File |-> IF f \in fs /\ r[f] # "none" THEN status ELSE r[f]]

Unread == [pc |-> "unread", todo |-> <<>>, batch |-> {}, seen |-> {}, answer |-> {}]

Idle == [pc |-> "idle", file |-> None, answer |-> None]

Fault == faults < MaxFaults /\ faults' = faults + 1

Press == presses < MaxPresses /\ presses' = presses + 1

-----------------------------------------------------------------------------
(* Intake. *)

\* Mutant: everything is asked about at once, when all of it is read.
AfterAll(todo, batch, seen) ==
  [pc |-> IF todo # <<>> THEN "reading" ELSE IF batch # {} THEN "asking" ELSE "ended",
   todo |-> todo, batch |-> batch, seen |-> seen, answer |-> {}]

\* What an intake does after a file: a full batch is asked about, the next file
\* is read, and the last of them is followed by whatever there is to ask.
After(todo, batch, seen) ==
  [pc |-> IF Cardinality(batch) >= CheckBatch \/ (todo = <<>> /\ batch # {}) THEN "asking"
          ELSE IF todo # <<>> THEN "reading" ELSE "ended",
   todo |-> todo, batch |-> batch, seen |-> seen, answer |-> {}]

\* add: what inspect turns away is a row too, and is not read.
Add(i) ==
  /\ intake[i].pc = "unread"
  /\ row' = [f \in File |-> IF f \in Refused[i] THEN "rejected"
                            ELSE IF f \in ToSet(Dropped[i]) THEN "checking" ELSE row[f]]
  /\ intake' = [intake EXCEPT ![i] = After(Dropped[i], {}, {})]
  /\ UNCHANGED <<queue, worker, running, archive, faults, presses>>

\* A file has been hashed: the second of two with the same digest in one drop
\* is a duplicate, whatever has become of the row of the first.
Read(i) ==
  /\ intake[i].pc = "reading"
  /\ LET f == Head(intake[i].todo)
         twin == Bytes[f] \in intake[i].seen
     IN  /\ row' = IF twin THEN Patched(row, {f}, "twin") ELSE row
         /\ intake' = [intake EXCEPT
              ![i] = After(Tail(@.todo), IF twin THEN @.batch ELSE @.batch \cup {f},
                           @.seen \cup {Bytes[f]})]
  /\ UNCHANGED <<queue, worker, running, archive, faults, presses>>

Unreadable(i) ==
  /\ intake[i].pc = "reading"
  /\ Fault
  /\ row' = Patched(row, {Head(intake[i].todo)}, "rejected")
  /\ intake' = [intake EXCEPT ![i] = After(Tail(@.todo), @.batch, @.seen)]
  /\ UNCHANGED <<queue, worker, running, archive, presses>>

CheckAnswered(i) ==
  /\ intake[i].pc = "asking"
  /\ intake' = [intake EXCEPT ![i].pc = "answered", ![i].answer = archive]
  /\ UNCHANGED <<row, queue, worker, running, archive, faults, presses>>

\* flush: what the archive has is a duplicate, the rest is ready.
CheckHandled(i) ==
  /\ intake[i].pc = "answered"
  /\ LET known == {f \in intake[i].batch : Bytes[f] \in intake[i].answer}
     IN  row' = Patched(Patched(row, known, "duplicate"), intake[i].batch \ known, "ready")
  /\ intake' = [intake EXCEPT ![i] = After(@.todo, {}, @.seen)]
  /\ UNCHANGED <<queue, worker, running, archive, faults, presses>>

\* The check is an optimisation: without an answer everything is ready.
CheckFailed(i) ==
  /\ intake[i].pc \in {"asking", "answered"}
  /\ Fault
  /\ row' = Patched(row, intake[i].batch, "ready")
  /\ intake' = [intake EXCEPT ![i] = After(@.todo, {}, @.seen)]
  /\ UNCHANGED <<queue, worker, running, archive, presses>>

-----------------------------------------------------------------------------
(* A run. *)

\* start: the button waits for everything to be read; the queue is what is
\* ready or failed now, and a small queue has fewer workers.
Start ==
  /\ ~running /\ Sendable # {}
  /\ \A f \in File : row[f] # "checking"
  /\ queue' = Sendable
  /\ row' = Patched(row, Sendable, "queued")
  /\ running' = TRUE
  /\ \E ws \in SUBSET Worker :
       /\ Cardinality(ws) = Min({Cardinality(Worker), Cardinality(Sendable)})
       /\ worker' = [w \in Worker |-> IF w \in ws THEN [Idle EXCEPT !.pc = "taking"] ELSE Idle]
  /\ UNCHANGED <<intake, archive, faults, presses>>

\* Mutant: a worker that meets a row that was removed stops.
TakeAndStop(w) ==
  /\ worker[w].pc = "taking" /\ queue # {}
  /\ \E f \in queue :
       /\ queue' = queue \ {f}
       /\ row' = Patched(row, {f}, "sending")
       /\ worker' = [worker EXCEPT
            ![w] = [Idle EXCEPT !.pc = IF row[f] = "none" THEN "idle" ELSE "sending",
                                !.file = IF row[f] = "none" THEN None ELSE f]]
  /\ UNCHANGED <<intake, running, archive, faults, presses>>

\* The next of the queue, unless it was removed while it waited.
Take(w) ==
  /\ worker[w].pc = "taking" /\ queue # {}
  /\ \E f \in queue :
       /\ queue' = queue \ {f}
       /\ row' = Patched(row, {f}, "sending")
       /\ worker' = IF row[f] = "none" THEN worker
                    ELSE [worker EXCEPT ![w] = [pc |-> "sending", file |-> f, answer |-> None]]
  /\ UNCHANGED <<intake, running, archive, faults, presses>>

\* Promise.all: a worker with nothing to take is done, and the last ends the run.
Leave(w) ==
  /\ worker[w].pc = "taking" /\ queue = {}
  /\ worker' = [worker EXCEPT ![w] = Idle]
  /\ UNCHANGED <<row, intake, queue, running, archive, faults, presses>>

Finish ==
  /\ running /\ \A w \in Worker : worker[w] = Idle
  /\ running' = FALSE
  /\ UNCHANGED <<row, intake, queue, worker, archive, faults, presses>>

\* The archive takes an original, or has it already.
Received(w) ==
  /\ worker[w].pc = "sending" /\ worker[w].answer = None
  /\ worker' = [worker EXCEPT
       ![w].answer = IF Bytes[worker[w].file] \in archive THEN "duplicate" ELSE "stored"]
  /\ archive' = archive \cup {Bytes[worker[w].file]}
  /\ UNCHANGED <<row, intake, queue, running, faults, presses>>

\* Mutant: the row is stored when the last of the body has gone out.
AckedWhenSent(w) ==
  /\ worker[w].pc = "sending"
  /\ row' = Patched(row, {worker[w].file}, "stored")
  /\ worker' = [worker EXCEPT ![w] = [Idle EXCEPT !.pc = "taking"]]
  /\ UNCHANGED <<intake, queue, running, archive, faults, presses>>

Acked(w) ==
  /\ worker[w].pc = "sending" /\ worker[w].answer # None
  /\ row' = Patched(row, {worker[w].file}, worker[w].answer)
  /\ worker' = [worker EXCEPT ![w] = [Idle EXCEPT !.pc = "taking"]]
  /\ UNCHANGED <<intake, queue, running, archive, faults, presses>>

\* A refusal, or a connection that broke before or after the archive had it.
Failed(w) ==
  /\ worker[w].pc = "sending"
  /\ Fault
  /\ row' = Patched(row, {worker[w].file}, "failed")
  /\ worker' = [worker EXCEPT ![w] = [Idle EXCEPT !.pc = "taking"]]
  /\ UNCHANGED <<intake, queue, running, archive, presses>>

-----------------------------------------------------------------------------
(* What somebody presses. *)

ReadingNow(i) == intake[i].pc = "reading"

\* Aborting the read of a file ends its intake, and what was waiting in it for
\* its turn or for its answer.
StopReading(fs) ==
  intake' = [i \in Intake |-> IF ReadingNow(i) /\ Head(intake[i].todo) \in fs
                              THEN [Unread EXCEPT !.pc = "ended"] ELSE intake[i]]

\* Mutant: what is being sent is not stopped.
StopNothing(fs) == UNCHANGED <<worker, archive>>

\* Mutant: an upload that was aborted never settles.
StopUnsettled(fs) ==
  /\ worker' = [w \in Worker |-> IF worker[w].pc = "sending" /\ worker[w].file \in fs
                                 THEN [Idle EXCEPT !.pc = "stopped"] ELSE worker[w]]
  /\ UNCHANGED archive

\* Aborting an upload sends its worker to the next; whether the archive had the
\* whole of it by then is not known here.
StopSending(fs) ==
  LET stopped == {w \in Worker : worker[w].pc = "sending" /\ worker[w].file \in fs}
  IN  /\ worker' = [w \in Worker |-> IF w \in stopped THEN [Idle EXCEPT !.pc = "taking"]
                                     ELSE worker[w]]
      /\ \E late \in SUBSET stopped :
           archive' = archive \cup {Bytes[worker[w].file] : w \in late}

RemoveRow(f) ==
  /\ row[f] # "none"
  /\ Press
  /\ StopReading({f}) /\ StopSending({f})
  /\ row' = [row EXCEPT ![f] = "none"]
  /\ UNCHANGED <<queue, running, faults>>

\* Offered while a run is on.  What was being sent is ready again.
Cancel ==
  /\ running
  /\ Press
  /\ StopReading(File) /\ StopSending(File)
  /\ row' = Patched(row, {f \in File : row[f] = "sending"}, "ready")
  /\ UNCHANGED <<queue, running, faults>>

\* Offered while no run is.
Reset ==
  /\ ~running /\ \E f \in File : row[f] # "none"
  /\ Press
  /\ StopReading(File) /\ StopSending(File)
  /\ row' = [f \in File |-> "none"]
  /\ UNCHANGED <<queue, running, faults>>

\* The phone, or another tab, archives the same photograph.
Elsewhere(c) ==
  /\ c \notin archive
  /\ Press
  /\ archive' = archive \cup {c}
  /\ UNCHANGED <<row, intake, queue, worker, running, faults>>

-----------------------------------------------------------------------------

Init ==
  /\ row = [f \in File |-> "none"]
  /\ intake = [i \in Intake |-> Unread]
  /\ queue = {} /\ worker = [w \in Worker |-> Idle] /\ running = FALSE
  /\ archive = {} /\ faults = 0 /\ presses = 0

Next ==
  \/ \E i \in Intake : \/ Add(i) \/ Read(i) \/ Unreadable(i)
                       \/ CheckAnswered(i) \/ CheckHandled(i) \/ CheckFailed(i)
  \/ Start \/ Finish
  \/ \E w \in Worker : Take(w) \/ Leave(w) \/ Received(w) \/ Acked(w) \/ Failed(w)
  \/ \E f \in File : RemoveRow(f)
  \/ Cancel \/ Reset
  \/ \E c \in Content : Elsewhere(c)

\* The browser's loop goes on, and every upload is answered or breaks.
Fairness ==
  /\ WF_vars(Finish)
  /\ \A w \in Worker : /\ WF_vars(Take(w) \/ Leave(w))
                       /\ WF_vars(Received(w)) /\ WF_vars(Acked(w))

Spec == Init /\ [][Next]_vars

FairSpec == Spec /\ Fairness

-----------------------------------------------------------------------------
(* Properties. *)

IntakeState == [pc : {"unread", "reading", "asking", "answered", "ended"}, todo : Seq(File),
                batch : SUBSET File, seen : SUBSET Content, answer : SUBSET Content]

WorkerState == [pc : {"idle", "taking", "sending"}, file : {None} \cup File,
                answer : {None, "stored", "duplicate"}]

TypeOK ==
  /\ row \in [File -> Status]
  /\ intake \in [Intake -> IntakeState]
  /\ \A i \in Intake :
       /\ intake[i].pc = "reading" => intake[i].todo # <<>>
       /\ intake[i].pc = "asking" => intake[i].batch # {}
       /\ Cardinality(intake[i].batch) <= CheckBatch
  /\ queue \subseteq File /\ running \in BOOLEAN /\ archive \subseteq Content
  /\ worker \in [Worker -> WorkerState]
  /\ \A w \in Worker : worker[w].pc = "sending" <=> worker[w].file # None

\* A row that is sending has one worker on it and every worker's file is such a
\* row: nothing goes on sending what was removed, cancelled or reset, and no two
\* runs or workers send one row at once (start's snapshot, remove and cancel,
\* useUpload.ts).
TransferPerRow ==
  /\ \A f \in File : row[f] = "sending" <=> \E w \in Worker : worker[w].file = f
  /\ \A v, w \in Worker : v # w /\ worker[v].file = worker[w].file => worker[v].file = None

\* When the run is over no row of it is left queued or sending, whatever was
\* removed, cancelled or failed during it: a row left so could neither be sent
\* again nor waited for (start and its workers, useUpload.ts).
NothingLeftQueued ==
  ~running => /\ queue = {} /\ \A f \in File : row[f] \notin {"queued", "sending"}

\* What the page calls stored or already archived, the archive has (the answer
\* of uploadAsset and of checkContent, useUpload.ts).
ShownIsTrue ==
  \A f \in File : row[f] \in {"stored", "duplicate"} => Bytes[f] \in archive

\* Every run ends (Promise.all over its workers), so its button comes back.
RunEnds == running ~> ~running

\* "removing one row stops one transfer": a row that says it is being read is in
\* an intake that has yet to read it or to hear about it.
CheckingIsRead ==
  \A f \in File : row[f] = "checking" =>
     \E i \in Intake : /\ intake[i].pc \in {"reading", "asking", "answered"}
                       /\ f \in ToSet(intake[i].todo) \cup intake[i].batch
=============================================================================
