----------------------------- MODULE UploadProofs -----------------------------
(***************************************************************************)
(* What the upload page promises, for any number of files, drops, workers, *)
(* failures and presses.  The invariant says where a row's status comes    *)
(* from: a row that an intake has yet to settle is checking or gone, a row *)
(* in the queue is queued or gone, and a row that is sending has a worker. *)
(***************************************************************************)
EXTENDS Upload, FiniteSetTheorems, SequenceTheorems, TLAPS

\* What an intake has yet to read or to hear about.
Pending(i) == ToSet(intake[i].todo) \cup intake[i].batch

Mine(i) == ToSet(Dropped[i]) \cup Refused[i]

Live == {"reading", "asking", "answered"}

\* An intake settles each of its own rows once, and nobody else does until then.
IntakeOK(i) ==
  /\ Pending(i) \subseteq Mine(i)
  /\ \A m, n \in DOMAIN intake[i].todo : intake[i].todo[m] = intake[i].todo[n] => m = n
  /\ intake[i].pc = "unread" => \A f \in Mine(i) : row[f] = "none"
  /\ intake[i].pc \in Live =>
       /\ \A f \in Pending(i) : row[f] \in {"checking", "none"}
       /\ \A n \in DOMAIN intake[i].todo : intake[i].todo[n] \notin intake[i].batch

ReadingOK == \A i \in Intake : IntakeOK(i)

\* The queue and the workers hold what is queued and what is sending; while
\* there is a queue there is somebody to take from it.
RunOK ==
  /\ TransferPerRow
  /\ \A f \in File : row[f] = "queued" => f \in queue
  /\ \A f \in queue : row[f] \in {"queued", "none"}
  /\ ~running => queue = {} /\ \A w \in Worker : worker[w].pc = "idle"
  /\ queue # {} => \E w \in Worker : worker[w].pc # "idle"
  /\ \A i \in Intake : intake[i].pc = "unread" => Mine(i) \cap queue = {}

\* An answer in transit is true already, and stays so: the archive only grows.
AnswersOK ==
  /\ ShownIsTrue
  /\ \A i \in Intake : intake[i].answer \subseteq archive
  /\ \A w \in Worker : worker[w].answer # None =>
       worker[w].file # None /\ Bytes[worker[w].file] \in archive

\* A batch that is still being filled has room for one more.
BatchOK == \A i \in Intake : intake[i].pc = "reading" => Cardinality(intake[i].batch) < CheckBatch

IInv == TypeOK /\ BatchOK /\ ReadingOK /\ RunOK /\ AnswersOK

-----------------------------------------------------------------------------
(* Types. *)

\* The constants' types, and what an empty batch counts.
LEMMA Sizes ==
  /\ CheckBatch \in Nat /\ CheckBatch > 0
  /\ Cardinality({}) = 0
  /\ IsFiniteSet(File)
<1>1. CheckBatch \in Nat \ {0} /\ IsFiniteSet(File)
  BY UploadAssumption
<1>2. Cardinality({}) = 0
  BY FS_EmptySet
<1> QED
  BY <1>1, <1>2

\* What After makes of lists of the right types.
LEMMA AfterType ==
  ASSUME NEW todo \in Seq(File), NEW batch \in SUBSET File, NEW seen \in SUBSET Content,
         Cardinality(batch) <= CheckBatch
  PROVE  /\ After(todo, batch, seen) \in IntakeState
         /\ After(todo, batch, seen).pc \in {"reading", "asking", "ended"}
         /\ After(todo, batch, seen).todo = todo
         /\ After(todo, batch, seen).batch = batch
         /\ After(todo, batch, seen).answer = {}
         /\ After(todo, batch, seen).pc = "reading" =>
              todo # <<>> /\ Cardinality(batch) < CheckBatch
         /\ After(todo, batch, seen).pc = "asking" => batch # {}
<1>1. IsFiniteSet(batch)
  BY Sizes, FS_Subset
<1>2. Cardinality(batch) \in Nat
  BY <1>1, FS_CardinalityType
<1>3. ASSUME batch = {} PROVE ~ (Cardinality(batch) >= CheckBatch)
  <2>1. Cardinality(batch) = 0
    BY <1>3, Sizes, Zenon
  <2> QED
    BY <2>1, Sizes
<1> DEFINE pc == IF Cardinality(batch) >= CheckBatch \/ (todo = <<>> /\ batch # {}) THEN "asking"
                 ELSE IF todo # <<>> THEN "reading" ELSE "ended"
<1>4. /\ pc \in {"reading", "asking", "ended"}
      /\ pc = "reading" => todo # <<>> /\ ~ (Cardinality(batch) >= CheckBatch)
      /\ pc = "asking" => batch # {}
  <2>1. Cardinality(batch) >= CheckBatch => batch # {}
    BY <1>3, Zenon
  <2> QED
    BY <2>1
<1>5. After(todo, batch, seen)
        = [pc |-> pc, todo |-> todo, batch |-> batch, seen |-> seen, answer |-> {}]
  BY DEF After
<1> HIDE DEF pc
<1>6. ~ (Cardinality(batch) >= CheckBatch) => Cardinality(batch) < CheckBatch
  BY <1>2, Sizes
<1> QED
  BY <1>4, <1>5, <1>6 DEF IntakeState

\* Nothing read, nothing to ask.
LEMMA UnreadType ==
  /\ Unread \in IntakeState /\ [Unread EXCEPT !.pc = "ended"] \in IntakeState
  /\ Cardinality({}) <= CheckBatch /\ Cardinality({}) < CheckBatch
<1>1. Unread \in IntakeState
  BY DEF Unread, IntakeState
<1>2. [Unread EXCEPT !.pc = "ended"] \in IntakeState
  BY <1>1 DEF IntakeState
<1> QED
  BY <1>1, <1>2, Sizes

\* A row patched is a row still.
LEMMA PatchedType ==
  ASSUME NEW r \in [File -> Status], NEW fs, NEW status \in Status
  PROVE  /\ Patched(r, fs, status) \in [File -> Status]
         /\ \A f \in File :
              /\ f \notin fs \/ r[f] = "none" => Patched(r, fs, status)[f] = r[f]
              /\ f \in fs /\ r[f] # "none" => Patched(r, fs, status)[f] = status
BY DEF Patched

\* The part of the type that a drop is in.
IntakeTypeOK ==
  /\ intake \in [Intake -> IntakeState]
  /\ \A i \in Intake :
       /\ intake[i].pc = "reading" => intake[i].todo # <<>>
       /\ intake[i].pc = "asking" => intake[i].batch # {}
       /\ Cardinality(intake[i].batch) <= CheckBatch
  /\ BatchOK

\* One drop moves on to a state that After made.
LEMMA IntakeMovesOn ==
  ASSUME IntakeTypeOK, NEW i \in Intake,
         NEW todo \in Seq(File), NEW batch \in SUBSET File, NEW seen \in SUBSET Content,
         Cardinality(batch) <= CheckBatch,
         intake' = [intake EXCEPT ![i] = After(todo, batch, seen)]
  PROVE  IntakeTypeOK'
<1> DEFINE next == After(todo, batch, seen)
<1>1. /\ next \in IntakeState /\ next.pc \in {"reading", "asking", "ended"}
      /\ next.batch = batch /\ next.todo = todo
      /\ next.pc = "reading" => todo # <<>> /\ Cardinality(batch) < CheckBatch
      /\ next.pc = "asking" => batch # {}
  BY AfterType
<1> HIDE DEF next
<1>2. intake' = [intake EXCEPT ![i] = next]
  BY DEF next
<1> QED
  BY <1>1, <1>2 DEF IntakeTypeOK, BatchOK

\* Reads that are stopped leave drops that are over.
LEMMA IntakeStops ==
  ASSUME IntakeTypeOK, NEW fs, StopReading(fs)
  PROVE  IntakeTypeOK'
<1> DEFINE over == [Unread EXCEPT !.pc = "ended"]
<1>1. over \in IntakeState /\ over.pc = "ended" /\ over.batch = {}
  BY UnreadType DEF Unread
<1> HIDE DEF over
<1>2. \A i \in Intake : intake'[i] \in {intake[i], over}
  BY DEF StopReading, over
<1>3. intake' \in [Intake -> IntakeState]
  BY <1>1, <1>2 DEF StopReading, IntakeTypeOK, over
<1> QED
  BY <1>1, <1>2, <1>3, UnreadType DEF IntakeTypeOK, BatchOK

\* The part of the type that the workers are in.
WorkerTypeOK ==
  /\ worker \in [Worker -> WorkerState]
  /\ \A w \in Worker : worker[w].pc = "sending" <=> worker[w].file # None

\* The types, taken apart: drops, workers, and the rest.
LEMMA TypeParts ==
  TypeOK /\ BatchOK <=> /\ row \in [File -> Status] /\ IntakeTypeOK /\ WorkerTypeOK
                        /\ queue \subseteq File /\ running \in BOOLEAN /\ archive \subseteq Content
BY DEF TypeOK, IntakeTypeOK, WorkerTypeOK

\* A worker with nothing to do, and one that is about to take something.
LEMMA IdleType ==
  /\ Idle \in WorkerState /\ [Idle EXCEPT !.pc = "taking"] \in WorkerState
  /\ Idle = [pc |-> "idle", file |-> None, answer |-> None]
  /\ [Idle EXCEPT !.pc = "taking"] = [pc |-> "taking", file |-> None, answer |-> None]
BY DEF Idle, WorkerState

\* Uploads that are stopped leave workers that take the next; what the archive
\* has grows, if at all, by files of this page.
LEMMA WorkersStop ==
  ASSUME WorkerTypeOK, archive \subseteq Content, NEW fs, StopSending(fs)
  PROVE  /\ WorkerTypeOK'
         /\ archive \subseteq archive' /\ archive' \subseteq Content
         /\ \A w \in Worker :
              worker'[w] = IF worker[w].pc = "sending" /\ worker[w].file \in fs
                           THEN [Idle EXCEPT !.pc = "taking"] ELSE worker[w]
<1> DEFINE taking == [Idle EXCEPT !.pc = "taking"]
           stopped == {w \in Worker : worker[w].pc = "sending" /\ worker[w].file \in fs}
<1>1. taking \in WorkerState /\ taking.pc = "taking" /\ taking.file = None
  BY IdleType
<1>2. PICK late \in SUBSET stopped :
        archive' = archive \cup {Bytes[worker[w].file] : w \in late}
  BY DEF StopSending
<1>3. worker' = [w \in Worker |-> IF w \in stopped THEN taking ELSE worker[w]]
  BY DEF StopSending
<1> HIDE DEF taking
<1>4. WorkerTypeOK'
  BY <1>1, <1>3 DEF WorkerTypeOK
<1>5. \A w \in stopped : worker[w].file \in File
  BY DEF WorkerTypeOK, WorkerState
<1>6. \A w \in stopped : Bytes[worker[w].file] \in Content
  BY <1>5, UploadAssumption
<1>7. archive \subseteq archive' /\ archive' \subseteq Content
  BY <1>2, <1>6
<1> QED
  BY <1>3, <1>4, <1>7 DEF taking

\* The types after a step.
TypesNext ==
  /\ (row \in [File -> Status])' /\ IntakeTypeOK' /\ WorkerTypeOK'
  /\ (queue \subseteq File)' /\ (running \in BOOLEAN)' /\ (archive \subseteq Content)'

\* Every step keeps the types.
LEMMA TypeStep == TypeOK /\ BatchOK /\ [Next]_vars => (TypeOK /\ BatchOK)'
<1> SUFFICES ASSUME TypeOK, BatchOK, [Next]_vars
             PROVE  TypesNext
  BY TypeParts DEF TypesNext, TypeOK, IntakeTypeOK, WorkerTypeOK, BatchOK
<1>t. /\ row \in [File -> Status] /\ IntakeTypeOK /\ WorkerTypeOK
      /\ queue \subseteq File /\ running \in BOOLEAN /\ archive \subseteq Content
  BY TypeParts
<1>k. UNCHANGED intake => IntakeTypeOK'
  BY <1>t DEF IntakeTypeOK, BatchOK
<1>w. UNCHANGED worker => WorkerTypeOK'
  BY <1>t DEF WorkerTypeOK
<1>p. ASSUME NEW fs, NEW status \in Status, row' = Patched(row, fs, status)
      PROVE  row' \in [File -> Status]
  BY <1>t, <1>p, PatchedType
<1>f. ASSUME NEW w \in Worker, worker' = [worker EXCEPT ![w] = [Idle EXCEPT !.pc = "taking"]]
      PROVE  WorkerTypeOK'
  BY <1>t, <1>f, IdleType DEF WorkerTypeOK
<1>1. ASSUME NEW i \in Intake, Add(i) PROVE TypesNext
  <2>1. IntakeTypeOK'
    BY <1>1, <1>t, UploadAssumption, UnreadType, IntakeMovesOn DEF Add
  <2>2. row' \in [File -> Status]
    BY <1>1, <1>t DEF Add, Status
  <2> QED
    BY <1>1, <1>t, <1>w, <2>1, <2>2 DEF Add, TypesNext
<1>2. ASSUME NEW i \in Intake, Read(i) PROVE TypesNext
  <2> DEFINE f == Head(intake[i].todo)
             twin == Bytes[f] \in intake[i].seen
  <2>1. /\ intake[i].todo \in Seq(File) /\ intake[i].todo # <<>>
        /\ intake[i].batch \in SUBSET File /\ intake[i].seen \in SUBSET Content
        /\ Cardinality(intake[i].batch) < CheckBatch
    BY <1>2, <1>t DEF Read, IntakeTypeOK, IntakeState, BatchOK
  <2>2. f \in File /\ Tail(intake[i].todo) \in Seq(File)
    BY <2>1, HeadTailProperties
  <2>3. Bytes[f] \in Content
    BY <2>2, UploadAssumption
  <2> DEFINE batch == IF twin THEN intake[i].batch ELSE intake[i].batch \cup {f}
             seen == intake[i].seen \cup {Bytes[f]}
  <2>4. batch \in SUBSET File /\ seen \in SUBSET Content
    BY <2>1, <2>2, <2>3
  <2>5. IsFiniteSet(intake[i].batch) /\ Cardinality(intake[i].batch) \in Nat
    BY <2>1, Sizes, FS_Subset, FS_CardinalityType
  <2>6. Cardinality(intake[i].batch \cup {f}) <= CheckBatch
    <3>1. Cardinality(intake[i].batch \cup {f})
            \in {Cardinality(intake[i].batch), Cardinality(intake[i].batch) + 1}
      BY <2>5, FS_AddElement
    <3> QED
      BY <2>1, <2>5, <3>1, Sizes
  <2>7. Cardinality(batch) <= CheckBatch
    BY <2>1, <2>5, <2>6, Sizes
  <2>8. intake' = [intake EXCEPT ![i] = After(Tail(intake[i].todo), batch, seen)]
    BY <1>2 DEF Read
  <2> HIDE DEF batch, seen
  <2>9. IntakeTypeOK'
    BY <1>t, <2>2, <2>4, <2>7, <2>8, IntakeMovesOn
  <2>10. row' = IF twin THEN Patched(row, {f}, "twin") ELSE row
    BY <1>2 DEF Read
  <2>11. row' \in [File -> Status]
    BY <1>t, <2>10, PatchedType DEF Status
  <2> QED
    BY <1>2, <1>t, <1>w, <2>9, <2>11 DEF Read, TypesNext
<1>3. ASSUME NEW i \in Intake, Unreadable(i) PROVE TypesNext
  <2>1. /\ intake[i].todo \in Seq(File) /\ intake[i].todo # <<>>
        /\ intake[i].batch \in SUBSET File /\ intake[i].seen \in SUBSET Content
        /\ Cardinality(intake[i].batch) <= CheckBatch
    BY <1>3, <1>t DEF Unreadable, IntakeTypeOK, IntakeState
  <2>2. Tail(intake[i].todo) \in Seq(File)
    BY <2>1, HeadTailProperties
  <2>3. intake' = [intake EXCEPT
          ![i] = After(Tail(intake[i].todo), intake[i].batch, intake[i].seen)]
    BY <1>3 DEF Unreadable
  <2>4. IntakeTypeOK'
    BY <1>t, <2>1, <2>2, <2>3, IntakeMovesOn
  <2>5. row' \in [File -> Status]
    BY <1>3, <1>p DEF Unreadable, Status
  <2> QED
    BY <1>3, <1>t, <1>w, <2>4, <2>5 DEF Unreadable, TypesNext
<1>4. ASSUME NEW i \in Intake, CheckAnswered(i) PROVE TypesNext
  <2>1. [intake[i] EXCEPT !.pc = "answered", !.answer = archive] \in IntakeState
    BY <1>t DEF IntakeTypeOK, IntakeState
  <2>2. IntakeTypeOK'
    BY <1>4, <1>t, <2>1 DEF CheckAnswered, IntakeTypeOK, BatchOK, IntakeState
  <2> QED
    BY <1>4, <1>t, <1>w, <2>2 DEF CheckAnswered, TypesNext
<1>h. ASSUME NEW i \in Intake, intake' = [intake EXCEPT ![i] = After(intake[i].todo, {}, intake[i].seen)]
      PROVE  IntakeTypeOK'
  <2>1. intake[i].todo \in Seq(File) /\ intake[i].seen \in SUBSET Content
    BY <1>t DEF IntakeTypeOK, IntakeState
  <2> QED
    BY <1>h, <1>t, <2>1, UnreadType, IntakeMovesOn
<1>5. ASSUME NEW i \in Intake, CheckHandled(i) PROVE TypesNext
  <2> DEFINE known == {f \in intake[i].batch : Bytes[f] \in intake[i].answer}
  <2>1. Patched(row, known, "duplicate") \in [File -> Status]
    BY <1>t, PatchedType DEF Status
  <2>4. row' = Patched(Patched(row, known, "duplicate"), intake[i].batch \ known, "ready")
    BY <1>5 DEF CheckHandled
  <2> HIDE DEF known
  <2>2. row' \in [File -> Status]
    BY <2>1, <2>4, PatchedType DEF Status
  <2>3. IntakeTypeOK'
    BY <1>5, <1>h DEF CheckHandled
  <2> QED
    BY <1>5, <1>t, <1>w, <2>2, <2>3 DEF CheckHandled, TypesNext
<1>6. ASSUME NEW i \in Intake, CheckFailed(i) PROVE TypesNext
  <2>1. row' \in [File -> Status]
    BY <1>6, <1>p DEF CheckFailed, Status
  <2>2. IntakeTypeOK'
    BY <1>6, <1>h DEF CheckFailed
  <2> QED
    BY <1>6, <1>t, <1>w, <2>1, <2>2 DEF CheckFailed, TypesNext
<1>7. ASSUME Start PROVE TypesNext
  <2>1. row' \in [File -> Status]
    BY <1>7, <1>p DEF Start, Status
  <2>2. PICK ws \in SUBSET Worker :
          worker' = [w \in Worker |-> IF w \in ws THEN [Idle EXCEPT !.pc = "taking"] ELSE Idle]
    BY <1>7 DEF Start
  <2>3. WorkerTypeOK'
    BY <2>2, IdleType DEF WorkerTypeOK
  <2> QED
    BY <1>7, <1>t, <1>k, <2>1, <2>3 DEF Start, TypesNext, Sendable
<1>8. ASSUME Finish PROVE TypesNext
  BY <1>8, <1>t, <1>k, <1>w DEF Finish, TypesNext
<1>9. ASSUME NEW w \in Worker, Take(w) PROVE TypesNext
  <2>1. PICK f \in queue :
          /\ queue' = queue \ {f}
          /\ row' = Patched(row, {f}, "sending")
          /\ worker' = IF row[f] = "none" THEN worker
                       ELSE [worker EXCEPT ![w] =
                              [pc |-> "sending", file |-> f, answer |-> None]]
    BY <1>9 DEF Take
  <2>2. row' \in [File -> Status]
    BY <2>1, <1>p DEF Status
  <2>3. f # None /\ f \in File
    BY <1>t, <2>1, UploadAssumption
  <2>5. WorkerTypeOK'
    BY <1>t, <2>1, <2>3 DEF WorkerTypeOK, WorkerState
  <2> QED
    BY <1>9, <1>t, <1>k, <2>1, <2>2, <2>5 DEF Take, TypesNext
<1>10. ASSUME NEW w \in Worker, Leave(w) PROVE TypesNext
  <2>1. WorkerTypeOK'
    BY <1>10, <1>t, IdleType DEF Leave, WorkerTypeOK
  <2> QED
    BY <1>10, <1>t, <1>k, <2>1 DEF Leave, TypesNext
<1>11. ASSUME NEW w \in Worker, Received(w) PROVE TypesNext
  <2>1. worker[w].file \in File
    BY <1>11, <1>t DEF Received, WorkerTypeOK, WorkerState
  <2>2. Bytes[worker[w].file] \in Content
    BY <2>1, UploadAssumption
  <2>3. WorkerTypeOK'
    BY <1>11, <1>t DEF Received, WorkerTypeOK, WorkerState
  <2> QED
    BY <1>11, <1>t, <1>k, <2>2, <2>3 DEF Received, TypesNext
<1>12. ASSUME NEW w \in Worker, Acked(w) PROVE TypesNext
  <2>1. worker[w].answer \in Status
    BY <1>12, <1>t DEF Acked, WorkerTypeOK, WorkerState, Status
  <2>2. row' \in [File -> Status]
    BY <1>12, <1>p, <2>1 DEF Acked
  <2> QED
    BY <1>12, <1>t, <1>k, <1>f, <2>2 DEF Acked, TypesNext
<1>13. ASSUME NEW w \in Worker, Failed(w) PROVE TypesNext
  <2>1. row' \in [File -> Status]
    BY <1>13, <1>p DEF Failed, Status
  <2> QED
    BY <1>13, <1>t, <1>k, <1>f, <2>1 DEF Failed, TypesNext
<1>14. ASSUME NEW f \in File, RemoveRow(f) PROVE TypesNext
  <2>1. IntakeTypeOK' /\ WorkerTypeOK' /\ archive' \subseteq Content
    BY <1>14, <1>t, IntakeStops, WorkersStop DEF RemoveRow
  <2>2. row' \in [File -> Status]
    BY <1>14, <1>t DEF RemoveRow, Status
  <2> QED
    BY <1>14, <1>t, <2>1, <2>2 DEF RemoveRow, TypesNext
<1>15. ASSUME Cancel PROVE TypesNext
  <2>1. IntakeTypeOK' /\ WorkerTypeOK' /\ archive' \subseteq Content
    BY <1>15, <1>t, IntakeStops, WorkersStop DEF Cancel
  <2>2. row' \in [File -> Status]
    BY <1>15, <1>p DEF Cancel, Status
  <2> QED
    BY <1>15, <1>t, <2>1, <2>2 DEF Cancel, TypesNext
<1>16. ASSUME Reset PROVE TypesNext
  <2>1. IntakeTypeOK' /\ WorkerTypeOK' /\ archive' \subseteq Content
    BY <1>16, <1>t, IntakeStops, WorkersStop DEF Reset
  <2>2. row' \in [File -> Status]
    BY <1>16 DEF Reset, Status
  <2> QED
    BY <1>16, <1>t, <2>1, <2>2 DEF Reset, TypesNext
<1>17. ASSUME NEW c \in Content, Elsewhere(c) PROVE TypesNext
  BY <1>17, <1>t, <1>k, <1>w DEF Elsewhere, TypesNext
<1>18. ASSUME UNCHANGED vars PROVE TypesNext
  BY <1>18, <1>t, <1>k, <1>w DEF vars, TypesNext
<1> QED
  BY <1>1, <1>2, <1>3, <1>4, <1>5, <1>6, <1>7, <1>8, <1>9, <1>10, <1>11, <1>12, <1>13,
     <1>14, <1>15, <1>16, <1>17, <1>18 DEF Next

-----------------------------------------------------------------------------
(* Reading. *)

\* No row belongs to two drops.
LEMMA MineIsApart ==
  /\ \A i \in Intake : Mine(i) \subseteq File
  /\ \A i, j \in Intake : i # j => Mine(i) \cap Mine(j) = {}
<1>1. \A i \in Intake : Dropped[i] \in Seq(File) /\ Refused[i] \subseteq File
  BY UploadAssumption
<1>2. \A i \in Intake : ToSet(Dropped[i]) \subseteq File
  BY <1>1 DEF ToSet
<1>3. \A i, j \in Intake : i # j => Mine(i) \cap Mine(j) = {}
  BY UploadAssumption DEF Mine
<1> QED
  BY <1>1, <1>2, <1>3 DEF Mine

\* What is settled elsewhere, or removed, leaves a drop in order.
LEMMA IntakeKept ==
  ASSUME NEW i \in Intake, IntakeOK(i), intake'[i] = intake[i],
         \A f \in Mine(i) : row[f] \in {"checking", "none"} => row'[f] \in {row[f], "none"}
  PROVE  IntakeOK(i)'
BY DEF IntakeOK, Pending, Live

\* So does the end of it.
LEMMA IntakeOver ==
  ASSUME NEW i \in Intake, intake'[i].pc = "ended", intake'[i].todo = <<>>, intake'[i].batch = {}
  PROVE  IntakeOK(i)'
BY DEF IntakeOK, Pending, Live, ToSet

\* Reads that are stopped end their drops, and rows are settled or removed.
LEMMA ReadingStops ==
  ASSUME ReadingOK, NEW fs, StopReading(fs),
         \A f \in File : row[f] \in {"checking", "none"} => row'[f] \in {row[f], "none"}
  PROVE  ReadingOK'
<1> SUFFICES ASSUME NEW i \in Intake PROVE IntakeOK(i)'
  BY DEF ReadingOK
<1>1. intake'[i] = intake[i] \/ intake'[i] = [Unread EXCEPT !.pc = "ended"]
  BY DEF StopReading
<1>2. CASE intake'[i] = intake[i]
  BY <1>2, MineIsApart, IntakeKept DEF ReadingOK
<1>3. CASE intake'[i] = [Unread EXCEPT !.pc = "ended"]
  BY <1>3, IntakeOver DEF Unread
<1> QED
  BY <1>1, <1>2, <1>3

\* A step that moves one drop on, and writes its rows alone.
LEMMA ReadingMoves ==
  ASSUME ReadingOK, NEW i \in Intake, IntakeOK(i)',
         \A j \in Intake \ {i} : intake'[j] = intake[j],
         \A f \in File \ Mine(i) : row'[f] = row[f]
  PROVE  ReadingOK'
<1> SUFFICES ASSUME NEW j \in Intake \ {i} PROVE IntakeOK(j)'
  BY DEF ReadingOK
<1>1. \A f \in Mine(j) : row'[f] = row[f]
  BY MineIsApart
<1> QED
  BY <1>1, IntakeKept DEF ReadingOK

\* A drop that goes on with less to settle, once what it let go of is settled.
LEMMA DropGoesOn ==
  ASSUME NEW i \in Intake, IntakeOK(i), intake[i].pc \in Live, TypeOK,
         NEW todo \in Seq(File), NEW batch \in SUBSET File, NEW seen \in SUBSET Content,
         Cardinality(batch) <= CheckBatch,
         intake' = [intake EXCEPT ![i] = After(todo, batch, seen)],
         ToSet(todo) \cup batch \subseteq Pending(i),
         \A m, n \in DOMAIN todo : todo[m] = todo[n] => m = n,
         \A n \in DOMAIN todo : todo[n] \notin batch,
         \A f \in ToSet(todo) \cup batch : row'[f] = row[f]
  PROVE  IntakeOK(i)'
<1> DEFINE next == After(todo, batch, seen)
<1>1. /\ next.todo = todo /\ next.batch = batch
      /\ next.pc \in {"reading", "asking", "ended"}
  BY AfterType
<1> HIDE DEF next
<1>2. intake'[i] = next
  BY DEF next, TypeOK
<1>3. Pending(i)' = ToSet(todo) \cup batch
  BY <1>1, <1>2 DEF Pending
<1>4. \A f \in Pending(i) : row[f] \in {"checking", "none"}
  BY DEF IntakeOK
<1>5. \A f \in ToSet(todo) \cup batch : row'[f] \in {"checking", "none"}
  BY <1>4
<1> QED
  BY <1>1, <1>2, <1>3, <1>5 DEF IntakeOK

\* A list without repetitions, and what is left of it after its first.
LEMMA TailOf ==
  ASSUME NEW s \in Seq(File), s # <<>>,
         \A m, n \in DOMAIN s : s[m] = s[n] => m = n
  PROVE  /\ Head(s) \in File /\ Tail(s) \in Seq(File)
         /\ Head(s) \in ToSet(s) /\ Head(s) \notin ToSet(Tail(s))
         /\ ToSet(Tail(s)) \subseteq ToSet(s)
         /\ \A m, n \in DOMAIN Tail(s) : Tail(s)[m] = Tail(s)[n] => m = n
         /\ \A n \in DOMAIN Tail(s) : \E m \in DOMAIN s : Tail(s)[n] = s[m]
<1>1. /\ Head(s) \in File /\ Tail(s) \in Seq(File) /\ Head(s) = s[1]
      /\ Len(s) \in Nat \ {0} /\ Len(Tail(s)) = Len(s) - 1
  BY HeadTailProperties, LenProperties, EmptySeq
<1>2. \A n \in 1 .. Len(Tail(s)) : Tail(s)[n] = s[n + 1]
  BY HeadTailProperties
<1>3. DOMAIN s = 1 .. Len(s) /\ DOMAIN Tail(s) = 1 .. Len(Tail(s))
  BY <1>1, LenProperties
<1>4. \A n \in DOMAIN Tail(s) : n \in Int /\ n + 1 \in DOMAIN s /\ n + 1 # 1 /\ Tail(s)[n] = s[n + 1]
  BY <1>1, <1>2, <1>3
<1>5. 1 \in DOMAIN s
  BY <1>1, <1>3
<1>6. \A m, n \in DOMAIN Tail(s) : Tail(s)[m] = Tail(s)[n] => m = n
  <2> SUFFICES ASSUME NEW m \in DOMAIN Tail(s), NEW n \in DOMAIN Tail(s), Tail(s)[m] = Tail(s)[n]
               PROVE  m = n
    OBVIOUS
  <2>1. m + 1 = n + 1
    BY <1>4
  <2> QED
    BY <1>4, <2>1
<1>7. ToSet(s) = {s[n] : n \in DOMAIN s} /\ ToSet(Tail(s)) = {Tail(s)[n] : n \in DOMAIN Tail(s)}
  BY DEF ToSet
<1>8. Head(s) \in ToSet(s)
  BY <1>1, <1>5, <1>7
<1>9. Head(s) \notin ToSet(Tail(s))
  <2> SUFFICES ASSUME NEW n \in DOMAIN Tail(s), Tail(s)[n] = Head(s) PROVE FALSE
    BY <1>7
  <2> QED
    BY <1>1, <1>4, <1>5
<1>10. ToSet(Tail(s)) \subseteq ToSet(s)
  BY <1>4, <1>7
<1> QED
  BY <1>1, <1>4, <1>6, <1>8, <1>9, <1>10

\* What a drop that is being read, or asked about, has in hand.
LEMMA InHand ==
  ASSUME TypeOK, ReadingOK, NEW i \in Intake
  PROVE  /\ intake[i].todo \in Seq(File) /\ intake[i].batch \in SUBSET File
         /\ intake[i].seen \in SUBSET Content
         /\ Cardinality(intake[i].batch) <= CheckBatch
         /\ IntakeOK(i)
         /\ intake[i].pc = "reading" => intake[i].todo # <<>>
BY DEF TypeOK, ReadingOK, IntakeState

\* A step that leaves the drops alone, and settles none of their rows.
LEMMA RowsSettled ==
  ASSUME ReadingOK, UNCHANGED intake,
         \A f \in File : row[f] \in {"checking", "none"} => row'[f] \in {row[f], "none"}
  PROVE  ReadingOK'
BY MineIsApart, IntakeKept DEF ReadingOK

\* What patching some rows does to the others, and to those that are gone.
LEMMA Untouched ==
  ASSUME NEW fs, NEW status, row' = Patched(row, fs, status)
  PROVE  \A f \in File : f \notin fs \/ row[f] = "none" => row'[f] = row[f]
BY DEF Patched

\* Every step keeps the drops in order.
LEMMA ReadingStep == IInv /\ [Next]_vars => ReadingOK'
<1> SUFFICES ASSUME IInv, [Next]_vars PROVE ReadingOK'
  OBVIOUS
<1>t. /\ TypeOK /\ BatchOK /\ ReadingOK /\ TransferPerRow
      /\ \A f \in queue : row[f] \in {"queued", "none"}
  BY DEF IInv, RunOK
<1>w. ASSUME NEW w \in Worker, worker[w].pc = "sending"
      PROVE  worker[w].file \in File /\ row[worker[w].file] = "sending"
  <2>1. worker[w].file \in File
    BY <1>t, <1>w DEF TypeOK, WorkerState
  <2> QED
    BY <1>t, <2>1 DEF TransferPerRow
<1>1. ASSUME NEW i \in Intake, Add(i) PROVE ReadingOK'
  <2>1. /\ Dropped[i] \in Seq(File) /\ Refused[i] \subseteq File
        /\ \A m, n \in 1 .. Len(Dropped[i]) : Dropped[i][m] = Dropped[i][n] => m = n
        /\ ToSet(Dropped[i]) \cap Refused[i] = {}
    BY UploadAssumption
  <2>2. DOMAIN Dropped[i] = 1 .. Len(Dropped[i]) /\ ToSet(Dropped[i]) \subseteq File
    BY <2>1, LenProperties DEF ToSet
  <2> DEFINE next == After(Dropped[i], {}, {})
  <2>3. /\ next.todo = Dropped[i] /\ next.batch = {}
        /\ next.pc \in {"reading", "asking", "ended"}
    BY <2>1, UnreadType, AfterType
  <2>4. /\ intake' = [intake EXCEPT ![i] = next]
        /\ row' = [f \in File |-> IF f \in Refused[i] THEN "rejected"
                                  ELSE IF f \in ToSet(Dropped[i]) THEN "checking" ELSE row[f]]
    BY <1>1 DEF Add
  <2> HIDE DEF next
  <2>5. intake'[i] = next /\ \A j \in Intake \ {i} : intake'[j] = intake[j]
    BY <1>t, <2>4 DEF TypeOK
  <2>6. Pending(i)' = ToSet(Dropped[i])
    BY <2>3, <2>5 DEF Pending
  <2>7. \A f \in ToSet(Dropped[i]) : row'[f] = "checking"
    BY <2>1, <2>2, <2>4
  <2>8. IntakeOK(i)'
    BY <2>1, <2>2, <2>3, <2>5, <2>6, <2>7 DEF IntakeOK, Mine
  <2>9. \A f \in File \ Mine(i) : row'[f] = row[f]
    BY <2>4 DEF Mine
  <2> QED
    BY <1>t, <2>5, <2>8, <2>9, ReadingMoves
<1>2. ASSUME NEW i \in Intake, intake[i].pc = "reading",
             NEW batch \in SUBSET File, NEW seen \in SUBSET Content, Cardinality(batch) <= CheckBatch,
             intake' = [intake EXCEPT ![i] = After(Tail(intake[i].todo), batch, seen)],
             batch \subseteq intake[i].batch \cup {Head(intake[i].todo)},
             \A f \in File : f # Head(intake[i].todo) \/ f \in batch => row'[f] = row[f]
      PROVE  ReadingOK'
  <2> DEFINE todo == intake[i].todo
  <2>1. /\ todo \in Seq(File) /\ todo # <<>> /\ IntakeOK(i) /\ intake[i].pc \in Live
        /\ \A m, n \in DOMAIN todo : todo[m] = todo[n] => m = n
    BY <1>2, <1>t, InHand DEF IntakeOK, Live
  <2>2. /\ Head(todo) \in File /\ Tail(todo) \in Seq(File)
        /\ Head(todo) \in ToSet(todo) /\ Head(todo) \notin ToSet(Tail(todo))
        /\ ToSet(Tail(todo)) \subseteq ToSet(todo)
        /\ \A m, n \in DOMAIN Tail(todo) : Tail(todo)[m] = Tail(todo)[n] => m = n
    BY <2>1, TailOf
  <2>3. \A f \in ToSet(todo) : f \notin intake[i].batch
    BY <2>1 DEF IntakeOK, ToSet
  <2>4. \A f \in ToSet(Tail(todo)) : f \notin batch
    BY <1>2, <2>2, <2>3
  <2>5. \A n \in DOMAIN Tail(todo) : Tail(todo)[n] \notin batch
    BY <2>4 DEF ToSet
  <2>6. ToSet(Tail(todo)) \cup batch \subseteq Pending(i)
    BY <1>2, <2>2 DEF Pending
  <2>7. Pending(i) \subseteq Mine(i) /\ Mine(i) \subseteq File
    BY <2>1, MineIsApart DEF IntakeOK
  <2>8. \A f \in ToSet(Tail(todo)) \cup batch : row'[f] = row[f]
    BY <1>2, <2>2, <2>6, <2>7
  <2>9. IntakeOK(i)'
    BY <1>2, <1>t, <2>1, <2>2, <2>5, <2>6, <2>8, DropGoesOn
  <2>10. \A j \in Intake \ {i} : intake'[j] = intake[j]
    BY <1>2, <1>t DEF TypeOK
  <2>11. \A f \in File \ Mine(i) : row'[f] = row[f]
    BY <1>2, <2>2, <2>7 DEF Pending
  <2> QED
    BY <1>t, <2>9, <2>10, <2>11, ReadingMoves
<1>3. ASSUME NEW i \in Intake, Read(i) PROVE ReadingOK'
  <2> DEFINE f == Head(intake[i].todo)
             twin == Bytes[f] \in intake[i].seen
             batch == IF twin THEN intake[i].batch ELSE intake[i].batch \cup {f}
             seen == intake[i].seen \cup {Bytes[f]}
  <2>1. /\ intake[i].todo \in Seq(File) /\ intake[i].todo # <<>> /\ IntakeOK(i)
        /\ intake[i].batch \in SUBSET File /\ intake[i].seen \in SUBSET Content
        /\ intake[i].pc = "reading" /\ Cardinality(intake[i].batch) < CheckBatch
    BY <1>3, <1>t, InHand DEF Read, BatchOK
  <2>2. f \in File /\ f \in ToSet(intake[i].todo)
    BY <2>1, TailOf DEF IntakeOK
  <2>3. Bytes[f] \in Content
    BY <2>2, UploadAssumption
  <2>4. IsFiniteSet(intake[i].batch) /\ Cardinality(intake[i].batch) \in Nat
    BY <2>1, Sizes, FS_Subset, FS_CardinalityType
  <2>5. Cardinality(intake[i].batch \cup {f})
          \in {Cardinality(intake[i].batch), Cardinality(intake[i].batch) + 1}
    BY <2>4, FS_AddElement
  <2>6. Cardinality(batch) <= CheckBatch
    BY <2>1, <2>4, <2>5, Sizes
  <2>7. intake' = [intake EXCEPT ![i] = After(Tail(intake[i].todo), batch, seen)]
    BY <1>3 DEF Read
  <2>8. row' = IF twin THEN Patched(row, {f}, "twin") ELSE row
    BY <1>3 DEF Read
  <2>9. \A g \in File : g # f \/ g \in batch => row'[g] = row[g]
    <3>1. CASE twin
      <4>1. f \notin batch
        BY <2>1, <2>2, <3>1 DEF IntakeOK, ToSet, Live
      <4> QED
        BY <2>8, <3>1, <4>1, Untouched
    <3>2. CASE ~twin
      BY <2>8, <3>2
    <3> QED
      BY <3>1, <3>2
  <2>10. batch \in SUBSET File /\ seen \in SUBSET Content /\ batch \subseteq intake[i].batch \cup {f}
    BY <2>1, <2>2, <2>3
  <2> HIDE DEF batch, seen
  <2> QED
    BY <1>2, <2>1, <2>6, <2>7, <2>9, <2>10
<1>4. ASSUME NEW i \in Intake, Unreadable(i) PROVE ReadingOK'
  <2> DEFINE f == Head(intake[i].todo)
  <2>1. /\ intake[i].todo \in Seq(File) /\ intake[i].todo # <<>> /\ IntakeOK(i)
        /\ intake[i].batch \in SUBSET File /\ intake[i].seen \in SUBSET Content
        /\ intake[i].pc = "reading" /\ Cardinality(intake[i].batch) <= CheckBatch
    BY <1>4, <1>t, InHand DEF Unreadable
  <2>2. f \in File /\ f \in ToSet(intake[i].todo)
    BY <2>1, TailOf DEF IntakeOK
  <2>3. f \notin intake[i].batch
    BY <2>1, <2>2 DEF IntakeOK, ToSet, Live
  <2>4. \A g \in File : g # f \/ g \in intake[i].batch => row'[g] = row[g]
    BY <1>4, <2>3, Untouched DEF Unreadable
  <2>5. intake' = [intake EXCEPT
          ![i] = After(Tail(intake[i].todo), intake[i].batch, intake[i].seen)]
    BY <1>4 DEF Unreadable
  <2> QED
    BY <1>2, <2>1, <2>4, <2>5
<1>5. ASSUME NEW i \in Intake, CheckAnswered(i) PROVE ReadingOK'
  <2>1. /\ intake'[i].todo = intake[i].todo /\ intake'[i].batch = intake[i].batch
        /\ intake'[i].pc = "answered" /\ intake[i].pc = "asking"
        /\ \A j \in Intake \ {i} : intake'[j] = intake[j]
        /\ row' = row
    BY <1>5, <1>t DEF CheckAnswered, TypeOK, IntakeState
  <2>2. IntakeOK(i)'
    BY <1>t, <2>1 DEF ReadingOK, IntakeOK, Pending, Live
  <2> QED
    BY <1>t, <2>1, <2>2, ReadingMoves
<1>6. ASSUME NEW i \in Intake, intake[i].pc \in Live,
             intake' = [intake EXCEPT ![i] = After(intake[i].todo, {}, intake[i].seen)],
             \A f \in File \ intake[i].batch : row'[f] = row[f]
      PROVE  ReadingOK'
  <2> DEFINE todo == intake[i].todo
  <2>1. /\ todo \in Seq(File) /\ intake[i].seen \in SUBSET Content /\ IntakeOK(i)
        /\ \A m, n \in DOMAIN todo : todo[m] = todo[n] => m = n
    BY <1>t, InHand DEF IntakeOK
  <2>2. /\ Pending(i) \subseteq Mine(i) /\ Mine(i) \subseteq File
        /\ \A f \in ToSet(todo) : f \notin intake[i].batch
    BY <1>6, <2>1, MineIsApart DEF IntakeOK, ToSet
  <2>3. \A f \in ToSet(todo) : row'[f] = row[f]
    BY <1>6, <2>2 DEF Pending
  <2>4. {} \in SUBSET File /\ ToSet(todo) \cup {} = ToSet(todo) /\ ToSet(todo) \subseteq Pending(i)
    BY DEF Pending
  <2>5. IntakeOK(i)'
    BY <1>6, <1>t, <2>1, <2>3, <2>4, UnreadType, DropGoesOn
  <2>6. \A j \in Intake \ {i} : intake'[j] = intake[j]
    BY <1>6, <1>t DEF TypeOK
  <2>7. \A f \in File \ Mine(i) : row'[f] = row[f]
    BY <1>6, <2>2 DEF Pending
  <2> QED
    BY <1>t, <2>5, <2>6, <2>7, ReadingMoves
<1>7. ASSUME NEW i \in Intake, CheckHandled(i) PROVE ReadingOK'
  <2> DEFINE known == {f \in intake[i].batch : Bytes[f] \in intake[i].answer}
             first == Patched(row, known, "duplicate")
  <2>1. \A f \in File \ intake[i].batch : first[f] = row[f]
    BY DEF Patched
  <2>2. row' = Patched(first, intake[i].batch \ known, "ready")
    BY <1>7 DEF CheckHandled
  <2> HIDE DEF first
  <2>3. \A f \in File \ intake[i].batch : row'[f] = row[f]
    BY <2>1, <2>2 DEF Patched
  <2> QED
    BY <1>6, <1>7, <2>3 DEF CheckHandled, Live
<1>8. ASSUME NEW i \in Intake, CheckFailed(i) PROVE ReadingOK'
  <2>1. \A f \in File \ intake[i].batch : row'[f] = row[f]
    BY <1>8, Untouched DEF CheckFailed
  <2> QED
    BY <1>6, <1>8, <2>1 DEF CheckFailed, Live
<1>9. ASSUME Start PROVE ReadingOK'
  <2>1. \A f \in File : row[f] \in {"checking", "none"} => f \notin Sendable
    BY DEF Sendable
  <2> QED
    BY <1>9, <1>t, <2>1, Untouched, RowsSettled DEF Start
<1>10. ASSUME Finish PROVE ReadingOK'
  BY <1>10, <1>t, RowsSettled DEF Finish
<1>11. ASSUME NEW w \in Worker, Take(w) PROVE ReadingOK'
  <2>1. PICK f \in queue : row' = Patched(row, {f}, "sending") /\ UNCHANGED intake
    BY <1>11 DEF Take
  <2> QED
    BY <1>t, <2>1, Untouched, RowsSettled
<1>12. ASSUME NEW w \in Worker, Leave(w) PROVE ReadingOK'
  BY <1>12, <1>t, RowsSettled DEF Leave
<1>13. ASSUME NEW w \in Worker, Received(w) PROVE ReadingOK'
  BY <1>13, <1>t, RowsSettled DEF Received
<1>14. ASSUME NEW w \in Worker, Acked(w) PROVE ReadingOK'
  BY <1>14, <1>t, <1>w, Untouched, RowsSettled DEF Acked
<1>15. ASSUME NEW w \in Worker, Failed(w) PROVE ReadingOK'
  BY <1>15, <1>t, <1>w, Untouched, RowsSettled DEF Failed
<1>16. ASSUME NEW f \in File, RemoveRow(f) PROVE ReadingOK'
  <2>1. \A g \in File : row'[g] \in {row[g], "none"}
    BY <1>16, <1>t DEF RemoveRow, TypeOK
  <2> QED
    BY <1>16, <1>t, <2>1, ReadingStops DEF RemoveRow
<1>17. ASSUME Cancel PROVE ReadingOK'
  <2>1. \A g \in File : row[g] # "sending" => row'[g] = row[g]
    BY <1>17, Untouched DEF Cancel
  <2> QED
    BY <1>17, <1>t, <2>1, ReadingStops DEF Cancel
<1>18. ASSUME Reset PROVE ReadingOK'
  <2>1. \A g \in File : row'[g] = "none"
    BY <1>18 DEF Reset
  <2> QED
    BY <1>18, <1>t, <2>1, ReadingStops DEF Reset
<1>19. ASSUME NEW c \in Content, Elsewhere(c) PROVE ReadingOK'
  BY <1>19, <1>t, RowsSettled DEF Elsewhere
<1>20. ASSUME UNCHANGED vars PROVE ReadingOK'
  BY <1>20, <1>t, RowsSettled DEF vars
<1> QED
  BY <1>1, <1>3, <1>4, <1>5, <1>7, <1>8, <1>9, <1>10, <1>11, <1>12, <1>13, <1>14, <1>15,
     <1>16, <1>17, <1>18, <1>19, <1>20 DEF Next

-----------------------------------------------------------------------------
(* Runs. *)

\* A worker that is not sending has no file, one that is not idle has a run.
LEMMA WorkersAre ==
  ASSUME TypeOK, RunOK, NEW w \in Worker
  PROVE  /\ worker[w] \in WorkerState
         /\ worker[w].pc # "sending" => worker[w].file = None
         /\ worker[w].pc = "sending" =>
              worker[w].file \in File /\ row[worker[w].file] = "sending"
         /\ worker[w].pc # "idle" => running
<1>1. worker[w] \in WorkerState
  BY DEF TypeOK
<1>2. worker[w].pc = "sending" <=> worker[w].file # None
  BY DEF TypeOK
<1>3. ASSUME worker[w].pc = "sending"
      PROVE  worker[w].file \in File /\ row[worker[w].file] = "sending"
  <2>1. worker[w].file \in File
    BY <1>1, <1>2, <1>3 DEF WorkerState
  <2> QED
    BY <2>1 DEF RunOK, TransferPerRow
<1>4. worker[w].pc # "idle" => running
  BY DEF RunOK
<1> QED
  BY <1>1, <1>2, <1>3, <1>4

\* A step of the intake writes rows that the run has nothing to do with.
LEMMA RunApart ==
  ASSUME RunOK, queue \subseteq File, UNCHANGED <<queue, running>>,
         \A w \in Worker : worker'[w].file = worker[w].file /\ worker'[w].pc = worker[w].pc,
         \A i \in Intake : intake'[i].pc = "unread" => intake[i].pc = "unread",
         \A f \in File : \/ row'[f] = row[f]
                        \/ /\ f \notin queue
                           /\ row[f] \notin {"queued", "sending"}
                           /\ row'[f] \notin {"queued", "sending"}
  PROVE  RunOK'
<1>1. TransferPerRow'
  BY DEF RunOK, TransferPerRow
<1>2. \A f \in File : row'[f] = "queued" => f \in queue'
  BY DEF RunOK
<1>4. \A f \in queue' : row'[f] \in {"queued", "none"}
  BY DEF RunOK
<1>5. /\ ~running' => queue' = {} /\ \A w \in Worker : worker'[w].pc = "idle"
      /\ queue' # {} => \E w \in Worker : worker'[w].pc # "idle"
      /\ \A i \in Intake : intake'[i].pc = "unread" => Mine(i) \cap queue' = {}
  BY DEF RunOK
<1> QED
  BY <1>1, <1>2, <1>4, <1>5 DEF RunOK, Mine

\* A worker lets go of what it sent, which is neither queued nor sending then.
LEMMA LetGo ==
  ASSUME TypeOK, RunOK, NEW w \in Worker, worker[w].pc = "sending",
         NEW status \in Status \ {"queued", "sending"},
         row' = Patched(row, {worker[w].file}, status),
         worker' = [worker EXCEPT ![w] = [Idle EXCEPT !.pc = "taking"]],
         UNCHANGED <<intake, queue, running>>
  PROVE  RunOK'
<1> DEFINE f == worker[w].file
<1>1. f \in File /\ row[f] = "sending" /\ running
  BY WorkersAre
<1>2. row'[f] = status /\ \A g \in File \ {f} : row'[g] = row[g]
  BY <1>1 DEF Patched
<1>3. worker'[w] = [pc |-> "taking", file |-> None, answer |-> None]
  BY IdleType DEF TypeOK
<1>4. \A v \in Worker \ {w} : worker'[v] = worker[v] /\ worker[v].file # f
  <2>1. f # None
    BY <1>1, UploadAssumption
  <2> QED
    BY <2>1 DEF TypeOK, RunOK, TransferPerRow
<1>5. TransferPerRow'
  <2>1. \A g \in File : row'[g] = "sending" <=> \E v \in Worker : worker'[v].file = g
    <3> SUFFICES ASSUME NEW g \in File
                 PROVE  row'[g] = "sending" <=> \E v \in Worker : worker'[v].file = g
      OBVIOUS
    <3>1. row[g] = "sending" <=> \E v \in Worker : worker[v].file = g
      BY DEF RunOK, TransferPerRow
    <3>2. CASE g = f
      BY <1>1, <1>2, <1>3, <1>4, <3>2, UploadAssumption
    <3>3. CASE g # f
      <4>1. g # None
        BY UploadAssumption
      <4>2. \A v \in Worker : worker'[v].file = g <=> worker[v].file = g
        BY <1>3, <1>4, <3>3, <4>1
      <4> QED
        BY <1>2, <3>1, <3>3, <4>2
    <3> QED
      BY <3>2, <3>3
  <2>2. \A v, u \in Worker : v # u /\ worker'[v].file = worker'[u].file => worker'[v].file = None
    BY <1>3, <1>4 DEF RunOK, TransferPerRow
  <2> QED
    BY <2>1, <2>2 DEF TransferPerRow
<1>6. f \notin queue
  BY <1>1 DEF RunOK
<1>7. /\ \A g \in File : row'[g] = "queued" => g \in queue'
      /\ \A g \in queue' : row'[g] \in {"queued", "none"}
  BY <1>1, <1>2, <1>6 DEF RunOK, TypeOK
<1>8. /\ running'
      /\ \E v \in Worker : worker'[v].pc # "idle"
      /\ \A i \in Intake : intake'[i].pc = "unread" => Mine(i) \cap queue' = {}
  BY <1>1, <1>3 DEF RunOK
<1> QED
  BY <1>5, <1>7, <1>8 DEF RunOK, Mine

\* Workers are stopped, and the rows they sent with them.
LEMMA RunStops ==
  ASSUME TypeOK, RunOK, NEW fs, StopSending(fs), StopReading(fs), UNCHANGED <<queue, running>>,
         \A f \in File : IF row[f] = "sending"
                        THEN IF f \in fs THEN row'[f] \notin {"queued", "sending"} ELSE row'[f] = row[f]
                        ELSE row'[f] \in {row[f], "none"}
  PROVE  RunOK'
<1>1. \A w \in Worker :
        worker'[w] = IF worker[w].pc = "sending" /\ worker[w].file \in fs
                     THEN [pc |-> "taking", file |-> None, answer |-> None] ELSE worker[w]
  BY IdleType, WorkersStop, TypeParts DEF TypeOK, WorkerTypeOK
<1>2. \A f \in File : row'[f] = "sending" <=> row[f] = "sending" /\ f \notin fs
  OBVIOUS
<1>3. TransferPerRow'
  <2>1. \A f \in File : row'[f] = "sending" <=> \E w \in Worker : worker'[w].file = f
    <3> SUFFICES ASSUME NEW f \in File
                 PROVE  row'[f] = "sending" <=> \E w \in Worker : worker'[w].file = f
      OBVIOUS
    <3>1. row[f] = "sending" <=> \E w \in Worker : worker[w].file = f
      BY DEF RunOK, TransferPerRow
    <3>2. \A w \in Worker : worker[w].file = f => worker[w].pc = "sending"
      BY UploadAssumption, WorkersAre
    <3>3. \A w \in Worker : worker'[w].file = f <=> worker[w].file = f /\ f \notin fs
      BY <1>1, <3>2, UploadAssumption
    <3> QED
      BY <1>2, <3>1, <3>3
  <2>2. \A w \in Worker : worker'[w].file \in {worker[w].file, None}
    BY <1>1
  <2>3. \A v, w \in Worker : v # w /\ worker'[v].file = worker'[w].file => worker'[v].file = None
    BY <2>2 DEF RunOK, TransferPerRow
  <2> QED
    BY <2>1, <2>3 DEF TransferPerRow
<1>4. /\ \A f \in File : row'[f] = "queued" => f \in queue'
      /\ \A f \in queue' : row'[f] \in {"queued", "none"}
  BY DEF RunOK, TypeOK
<1>5. /\ ~running' => queue' = {} /\ \A w \in Worker : worker'[w].pc = "idle"
      /\ queue' # {} => \E w \in Worker : worker'[w].pc # "idle"
  BY <1>1 DEF RunOK
<1>6. \A i \in Intake : intake'[i].pc = "unread" => Mine(i) \cap queue' = {}
  BY DEF StopReading, RunOK, Unread
<1> QED
  BY <1>3, <1>4, <1>5, <1>6 DEF RunOK, Mine

\* A run starts with somebody to take from its queue.
LEMMA SomebodyTakes ==
  ASSUME Sendable # {}, NEW ws \in SUBSET Worker,
         Cardinality(ws) = Min({Cardinality(Worker), Cardinality(Sendable)})
  PROVE  ws # {}
<1>1. /\ IsFiniteSet(Worker) /\ Worker # {}
      /\ IsFiniteSet(Sendable)
  BY UploadAssumption, Sizes, FS_Subset DEF Sendable
<1>2. /\ Cardinality(Worker) \in Nat /\ Cardinality(Worker) # 0
      /\ Cardinality(Sendable) \in Nat /\ Cardinality(Sendable) # 0
  BY <1>1, FS_CardinalityType, FS_EmptySet
<1> DEFINE a == Cardinality(Worker)
           b == Cardinality(Sendable)
<1>3. \E x \in {a, b} : \A y \in {a, b} : x <= y
  BY <1>2
<1>4. Min({a, b}) \in {a, b}
  BY <1>3 DEF Min
<1>5. Cardinality(ws) # 0
  BY <1>2, <1>4
<1> QED
  BY <1>5, Sizes, Zenon

\* Every step keeps the queue and the workers in order.
LEMMA RunStep == IInv /\ [Next]_vars => RunOK'
<1> SUFFICES ASSUME IInv, [Next]_vars PROVE RunOK'
  OBVIOUS
<1>t. TypeOK /\ ReadingOK /\ RunOK /\ queue \subseteq File
  BY DEF IInv, TypeOK
<1>r. /\ TransferPerRow
      /\ \A f \in File : row[f] = "queued" => f \in queue
      /\ \A f \in queue : row[f] \in {"queued", "none"}
      /\ ~running => queue = {} /\ \A w \in Worker : worker[w].pc = "idle"
      /\ queue # {} => \E w \in Worker : worker[w].pc # "idle"
      /\ \A i \in Intake : intake[i].pc = "unread" => Mine(i) \cap queue = {}
  BY <1>t DEF RunOK
<1>i. ASSUME UNCHANGED <<queue, running, worker>>,
             NEW i \in Intake, NEW next, next.pc # "unread", intake' = [intake EXCEPT ![i] = next],
             NEW fs \in SUBSET Pending(i), intake[i].pc \in Live,
             \A f \in File : row'[f] = row[f]
               \/ (f \in fs /\ row[f] # "none" /\ row'[f] \notin {"queued", "sending"})
      PROVE  RunOK'
  <2>1. \A f \in Pending(i) : row[f] \in {"checking", "none"}
    BY <1>i, <1>t DEF ReadingOK, IntakeOK
  <2>2. \A f \in fs : row[f] # "none" => f \notin queue /\ row[f] \notin {"queued", "sending"}
    BY <1>i, <1>r, <2>1
  <2>3. \A j \in Intake : intake'[j].pc = "unread" => intake[j].pc = "unread"
    BY <1>i, <1>t DEF TypeOK
  <2> QED
    BY <1>i, <1>t, <2>2, <2>3, RunApart
<1>a. ASSUME NEW i \in Intake, NEW todo \in Seq(File), NEW batch \in SUBSET File,
             NEW seen \in SUBSET Content, Cardinality(batch) <= CheckBatch
      PROVE  After(todo, batch, seen).pc # "unread"
  BY <1>a, AfterType
<1>1. ASSUME NEW i \in Intake, Add(i) PROVE RunOK'
  <2>1. \A f \in Mine(i) : row[f] = "none" /\ f \notin queue
    BY <1>1, <1>t, <1>r DEF Add, ReadingOK, IntakeOK
  <2>2. \A f \in File \ Mine(i) : row'[f] = row[f]
    BY <1>1 DEF Add, Mine
  <2>3. \A f \in Mine(i) : f \in File => row'[f] \in {"rejected", "checking"}
    BY <1>1 DEF Add, Mine
  <2>4. Dropped[i] \in Seq(File)
    BY UploadAssumption
  <2>5. After(Dropped[i], {}, {}).pc # "unread"
    BY <1>a, <2>4, UnreadType
  <2> DEFINE next == After(Dropped[i], {}, {})
  <2>6. intake' = [intake EXCEPT ![i] = next]
    BY <1>1 DEF Add
  <2> HIDE DEF next
  <2>7. \A j \in Intake : intake'[j].pc = "unread" => intake[j].pc = "unread"
    BY <1>t, <2>5, <2>6 DEF TypeOK, next
  <2>8. UNCHANGED <<queue, running, worker>>
    BY <1>1 DEF Add
  <2> QED
    BY <1>t, <2>1, <2>2, <2>3, <2>7, <2>8, RunApart
<1>2. ASSUME NEW i \in Intake, Read(i) PROVE RunOK'
  <2> DEFINE f == Head(intake[i].todo)
  <2>1. /\ intake[i].todo \in Seq(File) /\ intake[i].todo # <<>> /\ IntakeOK(i)
        /\ intake[i].pc = "reading"
    BY <1>2, <1>t, InHand DEF Read
  <2>2. f \in Pending(i)
    BY <2>1, TailOf DEF IntakeOK, Pending
  <2>3. \A g \in File : row'[g] = row[g] \/ (g \in {f} /\ row[g] # "none" /\ row'[g] = "twin")
    BY <1>2 DEF Read, Patched
  <2>4. PICK batch, seen : intake' = [intake EXCEPT ![i] = After(Tail(intake[i].todo), batch, seen)]
    BY <1>2 DEF Read
  <2>5. After(Tail(intake[i].todo), batch, seen).pc # "unread"
    BY DEF After
  <2>6. UNCHANGED <<queue, running, worker>>
    BY <1>2 DEF Read
  <2> QED
    BY <1>i, <2>1, <2>2, <2>3, <2>4, <2>5, <2>6 DEF Live
<1>3. ASSUME NEW i \in Intake, Unreadable(i) PROVE RunOK'
  <2> DEFINE f == Head(intake[i].todo)
  <2>1. /\ intake[i].todo \in Seq(File) /\ intake[i].todo # <<>> /\ IntakeOK(i)
        /\ intake[i].pc = "reading"
    BY <1>3, <1>t, InHand DEF Unreadable
  <2>2. f \in Pending(i)
    BY <2>1, TailOf DEF IntakeOK, Pending
  <2>3. \A g \in File : row'[g] = row[g] \/ (g \in {f} /\ row[g] # "none" /\ row'[g] = "rejected")
    BY <1>3 DEF Unreadable, Patched
  <2>4. PICK batch, seen : intake' = [intake EXCEPT ![i] = After(Tail(intake[i].todo), batch, seen)]
    BY <1>3 DEF Unreadable
  <2>5. After(Tail(intake[i].todo), batch, seen).pc # "unread"
    BY DEF After
  <2>6. UNCHANGED <<queue, running, worker>>
    BY <1>3 DEF Unreadable
  <2> QED
    BY <1>i, <2>1, <2>2, <2>3, <2>4, <2>5, <2>6 DEF Live
<1>4. ASSUME NEW i \in Intake, CheckAnswered(i) PROVE RunOK'
  <2>1. \A j \in Intake : intake'[j].pc = "unread" => intake[j].pc = "unread"
    BY <1>4, <1>t DEF CheckAnswered, TypeOK, IntakeState
  <2> QED
    BY <1>4, <1>t, <2>1, RunApart DEF CheckAnswered
<1>5. ASSUME NEW i \in Intake, CheckHandled(i) PROVE RunOK'
  <2> DEFINE known == {f \in intake[i].batch : Bytes[f] \in intake[i].answer}
             first == Patched(row, known, "duplicate")
  <2>1. \A f \in File : first[f] = row[f] \/ (f \in intake[i].batch /\ row[f] # "none" /\ first[f] = "duplicate")
    BY DEF Patched
  <2>2. row' = Patched(first, intake[i].batch \ known, "ready")
    BY <1>5 DEF CheckHandled
  <2>3. \A f \in known : f \in intake[i].batch
    OBVIOUS
  <2> HIDE DEF first, known
  <2>4. \A f \in File : row'[f] = first[f] \/ (f \in intake[i].batch /\ first[f] # "none" /\ row'[f] = "ready")
    BY <2>2 DEF Patched
  <2>5. \A f \in File : row'[f] = row[f]
          \/ (f \in intake[i].batch /\ row[f] # "none" /\ row'[f] \notin {"queued", "sending"})
    BY <2>1, <2>4
  <2>6. intake' = [intake EXCEPT ![i] = After(intake[i].todo, {}, intake[i].seen)]
    BY <1>5 DEF CheckHandled
  <2>7. After(intake[i].todo, {}, intake[i].seen).pc # "unread"
    BY DEF After
  <2>8. intake[i].batch \subseteq Pending(i)
    BY DEF Pending
  <2> QED
    BY <1>i, <1>5, <2>5, <2>6, <2>7, <2>8 DEF CheckHandled, Live
<1>6. ASSUME NEW i \in Intake, CheckFailed(i) PROVE RunOK'
  <2>1. \A f \in File : row'[f] = row[f]
          \/ (f \in intake[i].batch /\ row[f] # "none" /\ row'[f] = "ready")
    BY <1>6 DEF CheckFailed, Patched
  <2>2. intake' = [intake EXCEPT ![i] = After(intake[i].todo, {}, intake[i].seen)]
    BY <1>6 DEF CheckFailed
  <2>3. After(intake[i].todo, {}, intake[i].seen).pc # "unread"
    BY DEF After
  <2>4. intake[i].batch \subseteq Pending(i)
    BY DEF Pending
  <2> QED
    BY <1>i, <1>6, <2>1, <2>2, <2>3, <2>4 DEF CheckFailed, Live
<1>7. ASSUME Start PROVE RunOK'
  <2>1. PICK ws \in SUBSET Worker :
          /\ Cardinality(ws) = Min({Cardinality(Worker), Cardinality(Sendable)})
          /\ worker' = [w \in Worker |-> IF w \in ws THEN [Idle EXCEPT !.pc = "taking"] ELSE Idle]
    BY <1>7 DEF Start
  <2>2. Sendable # {} /\ ws # {}
    BY <1>7, <2>1, SomebodyTakes DEF Start
  <2>3. /\ \A w \in Worker : worker'[w].file = None /\ worker[w].file = None
        /\ \A w \in ws : worker'[w].pc = "taking"
    BY <1>7, <1>t, <1>r, <2>1, IdleType, WorkersAre DEF Start
  <2>4. /\ queue' = Sendable /\ running' /\ queue = {} /\ UNCHANGED intake
        /\ \A f \in Sendable : row'[f] = "queued"
        /\ \A f \in File \ Sendable : row'[f] = row[f]
    BY <1>7, <1>r DEF Start, Patched, Sendable
  <2>5. \A f \in File : row[f] # "sending" /\ f # None
    BY <1>r, <2>3, UploadAssumption DEF TransferPerRow
  <2>6. TransferPerRow'
    BY <2>3, <2>4, <2>5 DEF TransferPerRow
  <2>7. \A i \in Intake : intake[i].pc = "unread" => Mine(i) \cap Sendable = {}
    BY <1>t DEF ReadingOK, IntakeOK, Sendable
  <2>8. \A f \in File : row'[f] = "queued" => f \in queue'
    BY <1>r, <2>4
  <2> QED
    BY <2>2, <2>3, <2>4, <2>6, <2>7, <2>8 DEF RunOK, Mine
<1>8. ASSUME Finish PROVE RunOK'
  <2>1. \A w \in Worker : worker[w].pc = "idle"
    BY <1>8, IdleType DEF Finish
  <2>2. queue = {}
    BY <1>r, <2>1
  <2>3. TransferPerRow'
    BY <1>8, <1>r DEF Finish, TransferPerRow
  <2> QED
    BY <1>8, <1>r, <2>1, <2>2, <2>3 DEF Finish, RunOK, Mine
<1>9. ASSUME NEW w \in Worker, Take(w) PROVE RunOK'
  <2>1. PICK f \in queue :
          /\ queue' = queue \ {f}
          /\ row' = Patched(row, {f}, "sending")
          /\ worker' = IF row[f] = "none" THEN worker
                       ELSE [worker EXCEPT ![w] = [pc |-> "sending", file |-> f, answer |-> None]]
    BY <1>9 DEF Take
  <2>2. /\ worker[w].pc = "taking" /\ worker[w].file = None /\ running
        /\ UNCHANGED <<intake, running>> /\ f \in File /\ f # None
    BY <1>9, <1>t, <2>1, WorkersAre, UploadAssumption DEF Take
  <2>3. \A g \in File \ {f} : row'[g] = row[g]
    BY <2>1 DEF Patched
  <2>4. \A i \in Intake : intake'[i].pc = "unread" => Mine(i) \cap queue' = {}
    BY <1>r, <2>1, <2>2
  <2>5. CASE row[f] = "none"
    <3>1. row'[f] = "none" /\ UNCHANGED worker
      BY <2>1, <2>2, <2>5 DEF Patched
    <3>2. \A g \in File : row'[g] = row[g]
      BY <2>3, <2>5, <3>1
    <3>3. TransferPerRow'
      BY <1>r, <3>1, <3>2 DEF TransferPerRow
    <3>4. /\ \A g \in File : row'[g] = "queued" => g \in queue'
          /\ \A g \in queue' : row'[g] \in {"queued", "none"}
      BY <1>r, <1>t, <2>1, <2>5, <3>2
    <3>5. worker'[w].pc # "idle"
      BY <2>2, <3>1
    <3> QED
      BY <2>2, <2>4, <3>3, <3>4, <3>5 DEF RunOK, Mine
  <2>6. CASE row[f] # "none"
    <3>1. row[f] = "queued" /\ row'[f] = "sending"
      BY <1>r, <2>1, <2>2, <2>6 DEF Patched
    <3>2. /\ worker'[w].file = f /\ worker'[w].pc = "sending"
          /\ \A v \in Worker \ {w} : worker'[v] = worker[v]
      BY <1>t, <2>1, <2>6 DEF TypeOK
    <3>3. \A v \in Worker : worker[v].file # f
      BY <1>r, <2>2, <3>1 DEF TransferPerRow
    <3>4. \A g \in File : row'[g] = "sending" <=> \E v \in Worker : worker'[v].file = g
      <4> SUFFICES ASSUME NEW g \in File
                   PROVE  row'[g] = "sending" <=> \E v \in Worker : worker'[v].file = g
        OBVIOUS
      <4>1. CASE g = f
        BY <3>1, <3>2, <4>1
      <4>2. CASE g # f
        <5>1. g # None
          BY UploadAssumption
        <5>2. \A v \in Worker : worker'[v].file = g <=> worker[v].file = g
          BY <2>2, <3>2, <4>2, <5>1
        <5>3. row[g] = "sending" <=> \E v \in Worker : worker[v].file = g
          BY <1>r DEF TransferPerRow
        <5> QED
          BY <2>3, <4>2, <5>2, <5>3
      <4> QED
        BY <4>1, <4>2
    <3>5. \A v, u \in Worker : v # u /\ worker'[v].file = worker'[u].file => worker'[v].file = None
      BY <1>r, <3>2, <3>3 DEF TransferPerRow
    <3>6. TransferPerRow'
      BY <3>4, <3>5 DEF TransferPerRow
    <3>7. /\ \A g \in File : row'[g] = "queued" => g \in queue'
          /\ \A g \in queue' : row'[g] \in {"queued", "none"}
      BY <1>r, <1>t, <2>1, <2>3, <3>1
    <3> QED
      BY <2>2, <2>4, <3>2, <3>6, <3>7 DEF RunOK, Mine
  <2> QED
    BY <2>5, <2>6
<1>10. ASSUME NEW w \in Worker, Leave(w) PROVE RunOK'
  <2>1. /\ worker[w].file = None /\ queue = {} /\ running /\ UNCHANGED <<row, intake, queue, running>>
        /\ worker' = [worker EXCEPT ![w] = Idle]
    BY <1>10, <1>t, WorkersAre DEF Leave
  <2>2. \A v \in Worker : worker'[v].file = worker[v].file
    BY <1>t, <2>1, IdleType DEF TypeOK
  <2>3. TransferPerRow'
    BY <1>r, <2>1, <2>2 DEF TransferPerRow
  <2> QED
    BY <1>r, <2>1, <2>3 DEF RunOK, Mine
<1>11. ASSUME NEW w \in Worker, Received(w) PROVE RunOK'
  <2>1. /\ \A v \in Worker : worker'[v].file = worker[v].file /\ worker'[v].pc = worker[v].pc
        /\ UNCHANGED <<row, intake, queue, running>>
    BY <1>11, <1>t DEF Received, TypeOK, WorkerState
  <2> QED
    BY <1>t, <2>1, RunApart
<1>12. ASSUME NEW w \in Worker, Acked(w) PROVE RunOK'
  <2>1. worker[w].answer \in Status \ {"queued", "sending"}
    BY <1>12, <1>t DEF Acked, TypeOK, WorkerState, Status
  <2> QED
    BY <1>12, <1>t, <2>1, LetGo DEF Acked
<1>13. ASSUME NEW w \in Worker, Failed(w) PROVE RunOK'
  <2>1. "failed" \in Status \ {"queued", "sending"}
    BY DEF Status
  <2> QED
    BY <1>13, <1>t, <2>1, LetGo DEF Failed
<1>14. ASSUME NEW f \in File, RemoveRow(f) PROVE RunOK'
  <2>1. row'[f] = "none" /\ \A g \in File \ {f} : row'[g] = row[g]
    BY <1>14, <1>t DEF RemoveRow, TypeOK
  <2> QED
    BY <1>14, <1>t, <2>1, RunStops DEF RemoveRow
<1>15. ASSUME Cancel PROVE RunOK'
  <2>1. \A f \in File : row'[f] = IF row[f] = "sending" THEN "ready" ELSE row[f]
    BY <1>15 DEF Cancel, Patched
  <2> QED
    BY <1>15, <1>t, <2>1, RunStops DEF Cancel
<1>16. ASSUME Reset PROVE RunOK'
  <2>1. \A f \in File : row'[f] = "none"
    BY <1>16 DEF Reset
  <2> QED
    BY <1>16, <1>t, <2>1, RunStops DEF Reset
<1>17. ASSUME NEW c \in Content, Elsewhere(c) PROVE RunOK'
  BY <1>17, <1>t, RunApart DEF Elsewhere
<1>18. ASSUME UNCHANGED vars PROVE RunOK'
  BY <1>18, <1>t, RunApart DEF vars
<1> QED
  BY <1>1, <1>2, <1>3, <1>4, <1>5, <1>6, <1>7, <1>8, <1>9, <1>10, <1>11, <1>12, <1>13,
     <1>14, <1>15, <1>16, <1>17, <1>18 DEF Next

-----------------------------------------------------------------------------
(* Answers. *)

\* What is shown or in transit is as it was, says nothing, or is true by now.
LEMMA AnswersApart ==
  ASSUME AnswersOK, archive \subseteq archive',
         \A f \in File : row'[f] \in {"stored", "duplicate"} =>
           row'[f] = row[f] \/ Bytes[f] \in archive',
         \A i \in Intake : intake'[i].answer = intake[i].answer \/ intake'[i].answer \subseteq archive',
         \A w \in Worker : \/ worker'[w] = worker[w]
                          \/ worker'[w].answer = None
                          \/ /\ worker'[w].file # None
                             /\ Bytes[worker'[w].file] \in archive'
  PROVE  AnswersOK'
<1>1. ShownIsTrue'
  BY DEF AnswersOK, ShownIsTrue
<1>2. \A i \in Intake : intake'[i].answer \subseteq archive'
  BY DEF AnswersOK
<1>3. \A w \in Worker : worker'[w].answer # None =>
        worker'[w].file # None /\ Bytes[worker'[w].file] \in archive'
  BY DEF AnswersOK
<1> QED
  BY <1>1, <1>2, <1>3 DEF AnswersOK

\* Every step keeps the answers true.
LEMMA AnswersStep == IInv /\ [Next]_vars => AnswersOK'
<1> SUFFICES ASSUME IInv, [Next]_vars PROVE AnswersOK'
  OBVIOUS
<1>t. TypeOK /\ RunOK /\ AnswersOK
  BY DEF IInv
<1>i. ASSUME UNCHANGED <<worker, archive>>, NEW i \in Intake, NEW next, next.answer = {},
             intake' = [intake EXCEPT ![i] = next],
             \A f \in File : row'[f] \in {"stored", "duplicate"} =>
               row'[f] = row[f] \/ Bytes[f] \in archive
      PROVE  AnswersOK'
  <2>1. \A j \in Intake : intake'[j].answer = intake[j].answer \/ intake'[j].answer \subseteq archive'
    BY <1>i, <1>t DEF TypeOK
  <2> QED
    BY <1>i, <1>t, <2>1, AnswersApart
<1>s. ASSUME NEW fs, StopReading(fs), StopSending(fs),
             \A f \in File : row'[f] \in {"stored", "duplicate"} => row'[f] = row[f]
      PROVE  AnswersOK'
  <2>1. \A i \in Intake : intake'[i].answer = intake[i].answer \/ intake'[i].answer \subseteq archive'
    BY <1>s DEF StopReading, Unread
  <2>2. /\ archive \subseteq archive'
        /\ \A w \in Worker : worker'[w] \in {worker[w], [Idle EXCEPT !.pc = "taking"]}
    BY <1>s, <1>t, WorkersStop DEF TypeOK, WorkerTypeOK
  <2>3. [Idle EXCEPT !.pc = "taking"].answer = None
    BY IdleType
  <2> QED
    BY <1>s, <1>t, <2>1, <2>2, <2>3, AnswersApart
<1>a. \A todo, batch, seen : After(todo, batch, seen).answer = {}
  BY DEF After
<1>1. ASSUME NEW i \in Intake, Add(i) PROVE AnswersOK'
  <2>1. \A f \in File : row'[f] \in {"stored", "duplicate"} => row'[f] = row[f]
    BY <1>1 DEF Add
  <2> QED
    BY <1>1, <1>i, <1>a, <2>1 DEF Add
<1>2. ASSUME NEW i \in Intake, Read(i) PROVE AnswersOK'
  <2>1. \A f \in File : row'[f] \in {"stored", "duplicate"} => row'[f] = row[f]
    BY <1>2 DEF Read, Patched
  <2> DEFINE next == After(Tail(intake[i].todo),
                            IF Bytes[Head(intake[i].todo)] \in intake[i].seen THEN intake[i].batch
                            ELSE intake[i].batch \cup {Head(intake[i].todo)},
                            intake[i].seen \cup {Bytes[Head(intake[i].todo)]})
  <2>2. intake' = [intake EXCEPT ![i] = next]
    BY <1>2 DEF Read
  <2>3. next.answer = {}
    BY <1>a
  <2>4. UNCHANGED <<worker, archive>>
    BY <1>2 DEF Read
  <2> HIDE DEF next
  <2> QED
    BY <1>i, <2>1, <2>2, <2>3, <2>4
<1>3. ASSUME NEW i \in Intake, Unreadable(i) PROVE AnswersOK'
  <2>1. \A f \in File : row'[f] \in {"stored", "duplicate"} => row'[f] = row[f]
    BY <1>3 DEF Unreadable, Patched
  <2> QED
    BY <1>3, <1>i, <1>a, <2>1 DEF Unreadable
<1>4. ASSUME NEW i \in Intake, CheckAnswered(i) PROVE AnswersOK'
  <2>1. \A j \in Intake : intake'[j].answer = intake[j].answer \/ intake'[j].answer \subseteq archive'
    BY <1>4, <1>t DEF CheckAnswered, TypeOK, IntakeState
  <2> QED
    BY <1>4, <1>t, <2>1, AnswersApart DEF CheckAnswered
<1>5. ASSUME NEW i \in Intake, CheckHandled(i) PROVE AnswersOK'
  <2> DEFINE known == {f \in intake[i].batch : Bytes[f] \in intake[i].answer}
             first == Patched(row, known, "duplicate")
  <2>1. \A f \in known : Bytes[f] \in archive
    BY <1>t DEF AnswersOK
  <2>2. \A f \in File : first[f] = row[f] \/ f \in known
    BY DEF Patched
  <2>3. row' = Patched(first, intake[i].batch \ known, "ready")
    BY <1>5 DEF CheckHandled
  <2> HIDE DEF first, known
  <2>4. \A f \in File : row'[f] \in {first[f], "ready"}
    BY <2>3 DEF Patched
  <2>5. \A f \in File : row'[f] \in {"stored", "duplicate"} =>
          row'[f] = row[f] \/ Bytes[f] \in archive
    BY <2>1, <2>2, <2>4
  <2> QED
    BY <1>5, <1>i, <1>a, <2>5 DEF CheckHandled
<1>6. ASSUME NEW i \in Intake, CheckFailed(i) PROVE AnswersOK'
  <2>1. \A f \in File : row'[f] \in {"stored", "duplicate"} => row'[f] = row[f]
    BY <1>6 DEF CheckFailed, Patched
  <2> QED
    BY <1>6, <1>i, <1>a, <2>1 DEF CheckFailed
<1>7. ASSUME Start PROVE AnswersOK'
  <2>1. \A f \in File : row'[f] \in {"stored", "duplicate"} => row'[f] = row[f]
    BY <1>7 DEF Start, Patched
  <2>2. PICK ws \in SUBSET Worker :
          worker' = [w \in Worker |-> IF w \in ws THEN [Idle EXCEPT !.pc = "taking"] ELSE Idle]
    BY <1>7 DEF Start
  <2>3. \A w \in Worker : worker'[w].answer = None
    BY <2>2, IdleType
  <2> QED
    BY <1>7, <1>t, <2>1, <2>3, AnswersApart DEF Start
<1>8. ASSUME Finish PROVE AnswersOK'
  BY <1>8, <1>t, AnswersApart DEF Finish
<1>9. ASSUME NEW w \in Worker, Take(w) PROVE AnswersOK'
  <2>1. PICK f \in queue :
          /\ row' = Patched(row, {f}, "sending")
          /\ worker' = IF row[f] = "none" THEN worker
                       ELSE [worker EXCEPT ![w] = [pc |-> "sending", file |-> f, answer |-> None]]
    BY <1>9 DEF Take
  <2>2. \A v \in Worker : worker'[v] = worker[v] \/ worker'[v].answer = None
    BY <1>t, <2>1 DEF TypeOK
  <2>3. \A g \in File : row'[g] \in {row[g], "sending"}
    BY <2>1 DEF Patched
  <2> QED
    BY <1>9, <1>t, <2>2, <2>3, AnswersApart DEF Take
<1>10. ASSUME NEW w \in Worker, Leave(w) PROVE AnswersOK'
  <2>1. \A v \in Worker : worker'[v] = worker[v] \/ worker'[v].answer = None
    BY <1>10, <1>t, IdleType DEF Leave, TypeOK
  <2> QED
    BY <1>10, <1>t, <2>1, AnswersApart DEF Leave
<1>11. ASSUME NEW w \in Worker, Received(w) PROVE AnswersOK'
  <2>1. /\ archive' = archive \cup {Bytes[worker[w].file]}
        /\ worker'[w].file = worker[w].file
        /\ \A v \in Worker \ {w} : worker'[v] = worker[v]
        /\ UNCHANGED <<row, intake>>
    BY <1>11, <1>t DEF Received, TypeOK, WorkerState
  <2>2. worker[w].file # None
    BY <1>11, <1>t DEF Received, TypeOK
  <2> QED
    BY <1>t, <2>1, <2>2, AnswersApart
<1>f. ASSUME NEW w \in Worker, worker' = [worker EXCEPT ![w] = [Idle EXCEPT !.pc = "taking"]]
      PROVE  \A v \in Worker : worker'[v] = worker[v] \/ worker'[v].answer = None
  BY <1>f, <1>t, IdleType DEF TypeOK
<1>12. ASSUME NEW w \in Worker, Acked(w) PROVE AnswersOK'
  <2>1. Bytes[worker[w].file] \in archive
    BY <1>12, <1>t DEF Acked, AnswersOK
  <2>2. \A g \in File : row'[g] = row[g] \/ g = worker[w].file
    BY <1>12 DEF Acked, Patched
  <2> QED
    BY <1>12, <1>t, <1>f, <2>1, <2>2, AnswersApart DEF Acked
<1>13. ASSUME NEW w \in Worker, Failed(w) PROVE AnswersOK'
  <2>1. \A g \in File : row'[g] \in {row[g], "failed"}
    BY <1>13 DEF Failed, Patched
  <2> QED
    BY <1>13, <1>t, <1>f, <2>1, AnswersApart DEF Failed
<1>14. ASSUME NEW f \in File, RemoveRow(f) PROVE AnswersOK'
  <2>1. \A g \in File : row'[g] \in {row[g], "none"}
    BY <1>14, <1>t DEF RemoveRow, TypeOK
  <2> QED
    BY <1>14, <1>s, <2>1 DEF RemoveRow
<1>15. ASSUME Cancel PROVE AnswersOK'
  <2>1. \A g \in File : row'[g] \in {row[g], "ready"}
    BY <1>15 DEF Cancel, Patched
  <2> QED
    BY <1>15, <1>s, <2>1 DEF Cancel
<1>16. ASSUME Reset PROVE AnswersOK'
  <2>1. \A g \in File : row'[g] = "none"
    BY <1>16 DEF Reset
  <2> QED
    BY <1>16, <1>s, <2>1 DEF Reset
<1>17. ASSUME NEW c \in Content, Elsewhere(c) PROVE AnswersOK'
  BY <1>17, <1>t, AnswersApart DEF Elsewhere
<1>18. ASSUME UNCHANGED vars PROVE AnswersOK'
  BY <1>18, <1>t, AnswersApart DEF vars
<1> QED
  BY <1>1, <1>2, <1>3, <1>4, <1>5, <1>6, <1>7, <1>8, <1>9, <1>10, <1>11, <1>12, <1>13,
     <1>14, <1>15, <1>16, <1>17, <1>18 DEF Next

-----------------------------------------------------------------------------
(* Theorems. *)

\* The page as it opens.
LEMMA Initially == Init => IInv
<1> SUFFICES ASSUME Init PROVE IInv
  OBVIOUS
<1>1. \A i \in Intake : intake[i] = Unread
  BY DEF Init
<1>2. \A w \in Worker : worker[w] = Idle
  BY DEF Init
<1>3. TypeOK
  <2>1. row \in [File -> Status]
    BY DEF Init, Status
  <2>2. IntakeTypeOK
    BY <1>1, UnreadType DEF Init, IntakeTypeOK, BatchOK, Unread
  <2>3. WorkerTypeOK
    BY <1>2, IdleType DEF Init, WorkerTypeOK
  <2> QED
    BY <2>1, <2>2, <2>3, TypeParts DEF Init
<1>4. BatchOK
  BY <1>1 DEF BatchOK, Unread
<1>5. ReadingOK
  BY <1>1, MineIsApart DEF Init, ReadingOK, IntakeOK, Pending, Live, Unread, ToSet
<1>6. RunOK
  <2>1. TransferPerRow
    BY <1>2, IdleType, UploadAssumption DEF Init, TransferPerRow
  <2> QED
    BY <1>2, <2>1, IdleType DEF Init, RunOK
<1>7. AnswersOK
  BY <1>1, <1>2, IdleType DEF Init, AnswersOK, ShownIsTrue, Unread
<1> QED
  BY <1>3, <1>4, <1>5, <1>6, <1>7 DEF IInv

\* The invariant is inductive.
LEMMA Invariant == Spec => []IInv
<1>1. IInv /\ [Next]_vars => IInv'
  BY TypeStep, ReadingStep, RunStep, AnswersStep DEF IInv
<1> QED
  BY Initially, <1>1, PTL DEF Spec

\* Rows, drops and workers stay what the page's state may be: a batch never
\* grows past CHECK_BATCH, and only a worker that sends has a file.
THEOREM TypeCorrect == Spec => []TypeOK
<1>1. IInv => TypeOK
  BY DEF IInv
<1> QED
  BY <1>1, Invariant, PTL

\* A row that is sending has one worker on it, and a worker's file is such a
\* row, through every removal, cancellation and reset.
THEOREM TransferPerRowCorrect == Spec => []TransferPerRow
<1>1. IInv => TransferPerRow
  BY DEF IInv, RunOK
<1> QED
  BY <1>1, Invariant, PTL

\* A run that is over leaves nothing queued or sending.
THEOREM NothingLeftQueuedCorrect == Spec => []NothingLeftQueued
<1>1. IInv => NothingLeftQueued
  <2> SUFFICES ASSUME IInv, ~running
               PROVE  queue = {} /\ \A f \in File : row[f] \notin {"queued", "sending"}
    BY DEF NothingLeftQueued
  <2>1. TypeOK /\ RunOK
    BY DEF IInv
  <2>2. queue = {} /\ \A w \in Worker : worker[w].pc = "idle"
    BY <2>1 DEF RunOK
  <2>3. \A w \in Worker : worker[w].file = None
    BY <2>1, <2>2, WorkersAre
  <2>4. \A f \in File : row[f] # "sending"
    BY <2>1, <2>3, UploadAssumption DEF RunOK, TransferPerRow
  <2> QED
    BY <2>1, <2>2, <2>4 DEF RunOK
<1> QED
  BY <1>1, Invariant, PTL

\* What the page calls stored or already archived, the archive has.
THEOREM ShownIsTrueCorrect == Spec => []ShownIsTrue
<1>1. IInv => ShownIsTrue
  BY DEF IInv, AnswersOK
<1> QED
  BY <1>1, Invariant, PTL
=============================================================================
