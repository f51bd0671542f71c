------------------------------- MODULE Backup -------------------------------
(***************************************************************************)
(* The backup of one phone: the queue of items, the run that works through *)
(* it, the two screens and the background window that start runs and reach *)
(* into the queue, and as much of the archive as answers them.             *)
(*                                                                         *)
(* A step is what happens between two awaits: one statement on the queue,  *)
(* one answer from the network, one wake-up.  What a run read before an    *)
(* await it keeps as rows, and writes from them afterwards.                *)
(*                                                                         *)
(* A content is an item at a version: an edit keeps the identifier of a    *)
(* library photograph and changes its bytes.  A row's size is null exactly *)
(* when its md5 is, so the md5 stands for both, and is the version hashed. *)
(* Labels, logs, the wait for Wi-Fi, leftover files and what is told about *)
(* an asset once it is archived decide nothing here and are left out.      *)
(***************************************************************************)
EXTENDS Integers, FiniteSets

CONSTANTS
  Library,            \* photographs in the camera roll
  Shared,             \* photographs in shared albums
  None,               \* null
  Run,                \* runs, in the order they are started: 1..n
  MaxAttempts,        \* ITEM_BACKOFF.maxAttempts
  CheckBatch,         \* checkBatchSize
  HashBatch,          \* hashBatchSize
  UploadConcurrency,
  MaxVersion,         \* bound: edits of one photograph
  MaxOutages,         \* bound: requests that reach nobody, or whose answer does not
  MaxFaults,          \* bound: items that cannot be read, 4xx and 5xx answers
  MaxWishes,          \* bound: presses of a button, other than Start
  MaxUpheavals        \* bound: kills, revocations, purges, lost archives

ASSUME BackupAssumption ==
  /\ Library \cap Shared = {}
  /\ Run \subseteq Nat
  /\ MaxAttempts \in Nat \ {0}
  /\ {CheckBatch, HashBatch, UploadConcurrency} \subseteq Nat \ {0}
  /\ {MaxVersion, MaxOutages, MaxFaults, MaxWishes, MaxUpheavals} \subseteq Nat
  /\ None \notin 0..MaxVersion

VARIABLES
  queue,     \* the rows of the items table
  photo,     \* the version of each photograph on the phone
  ticked,    \* the shared albums chosen, as the photographs in them
  run,       \* each run: its loop, what it holds in memory, its uploads
  pairing,   \* the phone's credential, and whether the archive honours it
  held,      \* contents the archive has
  purged,    \* contents it has a tombstone for
  mapping,   \* device_assets of the paired device: what a local id delivered
  ever,      \* observation: contents the archive has ever had
  suspect,   \* observation: contents the archive has lost
  meddled,   \* observation: a button reopened rows under a run in progress
  left       \* what is left of each bound

store  == <<held, purged, mapping>>
seen   == <<ever, suspect, meddled>>
vars   == <<queue, photo, ticked, run, pairing, store, seen, left>>

-----------------------------------------------------------------------------
Item    == Library \cup Shared
Version == 0..MaxVersion
Content == Item \X Version

\* Every other edit of a photograph keeps its length.
Length(v) == (v + 1) \div 2

State == {"pending", "unknown", "hashed", "want", "done", "failed"}
Retryable == {"pending", "unknown", "hashed", "want"}

Row == [item : Item, state : State, md5 : Version \cup {None},
        asset : Version \cup {None}, attempts : Nat, due : BOOLEAN, modified : Version]

\* The rows a step of a run is handed.
Live == {r \in Row : r.state \in Retryable}

Latest(i) == IF i \in Library THEN photo[i] ELSE 0

NewRow(i) == [item |-> i, state |-> "pending", md5 |-> None, asset |-> None,
              attempts |-> 0, due |-> TRUE, modified |-> Latest(i)]

\* The run loop of a run that has not begun, and of one that has ended.
NoRun == [pc |-> "idle", who |-> "nobody", device |-> 0, stop |-> FALSE,
          open |-> FALSE, albums |-> {}, batch |-> {}, digest |-> FALSE,
          todo |-> {}, hashing |-> {}, crew |-> {}, refused |-> FALSE]

Running(n) == run[n].pc \notin {"idle", "over"}

\* Mutant: nobody asks for the lock.
HolderUnseen == {}

\* exclusive.ts: a run holds the lock from before it is built until it unwinds.
Holder == {run[n].who : n \in {m \in Run : Running(m)}}

Spend(kind) == left[kind] > 0 /\ left' = [left EXCEPT ![kind] = @ - 1]

-----------------------------------------------------------------------------
(* The queue's statements.                                                 *)

\* A row that is no longer there is not written.
Update(i, Patch(_)) ==
  queue' = {IF r.item = i THEN Patch(r) ELSE r : r \in queue}

Settled(r, state) == [r EXCEPT !.state = state, !.attempts = 0, !.due = TRUE]

\* penalize, of the row as it was read.
Penalized(r, attempts) ==
  LET parked == attempts >= MaxAttempts
  IN [r EXCEPT !.attempts = attempts, !.due = parked,
               !.state = IF parked THEN "failed" ELSE @]

Penalize(row) == Update(row.item, LAMBDA r : Penalized(r, row.attempts + 1))

\* What a 401, a dead connection, a 5xx and anything else cost the rows.
Kind == {"unreachable", "server", "item"}

\* Mutant: an outage is charged to the batch it met.
ChargeAlways(kind, rows) ==
  queue' = {LET of == {b \in rows : b.item = r.item}
            IN IF of = {} THEN r
               ELSE Penalized(r, (CHOOSE b \in of : TRUE).attempts + 1) : r \in queue}

Charge(kind, rows) ==
  queue' = {LET of == {b \in rows : b.item = r.item}
            IN IF kind = "unreachable" \/ of = {} THEN r
               ELSE Penalized(r, (CHOOSE b \in of : TRUE).attempts + 1) : r \in queue}

Trips(kind) == kind \in {"unreachable", "server"}

Due(state) == {r \in queue : r.state = state /\ r.due}

\* Up to n of a set, whichever are the newest.
UpTo(n, S) ==
  {B \in SUBSET S : Cardinality(B) = IF Cardinality(S) < n THEN Cardinality(S) ELSE n}

\* Mutant: a finished row is not reopened.
ReopenedFailed(state) ==
  {IF r.state # state \/ state = "done" THEN r
   ELSE Settled(r, IF r.md5 = None THEN "pending" ELSE "hashed") : r \in queue}

\* Back to where the work that is left begins: the digest is kept.
Reopened(state) ==
  {IF r.state # state THEN r
   ELSE [Settled(r, IF r.md5 = None THEN "pending" ELSE "hashed")
           EXCEPT !.asset = IF state = "done" THEN None ELSE @] : r \in queue}

-----------------------------------------------------------------------------
(* A run: started from the Backup tab or by iOS, one at a time.            *)

Start(n, who) ==
  /\ run[n].pc = "idle" /\ \A m \in Run : m < n => run[m].pc # "idle"
  /\ Holder = {} /\ pairing.paired
  /\ run' = [run EXCEPT ![n].pc = "enumerate", ![n].who = who,
                        ![n].device = pairing.device, ![n].albums = ticked]
  /\ UNCHANGED <<queue, photo, ticked, pairing, store, seen, left>>

\* enumerate(): the camera roll, and the ticked albums as iCloud shows them now.
\* Photographs are taken out of them, and a lookup that blew up shows none.
Offers(n) == {Library \cup shown : shown \in SUBSET run[n].albums}

\* What is in the queue already keeps the state it has reached.
Enqueued(offered) == queue \cup {NewRow(i) : i \in offered \ {r.item : r \in queue}}

\* Mutant: what the albums no longer offer stays in the queue.
KeepShared(rows, offered) == rows

\* Shared photographs no longer offered leave it, unless they are done.
PruneShared(rows, offered) ==
  {r \in rows : r.item \in Library \cup offered \/ r.state = "done"}

\* Mutant: `insert` for `insert or ignore`.
EnumerateAgain(n) ==
  /\ run[n].pc = "enumerate"
  /\ \E offered \in Offers(n) :
       queue' = PruneShared(queue \cup {NewRow(i) : i \in offered}, offered)
  /\ run' = [run EXCEPT ![n].pc = "look"]
  /\ meddled' = FALSE
  /\ UNCHANGED <<photo, ticked, pairing, store, ever, suspect, left>>

Enumerate(n) ==
  /\ run[n].pc = "enumerate"
  /\ \E offered \in Offers(n) : queue' = PruneShared(Enqueued(offered), offered)
  /\ run' = [run EXCEPT ![n].pc = "look"]
  /\ meddled' = FALSE
  /\ UNCHANGED <<photo, ticked, pairing, store, ever, suspect, left>>

Over == [NoRun EXCEPT !.pc = "over"]

\* run() returned, and what it was started from let go of the lock.
End(n) == run' = [run EXCEPT ![n] = Over]

\* run() threw a 401: the Backup tab drops the credential, the background
\* window leaves it to the Backup tab.  Uploads still going are not waited for.
Unwind(n, r) ==
  /\ run' = [run EXCEPT ![n] = IF r.crew = {} THEN Over
                               ELSE [r EXCEPT !.pc = "over", !.batch = {}]]
  /\ pairing' = [pairing EXCEPT !.paired = @ /\ r.who # "foreground"]

Stop(n) ==
  /\ Running(n) /\ ~run[n].stop
  /\ Spend("wishes")
  /\ run' = [run EXCEPT ![n].stop = TRUE]
  /\ UNCHANGED <<queue, photo, ticked, pairing, store, seen>>

Stopped(n) ==
  /\ run[n].pc = "look" /\ run[n].stop
  /\ End(n)
  /\ UNCHANGED <<queue, photo, ticked, pairing, store, seen, left>>

\* The breaker's delay has passed.
Lapse(n) ==
  /\ run[n].open
  /\ run' = [run EXCEPT ![n].open = FALSE]
  /\ UNCHANGED <<queue, photo, ticked, pairing, store, seen, left>>

Looking(n) == run[n].pc = "look" /\ ~run[n].stop /\ ~run[n].open

\* step() found nothing due: drain() asks when something will be.
Idle(n) ==
  /\ Looking(n) /\ \A s \in Retryable : Due(s) = {}
  /\ run' = [run EXCEPT ![n].pc = "rest"]
  /\ UNCHANGED <<queue, photo, ticked, pairing, store, seen, left>>

Waiting == {r \in queue : r.state \in Retryable}

\* Nothing will, or something already is: it ends rather than spin.
Rest(n) ==
  /\ run[n].pc = "rest" /\ (Waiting = {} \/ \E r \in Waiting : r.due)
  /\ End(n)
  /\ UNCHANGED <<queue, photo, ticked, pairing, store, seen, left>>

Sleep(n) ==
  /\ run[n].pc = "rest" /\ Waiting # {} /\ \A r \in Waiting : ~r.due
  /\ run' = [run EXCEPT ![n].pc = "asleep"]
  /\ UNCHANGED <<queue, photo, ticked, pairing, store, seen, left>>

Wake(n) ==
  /\ run[n].pc = "asleep" /\ (Waiting = {} \/ \E r \in Waiting : r.due)
  /\ run' = [run EXCEPT ![n].pc = "look"]
  /\ UNCHANGED <<queue, photo, ticked, pairing, store, seen, left>>

ComesDue(r) ==
  /\ r \in Waiting /\ ~r.due
  /\ Update(r.item, LAMBDA q : [q EXCEPT !.due = TRUE])
  /\ UNCHANGED <<photo, ticked, run, pairing, store, seen, left>>

-----------------------------------------------------------------------------
(* A round of sync/check.                                                  *)

CheckRound(n, digest) ==
  LET rows == Due(IF digest THEN "hashed" ELSE "pending")
  IN /\ Looking(n) /\ rows # {} /\ (digest => Due("pending") = {})
     /\ \E B \in UpTo(CheckBatch, rows) :
          run' = [run EXCEPT ![n].pc = "check", ![n].digest = digest, ![n].batch = B]
     /\ UNCHANGED <<queue, photo, ticked, pairing, store, seen, left>>

\* The archive takes the token, and it is the token of the device the run names.
Honoured(n) == pairing.paired /\ pairing.good /\ run[n].device = pairing.device

NoMapping == [asset |-> None, modified |-> 0]

Known(r) == mapping[r.item] # NoMapping /\ mapping[r.item].modified = r.modified

Matched(r, digest) == ~Known(r) /\ digest /\ <<r.item, r.md5>> \in held

Answer(r, digest) ==
  CASE Known(r)              -> [status |-> "have", asset |-> mapping[r.item].asset]
    [] ~Known(r) /\ ~digest  -> [status |-> "unknown", asset |-> None]
    [] Matched(r, digest)    -> [status |-> "have", asset |-> r.md5]
    [] OTHER -> [status |-> IF <<r.item, r.md5>> \in purged THEN "have" ELSE "want",
                 asset |-> None]

\* What matched by content is mapped, so that the next run is answered without.
Learn(rows, digest) ==
  mapping' = [i \in Item |->
    IF \E r \in rows : r.item = i /\ Matched(r, digest)
    THEN LET r == CHOOSE r \in rows : r.item = i /\ Matched(r, digest)
         IN [asset |-> r.md5, modified |-> r.modified]
    ELSE mapping[i]]

\* The archive answers; the answer arrives, or the connection is gone.
AnswerCheck(n) ==
  LET r == run[n]
  IN /\ r.pc = "check" /\ Honoured(n)
     /\ Learn(r.batch, r.digest)
     /\ \/ /\ run' = [run EXCEPT
                ![n].pc = "apply",
                ![n].batch = {[row |-> b, answer |-> Answer(b, r.digest)] : b \in r.batch}]
           /\ UNCHANGED left
        \/ /\ Spend("outages")
           /\ run' = [run EXCEPT ![n].pc = "look", ![n].batch = {}, ![n].open = TRUE]
     /\ UNCHANGED <<queue, photo, ticked, pairing, held, purged, seen>>

Cost(kind) == IF kind = "unreachable" THEN "outages" ELSE "faults"

CheckFails(n, kind) ==
  /\ run[n].pc = "check"
  /\ Spend(Cost(kind))
  /\ Charge(kind, run[n].batch)
  /\ run' = [run EXCEPT ![n].pc = "look", ![n].batch = {}, ![n].open = Trips(kind)]
  /\ UNCHANGED <<photo, ticked, pairing, store, seen>>

CheckRefused(n) ==
  /\ run[n].pc = "check" /\ ~Honoured(n)
  /\ Unwind(n, run[n])
  /\ UNCHANGED <<queue, photo, ticked, store, seen, left>>

\* One row of the answer.  A shared photograph skips hashing: there is nothing
\* on this phone to hash.
Apply(n) ==
  /\ run[n].pc = "apply"
  /\ \E a \in run[n].batch :
       /\ Update(a.row.item, LAMBDA r :
            CASE a.answer.status = "have" ->
                   [Settled(r, "done") EXCEPT !.asset = a.answer.asset]
              [] a.answer.status = "want" -> Settled(r, "want")
              [] a.answer.status = "unknown" ->
                   Settled(r, IF r.item \in Shared THEN "want" ELSE "unknown"))
       /\ run' = [run EXCEPT
            ![n].batch = @ \ {a},
            ![n].pc = IF run[n].batch = {a} THEN "look" ELSE "apply"]
  /\ UNCHANGED <<photo, ticked, pairing, store, seen, left>>

-----------------------------------------------------------------------------
(* Hashing, and uploading beside it.                                       *)

Taken(r) == [row |-> r, md5 |-> None, stage |-> "open"]

Work(n) ==
  /\ Looking(n) /\ Due("pending") \cup Due("hashed") = {}
  /\ Due("want") \cup Due("unknown") # {}
  /\ \E W \in UpTo(4 * UploadConcurrency, Due("want")),
        H \in UpTo(HashBatch, Due("unknown")) :
       \E first \in UpTo(UploadConcurrency, W) :
         run' = [run EXCEPT ![n].pc = "work", ![n].hashing = H, ![n].todo = W \ first,
                            ![n].crew = {Taken(r) : r \in first}]
  /\ UNCHANGED <<queue, photo, ticked, pairing, store, seen, left>>

Hash(n, r) ==
  /\ r \in run[n].hashing /\ ~run[n].stop
  /\ run' = [run EXCEPT ![n].hashing = @ \ {r}]
  /\ \/ /\ Update(r.item, LAMBDA q : [Settled(q, "hashed") EXCEPT !.md5 = Latest(r.item)])
        /\ UNCHANGED left
     \/ Spend("faults") /\ Penalize(r)
  /\ UNCHANGED <<photo, ticked, pairing, store, seen>>

HashStops(n) ==
  /\ run[n].hashing # {} /\ run[n].stop
  /\ run' = [run EXCEPT ![n].hashing = {}]
  /\ UNCHANGED <<queue, photo, ticked, pairing, store, seen, left>>

\* A worker is done with u, and takes the next row unless the run is stopping,
\* the breaker is open or there is none; then it is gone for this batch.
Free(n, u, open) ==
  LET r    == run[n]
      rest == [r EXCEPT !.open = open, !.crew = @ \ {u}]
  IN IF r.stop \/ open \/ r.todo = {}
     THEN run' = [run EXCEPT ![n] = rest]
     ELSE \E s \in r.todo :
            run' = [run EXCEPT ![n] = [rest EXCEPT !.todo = @ \ {s},
                                                   !.crew = @ \cup {Taken(s)}]]

Becomes(n, u, v) == run' = [run EXCEPT ![n].crew = (@ \ {u}) \cup {v}]

\* The original is opened: a row without a digest, or one whose original changed
\* length since it was hashed, goes back to be hashed.
Open(n, u) ==
  LET i == u.row.item
      md5 == IF i \in Shared THEN Latest(i) ELSE u.row.md5
  IN /\ u \in run[n].crew /\ u.stage = "open"
     /\ CASE md5 = None ->
               /\ Update(i, LAMBDA r : [r EXCEPT !.state = "unknown", !.due = TRUE])
               /\ Free(n, u, run[n].open)
          [] md5 # None /\ Length(Latest(i)) # Length(md5) ->
               /\ Update(i, LAMBDA r : [Settled(r, "unknown") EXCEPT !.md5 = None])
               /\ Free(n, u, run[n].open)
          [] OTHER -> Becomes(n, u, [u EXCEPT !.md5 = md5, !.stage = "send"])
                      /\ UNCHANGED queue
     /\ UNCHANGED <<photo, ticked, pairing, store, seen, left>>

OpenFails(n, u) ==
  /\ u \in run[n].crew /\ u.stage = "open"
  /\ u.row.item \in Shared \/ u.row.md5 # None
  /\ Spend("faults") /\ Penalize(u.row) /\ Free(n, u, run[n].open)
  /\ UNCHANGED <<photo, ticked, pairing, store, seen>>

\* The bytes are read as they are sent; the archive keeps them if they are the
\* content that was declared.  It does not ask whether it purged them.
Deliver(n, u) ==
  LET i == u.row.item
      c == <<i, u.md5>>
  IN /\ u \in run[n].crew /\ u.stage = "send" /\ Honoured(n)
     /\ IF Latest(i) = u.md5
        THEN /\ held' = held \cup {c} /\ ever' = ever \cup {c}
             /\ mapping' = [mapping EXCEPT ![i] = [asset |-> u.md5,
                                                   modified |-> u.row.modified]]
             /\ suspect' = suspect \ {c}
             /\ Becomes(n, u, [u EXCEPT !.stage = "acked"])
        ELSE /\ Becomes(n, u, [u EXCEPT !.stage = "refused"])
             /\ UNCHANGED <<held, ever, mapping, suspect>>
     /\ UNCHANGED <<queue, photo, ticked, pairing, purged, meddled, left>>

\* Mutant: the row is marked done as soon as the bytes are under way.
AckedEarly(n, u) ==
  /\ u \in run[n].crew /\ u.stage \in {"send", "acked"}
  /\ Update(u.row.item, LAMBDA r :
       [Settled(r, "done") EXCEPT !.asset = u.md5, !.md5 = u.md5])
  /\ Free(n, u, FALSE)
  /\ UNCHANGED <<photo, ticked, pairing, store, seen, left>>

\* The row is marked done only now, with what was sent.
Acked(n, u) ==
  /\ u \in run[n].crew /\ u.stage = "acked"
  /\ Update(u.row.item, LAMBDA r :
       [Settled(r, "done") EXCEPT !.asset = u.md5, !.md5 = u.md5])
  /\ Free(n, u, FALSE)
  /\ UNCHANGED <<photo, ticked, pairing, store, seen, left>>

\* 422: the bytes are not the content that was declared.
Refused(n, u) ==
  /\ u \in run[n].crew /\ u.stage = "refused"
  /\ Penalize(u.row) /\ Free(n, u, run[n].open)
  /\ UNCHANGED <<photo, ticked, pairing, store, seen, left>>

\* Any other answer, or none: before the archive kept the bytes or after.
SendFails(n, u, kind) ==
  /\ u \in run[n].crew /\ u.stage \in {"send", "acked"}
  /\ Spend(Cost(kind))
  /\ IF kind = "unreachable" THEN UNCHANGED queue ELSE Penalize(u.row)
  /\ Free(n, u, run[n].open \/ Trips(kind))
  /\ UNCHANGED <<photo, ticked, pairing, store, seen>>

\* A 401 ends the worker, and is what the batch will end with.
Denied(n, u) ==
  /\ u \in run[n].crew /\ u.stage = "send" /\ ~Honoured(n)
  /\ run' = [run EXCEPT ![n].crew = @ \ {u}, ![n].refused = TRUE]
  /\ UNCHANGED <<queue, photo, ticked, pairing, store, seen, left>>

\* Mutant: the uploading half is over when every row of its batch was taken.
EndWorkDrained(n) ==
  LET r == run[n]
  IN /\ r.pc = "work" /\ r.hashing = {} /\ r.todo = {} /\ (r.crew = {} \/ r.refused)
     /\ IF r.refused
        THEN Unwind(n, r)
        ELSE run' = [run EXCEPT ![n].pc = "look", ![n].todo = {}] /\ UNCHANGED pairing
     /\ UNCHANGED <<queue, photo, ticked, store, seen, left>>

\* Both halves of a step are over.  The uploading half is over as soon as one of
\* its workers threw.
EndWork(n) ==
  LET r == run[n]
  IN /\ r.pc = "work" /\ r.hashing = {} /\ (r.crew = {} \/ r.refused)
     /\ IF r.refused
        THEN Unwind(n, r)
        ELSE run' = [run EXCEPT ![n].pc = "look", ![n].todo = {}] /\ UNCHANGED pairing
     /\ UNCHANGED <<queue, photo, ticked, store, seen, left>>

-----------------------------------------------------------------------------
(* The buttons, which are dead only while the Backup tab's own run is on.  *)

Press ==
  /\ "foreground" \notin Holder
  /\ Spend("wishes")
  /\ meddled' = (meddled \/ Holder # {})
  /\ UNCHANGED <<photo, run, pairing, store, ever>>

\* What a run has been told the archive has and has not written yet.
Told == {<<u.row.item, u.md5>> : u \in {v \in UNION {run[n].crew : n \in Run} :
                                         v.stage = "acked"}}
        \cup {<<a.row.item, a.answer.asset>> :
                a \in {b \in UNION {run[n].batch : n \in {m \in Run : run[m].pc = "apply"}} :
                        b.answer.status = "have"}}

RetryFailed ==
  /\ Press /\ queue' = Reopened("failed")
  /\ UNCHANGED <<ticked, suspect>>

Recheck ==
  /\ Press /\ queue' = Reopened("done")
  /\ suspect' = suspect \ ({<<r.item, r.asset>> : r \in {q \in queue : q.state = "done"}}
                            \ Told)
  /\ UNCHANGED ticked

ForgetShared ==
  /\ Press /\ queue' = {r \in queue : r.item \notin Shared}
  /\ UNCHANGED <<ticked, suspect>>

Toggle(i) ==
  /\ Spend("wishes")
  /\ ticked' = IF i \in ticked THEN ticked \ {i} ELSE ticked \cup {i}
  /\ UNCHANGED <<queue, photo, run, pairing, store, seen>>

-----------------------------------------------------------------------------
(* What happens around them.                                               *)

Edit(i) ==
  /\ photo[i] < MaxVersion
  /\ photo' = [photo EXCEPT ![i] = @ + 1]
  /\ UNCHANGED <<queue, ticked, run, pairing, store, seen, left>>

\* The app is gone, and every run in it.
Kill ==
  /\ \E n \in Run : Running(n) \/ run[n].crew # {}
  /\ Spend("upheavals")
  /\ run' = [n \in Run |-> IF run[n].pc = "idle" THEN run[n] ELSE Over]
  /\ UNCHANGED <<queue, photo, ticked, pairing, store, seen>>

Revoke ==
  /\ pairing.good /\ Spend("upheavals")
  /\ pairing' = [pairing EXCEPT !.good = FALSE]
  /\ UNCHANGED <<queue, photo, ticked, run, store, seen>>

\* A code redeemed makes a new device, which has delivered nothing.
Pair ==
  /\ ~pairing.paired
  /\ pairing' = [device |-> pairing.device + 1, paired |-> TRUE, good |-> TRUE]
  /\ mapping' = [i \in Item |-> NoMapping]
  /\ UNCHANGED <<queue, photo, ticked, run, held, purged, seen, left>>

\* The archive no longer has a content, nor the mappings to it.
Gone(c) ==
  /\ c \in held /\ held' = held \ {c}
  /\ mapping' = [mapping EXCEPT ![c[1]] = IF @.asset = c[2] THEN NoMapping ELSE @]
  /\ UNCHANGED <<queue, photo, ticked, run, pairing>>

Purge(c) ==
  /\ Gone(c) /\ Spend("upheavals")
  /\ purged' = purged \cup {c}
  /\ UNCHANGED seen

Lose(c) ==
  /\ Gone(c) /\ Spend("upheavals")
  /\ suspect' = suspect \cup {c}
  /\ UNCHANGED <<purged, ever, meddled>>

-----------------------------------------------------------------------------
Init ==
  /\ queue = {}
  /\ photo = [i \in Library |-> 0]
  /\ ticked \in SUBSET Shared
  /\ run = [n \in Run |-> NoRun]
  /\ pairing = [device |-> 1, paired |-> TRUE, good |-> TRUE]
  /\ held = {} /\ purged = {} /\ mapping = [i \in Item |-> NoMapping]
  /\ ever = {} /\ suspect = {} /\ meddled = FALSE
  /\ left = [outages |-> MaxOutages, faults |-> MaxFaults, wishes |-> MaxWishes,
             upheavals |-> MaxUpheavals]

Upload(n, u) ==
  \/ Open(n, u) \/ Deliver(n, u) \/ Acked(n, u) \/ Refused(n, u) \/ Denied(n, u)

\* What the event loop, the timers and the network do to a run on their own.
Progress(n) ==
  \/ Enumerate(n) \/ Stopped(n) \/ Lapse(n) \/ Idle(n) \/ Rest(n) \/ Sleep(n) \/ Wake(n)
  \/ \E digest \in BOOLEAN : CheckRound(n, digest)
  \/ AnswerCheck(n) \/ CheckRefused(n) \/ Apply(n) \/ Work(n)
  \/ \E r \in run[n].hashing : Hash(n, r)
  \/ HashStops(n) \/ EndWork(n)
  \/ \E u \in run[n].crew : Upload(n, u)

Trouble(n) ==
  \/ \E kind \in Kind : CheckFails(n, kind)
  \/ \E u \in run[n].crew : OpenFails(n, u)
  \/ \E u \in run[n].crew, kind \in Kind : SendFails(n, u, kind)

Screen ==
  \/ \E n \in Run, who \in {"foreground", "background"} : Start(n, who)
  \/ \E n \in Run : Stop(n)
  \/ RetryFailed \/ Recheck \/ ForgetShared \/ (\E i \in Shared : Toggle(i)) \/ Pair

World ==
  \/ \E r \in queue : ComesDue(r)
  \/ \E i \in Library : Edit(i)
  \/ Kill \/ Revoke
  \/ \E c \in held : Purge(c) \/ Lose(c)

Next == (\E n \in Run : Progress(n) \/ Trouble(n)) \/ Screen \/ World

Spec == Init /\ [][Next]_vars

\* The event loop takes its turns, timers fire, and a request is answered or
\* times out.  What an operator, the user or iOS does need not happen.
Fairness ==
  /\ \A n \in Run : WF_vars(Progress(n))
  /\ WF_vars(\E r \in queue : ComesDue(r))

FairSpec == Spec /\ Fairness

-----------------------------------------------------------------------------
(* Properties.                                                             *)

Handled(n) == run[n].todo \cup run[n].hashing \cup {u.row : u \in run[n].crew}
              \cup (IF run[n].pc = "check" THEN run[n].batch
                    ELSE {a.row : a \in run[n].batch})

Answered == [row : Live, answer : [status : {"have", "unknown", "want"},
                                   asset : Version \cup {None}]]

\* An upload past the opening has a digest.
Uploading == {u \in [row : Live, md5 : Version \cup {None},
                      stage : {"open", "send", "acked", "refused"}] :
                u.stage # "open" => u.md5 \in Version}

RunState == [pc : {"idle", "enumerate", "look", "rest", "asleep", "check", "apply",
                   "work", "over"},
             who : {"nobody", "foreground", "background"},
             device : Nat, stop : BOOLEAN, open : BOOLEAN, digest : BOOLEAN,
             refused : BOOLEAN, albums : SUBSET Shared, batch : SUBSET (Live \cup Answered),
             todo : SUBSET Live, hashing : SUBSET Live, crew : SUBSET Uploading]

\* Every variable has its type: a batch is of rows until it is answered, and the
\* queue has one row for an item.
TypeOK ==
  /\ queue \subseteq Row
  /\ \A r, q \in queue : r.item = q.item => r = q
  /\ photo \in [Library -> Version] /\ ticked \subseteq Shared
  /\ run \in [Run -> RunState]
  /\ \A n \in Run :
       run[n].batch \subseteq IF run[n].pc = "check" THEN Live
                             ELSE IF run[n].pc = "apply" THEN Answered ELSE {}
  /\ pairing \in [device : Nat, paired : BOOLEAN, good : BOOLEAN]
  /\ held \subseteq Content /\ purged \subseteq Content
  /\ mapping \in [Item -> [asset : Version \cup {None}, modified : Version]]
  /\ ever \subseteq Content /\ suspect \subseteq Content /\ meddled \in BOOLEAN
  /\ left \in [{"outages", "faults", "wishes", "upheavals"} -> Nat]

\* "An item is only marked done once the server has acked it" (engine.ts), or said
\* it has it: a row that is done names a content that was in the archive, or is of
\* a photograph the archive will not take again because it was deleted for good.
DoneWasArchived ==
  \A r \in queue : r.state = "done" =>
    IF r.asset # None THEN <<r.item, r.asset>> \in ever
                      ELSE \E v \in Version : <<r.item, v>> \in purged

\* What the phone tells its owner is safe.
claimed == {<<r.item, r.asset>> : r \in {q \in queue : q.state = "done" /\ q.asset # None}}

Owner == INSTANCE Custody WITH kept <- ever, claims <- claimed

\* The phone tells its owner a photograph is safe only of a content that has been
\* in the archive (Custody): from every row's claim, through every answer lost,
\* run killed and row reopened.
ClaimsOnlyKept == Owner!Spec

\* What Recheck is for: a row is wrong about the archive only where the archive
\* lost the content after the row was last settled against it, or after it gave an
\* answer that was still to be written when Recheck was pressed.
DoneIsTrue ==
  \A r \in queue :
    r.state = "done" /\ r.asset # None
      => <<r.item, r.asset>> \in held \cup purged \cup suspect

\* backoff.ts: a server outage is never charged to the items, nor is a revoked
\* token: no attempt is spent until an item or an answer is at fault.
OutageCostsNothing ==
  left.faults = MaxFaults /\ (\A i \in Library : photo[i] = 0)
    => \A r \in queue : r.attempts = 0 /\ r.state # "failed"

\* The ticked albums are what a run is for (background/run.ts): whatever earlier
\* runs left in the queue, no other shared photograph is fetched -- unless rows
\* were reopened under the run.
OnlyTickedIsFetched ==
  \A n \in Run : Running(n) /\ ~meddled
    => \A r \in Handled(n) : r.item \in Shared /\ r.state = "want"
         => r.item \in run[n].albums

\* exclusive.ts, and why the engine needs no locks: a row it works from is the
\* row in the queue, or has been deleted -- unless an earlier run unwound and left
\* an upload writing.
NoStaleRow ==
  (\A n \in Run : ~run[n].refused \/ Running(n))
    => \A n \in Run : \A r \in Handled(n) :
         r \in queue \/ r.item \notin {q.item : q \in queue}

\* Every run ends, whatever fails in it, as long as failures do.
RunEnds == \A n \in Run : Running(n) ~> ~Running(n)
=============================================================================
