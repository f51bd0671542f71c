------------------------------ MODULE Sessions ------------------------------
(***************************************************************************)
(* Chunked upload sessions: the part file and the sidecar of an original   *)
(* on its way in, the handlers that write them, the sweep that removes     *)
(* them, and the client that resumes from whatever it is told is there.    *)
(*                                                                         *)
(* Nothing is locked.  A handler works on paths between the steps modelled *)
(* here, except while it copies a chunk: then it holds a descriptor, which *)
(* follows the file through a rename.  An original is Size units, of which *)
(* a chunk has up to Chunk, so a chunk can arrive in part.  The session is *)
(* named after its content (uploads.ID), so one session stands for one     *)
(* original.  A client sends no more than the chunk it announces, so what  *)
(* Append does with a longer one is left out.  What finishUpload does once *)
(* the bytes are in the tree is the subject of Archive; here it answers or *)
(* fails.                                                                  *)
(***************************************************************************)
EXTENDS Naturals, Sequences

CONSTANTS
  Session,    \* ids, one for each declaration
  Request,    \* slots: requests photod can be handling at once
  Size,       \* units in an original
  Chunk,      \* units in a chunk
  NoFile,     \* no file at a path
  MaxFaults   \* bound: crashes, power losses, failing calls, clients cut off

ASSUME SessionAssumption ==
  /\ Size \in Nat \ {0} /\ Chunk \in Nat \ {0}
  /\ MaxFaults \in Nat

VARIABLES
  decl,     \* the sidecar: absent, unreadable, or a declaration
  file,     \* what is at a session's part path, and at its blob's
  old,      \* sessions not written to for longer than the TTL
  req,      \* each request, between two system calls
  sweep,    \* the sweep, between two system calls
  phone,    \* what the client knows of each upload
  crossed,  \* observation: sessions that had two requests at once
  swept,    \* observation: sessions the sweep has picked
  answered, \* observation: how far the chunks that were answered for have come
  faults    \* faults used, against MaxFaults

seen == <<crossed, swept, answered>>
vars == <<decl, file, old, req, sweep, phone, seen, faults>>

-----------------------------------------------------------------------------
Unit == 1..Size

\* data: the units in the order they were appended.  synced: how many of them
\* are on the platter.  cut: observation, the fsync that was to follow an append
\* failed or never came, and none has succeeded since.
File == [data : Seq(Unit), synced : Nat, cut : BOOLEAN]

ASSUME NoFileAssumption == NoFile \notin File

Empty == [data |-> <<>>, synced |-> 0, cut |-> FALSE]

Whole(data) == data = [k \in Unit |-> k]

\* The first n units are those of the original.
Holds(data, n) == Len(data) >= n /\ \A k \in 1..n : data[k] = k

Idle == [pc |-> "idle"]

\* at, end: the next unit to copy, and the last of the chunk.  fd: the path of
\* the file the request has open, if it still has one.  good: the digests
\* matched.  heard: the client is still waiting for the answer.
RequestState ==
  [pc : {"creating", "declaring", "writing", "touching",
         "chunk", "opening", "copying",
         "commit", "adopting", "stating", "renaming",
         "clearing", "forgetting", "finishing"},
   ses : Session, at : 0..Size, end : 0..Size,
   fd : {"none", "part", "blob", "gone"}, good : BOOLEAN, heard : BOOLEAN]

Away    == [pc |-> "away", at |-> 0]
Told(n) == [pc |-> "told", at |-> n]
Done    == [pc |-> "done", at |-> Size]

NoSweep == [pc |-> "idle"]

TypeOK ==
  /\ decl \in [Session -> {"none", "torn", "ok"}]
  /\ file \in [Session -> [part : File \cup {NoFile}, blob : File \cup {NoFile}]]
  /\ old \subseteq Session
  /\ req \in [Request -> RequestState \cup {Idle}]
  /\ sweep \in [pc : {"part", "meta"}, ses : Session] \cup {NoSweep}
  /\ phone \in [Session -> [pc : {"away", "told", "done"}, at : 0..Size]]
  /\ crossed \subseteq Session /\ swept \subseteq Session
  /\ answered \in [Session -> 0..Size]
  /\ faults \in 0..MaxFaults

Init ==
  /\ decl = [s \in Session |-> "none"]
  /\ file = [s \in Session |-> [part |-> NoFile, blob |-> NoFile]]
  /\ old = {}
  /\ req = [r \in Request |-> Idle]
  /\ sweep = NoSweep
  /\ phone = [s \in Session |-> Away]
  /\ crossed = {} /\ swept = {} /\ answered = [s \in Session |-> 0]
  /\ faults = 0

Fault == faults < MaxFaults /\ faults' = faults + 1

-----------------------------------------------------------------------------
(* Files and descriptors.                                                  *)

\* Get's offset: the size of the part file, 0 when there is none.
Received(s) == IF file[s].part = NoFile THEN 0 ELSE Len(file[s].part.data)

Active(s) == {r \in Request : req[r] # Idle /\ req[r].ses = s}

\* Where an open file is found after a rename to the blob's path, and after the
\* removal of the part path.
Renamed == [none |-> "none", part |-> "blob", blob |-> "gone", gone |-> "gone"]
Removed == [none |-> "none", part |-> "gone", blob |-> "blob", gone |-> "gone"]

Followed(s, moves) ==
  [r \in Request |-> IF r \in Active(s) THEN [req[r] EXCEPT !.fd = moves[@]] ELSE req[r]]

\* os.OpenFile with O_CREATE: what is there stays.
Created(s) ==
  IF file[s].part = NoFile THEN [file EXCEPT ![s].part = Empty] ELSE file

Touched(s) == IF file[s].part = NoFile THEN old \ {s} ELSE old

-----------------------------------------------------------------------------
(* Requests and their answers.                                             *)

At(r, pc) == req[r] # Idle /\ req[r].pc = pc

To(r, pc) == req' = [req EXCEPT ![r].pc = pc]

\* The handler returns; the client learns it if it is still there.
Return(r, news) ==
  /\ req' = [req EXCEPT ![r] = Idle]
  /\ phone' = IF req[r].heard THEN [phone EXCEPT ![req[r].ses] = news] ELSE phone

Send(r, s, pc, at, end) ==
  /\ req[r] = Idle
  /\ \A q \in Active(s) : ~req[q].heard
  /\ req' = [req EXCEPT ![r] =
       [pc |-> pc, ses |-> s, at |-> at, end |-> end,
        fd |-> "none", good |-> FALSE, heard |-> TRUE]]
  /\ crossed' = IF Active(s) # {} THEN crossed \cup {s} ELSE crossed
  /\ UNCHANGED <<decl, file, old, sweep, phone, swept, answered, faults>>

\* A client that knows nothing asks; one that was told an offset sends the
\* chunk that starts there, or the commit when nothing is owed.
SendCreate(r, s) == phone[s].pc = "away" /\ Send(r, s, "creating", 0, 0)

\* Mutant: planChunks lets the last range run past the end.
SendChunkUnclamped(r, s) ==
  /\ phone[s].pc = "told" /\ phone[s].at < Size
  /\ Send(r, s, "chunk", phone[s].at, phone[s].at + Chunk)

SendChunk(r, s) ==
  /\ phone[s].pc = "told" /\ phone[s].at < Size
  /\ LET rest == Size - phone[s].at IN
     Send(r, s, "chunk", phone[s].at,
          phone[s].at + IF rest < Chunk THEN rest ELSE Chunk)

SendCommit(r, s) ==
  phone[s].pc = "told" /\ phone[s].at = Size /\ Send(r, s, "commit", Size, Size)

-----------------------------------------------------------------------------
(* Create.                                                                 *)

\* The session is there.  An offset past the end is refused by planChunks.
CreateResumes(r) ==
  LET s == req[r].ses IN
  /\ At(r, "creating") /\ decl[s] = "ok"
  /\ Return(r, IF Received(s) <= Size THEN Told(Received(s)) ELSE Away)
  /\ UNCHANGED <<decl, file, old, sweep, seen, faults>>

CreateUnreadable(r) ==
  /\ At(r, "creating") /\ decl[req[r].ses] = "torn"
  /\ Return(r, Away)
  /\ UNCHANGED <<decl, file, old, sweep, seen, faults>>

CreateFindsNone(r) ==
  /\ At(r, "creating") /\ decl[req[r].ses] = "none"
  /\ To(r, "declaring")
  /\ UNCHANGED <<decl, file, old, sweep, phone, seen, faults>>

\* writeSync truncates the sidecar, and then writes it.
DeclTruncated(r) ==
  /\ At(r, "declaring")
  /\ decl' = [decl EXCEPT ![req[r].ses] = "torn"]
  /\ old' = old \ {req[r].ses}
  /\ To(r, "writing")
  /\ UNCHANGED <<file, sweep, phone, seen, faults>>

DeclWritten(r) ==
  /\ At(r, "writing")
  /\ decl' = [decl EXCEPT ![req[r].ses] = "ok"]
  /\ old' = old \ {req[r].ses}
  /\ To(r, "touching")
  /\ UNCHANGED <<file, sweep, phone, seen, faults>>

DeclFails(r) ==
  /\ At(r, "writing") /\ Fault
  /\ Return(r, Away)
  /\ UNCHANGED <<decl, file, old, sweep, seen>>

\* The answer says 0, whatever was there.
PartTouched(r) ==
  LET s == req[r].ses IN
  /\ At(r, "touching")
  /\ file' = Created(s) /\ old' = Touched(s)
  /\ Return(r, Told(0))
  /\ UNCHANGED <<decl, sweep, seen, faults>>

-----------------------------------------------------------------------------
(* Append.                                                                 *)

\* Get, and the comparison of its offset with the chunk's.
ChunkAccepted(r) ==
  LET s == req[r].ses IN
  /\ At(r, "chunk") /\ decl[s] = "ok" /\ Received(s) = req[r].at
  /\ To(r, "opening")
  /\ UNCHANGED <<decl, file, old, sweep, phone, seen, faults>>

\* 404, 500 or 409: each sends the client back to Create.
ChunkRefused(r) ==
  LET s == req[r].ses IN
  /\ At(r, "chunk") /\ (decl[s] # "ok" \/ Received(s) # req[r].at)
  /\ Return(r, Away)
  /\ UNCHANGED <<decl, file, old, sweep, seen, faults>>

ChunkOpens(r) ==
  LET s == req[r].ses IN
  /\ At(r, "opening")
  /\ file' = Created(s) /\ old' = Touched(s)
  /\ req' = [req EXCEPT ![r].pc = "copying", ![r].fd = "part"]
  /\ UNCHANGED <<decl, sweep, phone, seen, faults>>

\* O_APPEND: the next unit goes to the end of the open file, wherever that is.
ChunkCopies(r) ==
  LET s == req[r].ses  fd == req[r].fd IN
  /\ At(r, "copying") /\ req[r].at < req[r].end
  /\ file' = IF fd = "gone" THEN file
             ELSE [file EXCEPT ![s][fd].data = Append(@, req[r].at + 1)]
  /\ old' = IF fd = "part" THEN old \ {s} ELSE old
  /\ req' = [req EXCEPT ![r].at = @ + 1]
  /\ UNCHANGED <<decl, sweep, phone, seen, faults>>

Synced(r) ==
  LET s == req[r].ses  fd == req[r].fd IN
  IF fd = "gone" THEN file
  ELSE LET data == file[s][fd].data IN
       [file EXCEPT ![s][fd] = [data |-> data, synced |-> Len(data), cut |-> FALSE]]

\* The chunk is answered for: the bytes up to here need not be sent again.
Answered(r) ==
  answered' = [answered EXCEPT ![req[r].ses] = IF req[r].at > @ THEN req[r].at ELSE @]

\* Mutant: the answer goes out before the fsync.
ChunkSyncedLater(r) ==
  /\ At(r, "copying") /\ req[r].at = req[r].end
  /\ Return(r, Told(req[r].at)) /\ Answered(r)
  /\ UNCHANGED <<decl, file, old, sweep, crossed, swept, faults>>

\* The offset answered is the chunk's own count, not the file's size.
ChunkSynced(r) ==
  /\ At(r, "copying") /\ req[r].at = req[r].end
  /\ file' = Synced(r)
  /\ Return(r, Told(req[r].at)) /\ Answered(r)
  /\ UNCHANGED <<decl, old, sweep, crossed, swept, faults>>

\* The body ended early, or the disk is full: what came is kept.
ChunkInterrupted(r) ==
  /\ At(r, "copying") /\ req[r].at < req[r].end
  /\ IF req[r].heard THEN Fault ELSE UNCHANGED faults
  /\ file' = Synced(r)
  /\ Return(r, Away)
  /\ UNCHANGED <<decl, old, sweep, seen>>

ChunkSyncFails(r) ==
  LET s == req[r].ses  fd == req[r].fd IN
  /\ At(r, "copying") /\ Fault
  /\ req[r].at = req[r].end \/ ~req[r].heard
  /\ file' = IF fd = "gone" THEN file ELSE [file EXCEPT ![s][fd].cut = TRUE]
  /\ Return(r, Away)
  /\ UNCHANGED <<decl, old, sweep, seen>>

-----------------------------------------------------------------------------
(* Commit.                                                                 *)

CommitAccepted(r) ==
  LET s == req[r].ses IN
  /\ At(r, "commit") /\ decl[s] = "ok" /\ Received(s) = Size
  /\ To(r, "adopting")
  /\ UNCHANGED <<decl, file, old, sweep, phone, seen, faults>>

CommitRefused(r) ==
  LET s == req[r].ses IN
  /\ At(r, "commit") /\ (decl[s] # "ok" \/ Received(s) # Size)
  /\ Return(r, Away)
  /\ UNCHANGED <<decl, file, old, sweep, seen, faults>>

\* Mutant: the size is compared, and not the digest.
VerifiedSize(s) == Len(file[s].part.data) = Size

\* What Adopt asks of the file it has read.
Verified(s) == Whole(file[s].part.data)

AdoptReads(r) ==
  LET s == req[r].ses  good == Verified(s) IN
  /\ At(r, "adopting") /\ file[s].part # NoFile
  /\ req' = [req EXCEPT ![r].good = good,
                        ![r].pc = IF good THEN "stating" ELSE "clearing"]
  /\ UNCHANGED <<decl, file, old, sweep, phone, seen, faults>>

AdoptFindsNone(r) ==
  /\ At(r, "adopting") /\ file[req[r].ses].part = NoFile
  /\ Return(r, Away)
  /\ UNCHANGED <<decl, file, old, sweep, seen, faults>>

AdoptStats(r) ==
  /\ At(r, "stating") /\ file[req[r].ses].blob = NoFile
  /\ To(r, "renaming")
  /\ UNCHANGED <<decl, file, old, sweep, phone, seen, faults>>

\* Already archived: the staged copy is removed.
AdoptRedundant(r) ==
  LET s == req[r].ses IN
  /\ At(r, "stating") /\ file[s].blob # NoFile
  /\ file' = [file EXCEPT ![s].part = NoFile]
  /\ req' = [Followed(s, Removed) EXCEPT ![r].pc = "clearing"]
  /\ old' = old \ {s}
  /\ UNCHANGED <<decl, sweep, phone, seen, faults>>

\* By path: whatever is at the part's becomes the blob.
AdoptRenames(r) ==
  LET s == req[r].ses IN
  /\ At(r, "renaming") /\ file[s].part # NoFile
  /\ file' = [file EXCEPT ![s] = [part |-> NoFile, blob |-> file[s].part]]
  /\ req' = [Followed(s, Renamed) EXCEPT ![r].pc = "clearing"]
  /\ old' = old \ {s}
  /\ UNCHANGED <<decl, sweep, phone, seen, faults>>

AdoptFails(r) ==
  /\ At(r, "renaming") /\ file[req[r].ses].part = NoFile
  /\ Return(r, Away)
  /\ UNCHANGED <<decl, file, old, sweep, seen, faults>>

\* Mutant: a rejected part file stays.
ClearsAdopted(r) ==
  LET s == req[r].ses IN
  /\ At(r, "clearing")
  /\ IF req[r].good
     THEN /\ file' = [file EXCEPT ![s].part = NoFile] /\ old' = old \ {s}
          /\ req' = [Followed(s, Removed) EXCEPT ![r].pc = "forgetting"]
     ELSE UNCHANGED <<file, old>> /\ To(r, "forgetting")
  /\ UNCHANGED <<decl, sweep, phone, seen, faults>>

\* Discard, of a session committed or rejected: the part, then the sidecar.
Clears(r) ==
  LET s == req[r].ses IN
  /\ At(r, "clearing")
  /\ file' = [file EXCEPT ![s].part = NoFile]
  /\ req' = [Followed(s, Removed) EXCEPT ![r].pc = "forgetting"]
  /\ old' = old \ {s}
  /\ UNCHANGED <<decl, sweep, phone, seen, faults>>

Forgets(r) ==
  /\ At(r, "forgetting")
  /\ decl' = [decl EXCEPT ![req[r].ses] = "none"]
  /\ IF req[r].good THEN To(r, "finishing") /\ UNCHANGED phone ELSE Return(r, Away)
  /\ UNCHANGED <<file, old, sweep, seen, faults>>

Finishes(r) ==
  /\ At(r, "finishing")
  /\ Return(r, Done)
  /\ UNCHANGED <<decl, file, old, sweep, seen, faults>>

FinishFails(r) ==
  /\ At(r, "finishing") /\ Fault
  /\ Return(r, Away)
  /\ UNCHANGED <<decl, file, old, sweep, seen>>

-----------------------------------------------------------------------------
(* The sweep, and time.                                                    *)

Writing(s) == \E r \in Active(s) :
  req[r].pc \in {"declaring", "writing", "touching", "opening", "copying"}

\* Nobody writes for as long as the TTL.  A client that retries keeps its
\* session young, so one that is this long away is a fault; but no retry touches
\* a part that is longer than its original.
Ages(s) ==
  /\ s \notin old /\ file[s].part # NoFile /\ ~Writing(s)
  /\ IF Received(s) > Size THEN UNCHANGED faults ELSE Fault
  /\ old' = old \cup {s}
  /\ UNCHANGED <<decl, file, req, sweep, phone, seen>>

\* One entry of the directory.  Sidecars without a part are not looked at.
SweepPicks(s) ==
  /\ sweep = NoSweep /\ file[s].part # NoFile /\ s \in old
  /\ sweep' = [pc |-> "part", ses |-> s]
  /\ swept' = swept \cup {s}
  /\ UNCHANGED <<decl, file, old, req, phone, crossed, answered, faults>>

SweepsPart ==
  /\ sweep # NoSweep /\ sweep.pc = "part"
  /\ file' = [file EXCEPT ![sweep.ses].part = NoFile]
  /\ req' = Followed(sweep.ses, Removed)
  /\ old' = old \ {sweep.ses}
  /\ sweep' = [sweep EXCEPT !.pc = "meta"]
  /\ UNCHANGED <<decl, phone, seen, faults>>

SweepsMeta ==
  /\ sweep # NoSweep /\ sweep.pc = "meta"
  /\ decl' = [decl EXCEPT ![sweep.ses] = "none"]
  /\ sweep' = NoSweep
  /\ UNCHANGED <<file, old, req, phone, seen, faults>>

-----------------------------------------------------------------------------
(* What else happens.                                                      *)

Hearing(s) == \E r \in Active(s) : req[r].heard

\* The client gives up waiting, loses the connection, or is killed.
PhoneStops(s) ==
  /\ phone[s].pc = "told" \/ Hearing(s)
  /\ Fault
  /\ phone' = [phone EXCEPT ![s] = Away]
  /\ req' = [r \in Request |->
               IF r \in Active(s) THEN [req[r] EXCEPT !.heard = FALSE] ELSE req[r]]
  /\ UNCHANGED <<decl, file, old, sweep, seen>>

\* The kernel writes out a unit nobody waits for.
WrittenBack(s, path) ==
  /\ file[s][path] # NoFile /\ file[s][path].synced < Len(file[s][path].data)
  /\ file' = [file EXCEPT ![s][path].synced = @ + 1]
  /\ UNCHANGED <<decl, old, req, sweep, phone, seen, faults>>

Stopped ==
  /\ Fault
  /\ req' = [r \in Request |-> Idle]
  /\ sweep' = NoSweep
  /\ phone' = [s \in Session |-> IF Hearing(s) THEN Away ELSE phone[s]]
  /\ UNCHANGED <<decl, old, seen>>

\* An open file that was appended to and not synced, and will not be.
CutOff(s, path) ==
  \E r \in Active(s) : req[r].fd = path /\ file[s][path].synced < Len(file[s][path].data)

\* The process is gone and the page cache is not.
Killed ==
  LET Left(s, path) == IF CutOff(s, path) THEN [file[s][path] EXCEPT !.cut = TRUE]
                       ELSE file[s][path] IN
  /\ Stopped
  /\ file' = [s \in Session |-> [part |-> Left(s, "part"), blob |-> Left(s, "blob")]]

\* Both are gone.
PowerLoss ==
  LET Left(s, path) == IF file[s][path] = NoFile THEN NoFile
                       ELSE [file[s][path] EXCEPT !.data = SubSeq(@, 1, file[s][path].synced)] IN
  /\ Stopped
  /\ file' = [s \in Session |-> [part |-> Left(s, "part"), blob |-> Left(s, "blob")]]

-----------------------------------------------------------------------------
RequestStep(r) ==
  \/ CreateResumes(r) \/ CreateUnreadable(r) \/ CreateFindsNone(r)
  \/ DeclTruncated(r) \/ DeclWritten(r) \/ DeclFails(r) \/ PartTouched(r)
  \/ ChunkAccepted(r) \/ ChunkRefused(r) \/ ChunkOpens(r) \/ ChunkCopies(r)
  \/ ChunkSynced(r) \/ ChunkInterrupted(r) \/ ChunkSyncFails(r)
  \/ CommitAccepted(r) \/ CommitRefused(r)
  \/ AdoptReads(r) \/ AdoptFindsNone(r) \/ AdoptStats(r) \/ AdoptRedundant(r)
  \/ AdoptRenames(r) \/ AdoptFails(r)
  \/ Clears(r) \/ Forgets(r) \/ Finishes(r) \/ FinishFails(r)

Next ==
  \/ \E r \in Request : RequestStep(r)
  \/ \E r \in Request, s \in Session :
       SendCreate(r, s) \/ SendChunk(r, s) \/ SendCommit(r, s)
  \/ \E s \in Session : Ages(s) \/ SweepPicks(s) \/ PhoneStops(s)
  \/ SweepsPart \/ SweepsMeta
  \/ \E s \in Session, path \in {"part", "blob"} : WrittenBack(s, path)
  \/ Killed \/ PowerLoss

Spec == Init /\ [][Next]_vars

\* Handlers run, the sweep ticks, days pass, and the phone keeps trying.
Fairness ==
  /\ \A r \in Request : WF_vars(RequestStep(r))
  /\ \A s \in Session :
       /\ WF_vars(\E r \in Request :
                    SendCreate(r, s) \/ SendChunk(r, s) \/ SendCommit(r, s))
       /\ WF_vars(Ages(s) /\ Received(s) > Size)
       /\ WF_vars(SweepPicks(s))
  /\ WF_vars(SweepsPart \/ SweepsMeta)

FairSpec == Spec /\ Fairness

-----------------------------------------------------------------------------
(* Properties.                                                             *)

\* What a client was told is archived is in the tree, and is the original:
\* unless two requests were in its session at once, or an fsync was cut off.
\* Adopt verifies what it reads and renames what is at the path; this is that
\* nothing comes between (blobstore.Adopt, handleCommitUpload).
DoneIsWhole ==
  \A s \in Session \ crossed : phone[s].pc = "done" =>
    /\ file[s].blob # NoFile
    /\ Whole(file[s].blob.data) \/ file[s].blob.cut

\* An offset is a promise: the bytes before it need not be sent again
\* (uploads.go:7).  What Append has answered for is there, and is the original's,
\* through any crash and whatever is cut off later: in the part, or by then in
\* the blob.  Only a blob that was adopted when its last fsync was cut off may
\* lose its end.  What Create has read back (uploads.Get) is the size of the
\* file, and is there too, but for a file of which an fsync was cut off: the size
\* counts what was never synced.  Sessions that had two requests at once, or that
\* the sweep has picked, are promised nothing.
PromisesKept ==
  \A s \in Session \ (crossed \cup swept) :
    LET There(n, excused) == n > 0 =>
          \E path \in {"part", "blob"} :
            /\ file[s][path] # NoFile
            /\ \/ Holds(file[s][path].data, n)
               \/ path \in excused /\ file[s][path].cut IN
    /\ There(answered[s], {"blob"})
    /\ There(phone[s].at, {"part", "blob"})

\* Every upload is archived in the end, however often it is interrupted, and
\* whatever two requests did to the part: unless its sidecar is left unreadable.
Archived ==
  \A s \in Session : <>(phone[s].pc = "done") \/ <>[](decl[s] = "torn")

\* The sentence without the exception for two requests at once: what is stored
\* is immutable (blobstore.go:1).  Nothing in it is not the original's.
DoneIsImmutable ==
  \A s \in Session : phone[s].pc = "done" =>
    /\ file[s].blob # NoFile
    /\ LET data == file[s].blob.data IN \A k \in DOMAIN data : k <= Size /\ data[k] = k
=============================================================================
