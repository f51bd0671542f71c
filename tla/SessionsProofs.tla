--------------------------- MODULE SessionsProofs ---------------------------
(***************************************************************************)
(* What a client of the chunked uploads was told stays true, for any       *)
(* number of sessions, requests and faults, and an original of any size.   *)
(***************************************************************************)
EXTENDS Sessions, SequenceTheorems, TLAPS

Path == {"part", "blob"}

Paths == [part : File \cup {NoFile}, blob : File \cup {NoFile}]

Steps ==
  {"creating", "declaring", "writing", "touching", "chunk", "opening", "copying",
   "commit", "adopting", "stating", "renaming", "clearing", "forgetting", "finishing"}

\* The types of all but the last of the observations, which nothing else rests on.
Typing ==
  /\ decl \in [Session -> {"none", "torn", "ok"}]
  /\ file \in [Session -> [part : File \cup {NoFile}, blob : File \cup {NoFile}]]
  /\ old \subseteq Session
  /\ req \in [Request -> RequestState \cup {Idle}]
  /\ sweep \in [pc : {"part", "meta"}, ses : Session] \cup {NoSweep}
  /\ phone \in [Session -> [pc : {"away", "told", "done"}, at : 0..Size]]
  /\ crossed \subseteq Session /\ swept \subseteq Session
  /\ faults \in 0..MaxFaults

\* A client that knows nothing counts on nothing.
Phone == {p \in [pc : {"away", "told", "done"}, at : 0..Size] : p.pc = "away" => p.at = 0}

\* What is on the platter is a beginning of what was appended.
FilesOK ==
  \A s \in Session, p \in Path :
    file[s][p] # NoFile => file[s][p].synced <= Len(file[s][p].data)

\* A request has a file open while it copies, and only then; a descriptor that
\* is found at a path is of the file there.
OpenOK(h, files) ==
  h # Idle =>
    /\ h.at <= h.end
    /\ h.pc = "copying" <=> h.fd # "none"
    /\ h.fd \in Path => files[h.ses][h.fd] # NoFile

RequestsOK == \A r \in Request : OpenOK(req[r], file)

SweepOK == sweep # NoSweep => sweep.ses \in swept

Sound == Typing /\ FilesOK /\ RequestsOK /\ SweepOK /\ phone \in [Session -> Phone]

\* All of a file is on the platter, or an fsync of it was cut off.
Stable(f) == f.cut \/ f.synced = Len(f.data)

\* A commit renames what it has verified, and answers for what it has renamed.
CommitOK(h, at) ==
  /\ h.fd # "blob"
  /\ h.pc \in {"stating", "renaming"} =>
       h.good /\ (at.part # NoFile => Whole(at.part.data))
  /\ h.pc \in {"clearing", "forgetting", "finishing"} /\ h.good => at.blob # NoFile
  /\ h.pc = "finishing" => h.good

BlobOK(f) == f # NoFile => f.cut \/ (Whole(f.data) /\ f.synced = Len(f.data))

\* A session that has only ever had one request at a time: the blob is the
\* original, and a part that nobody is copying to is on the platter.
WholeOK(s) ==
  /\ \A q, r \in Active(s) : q = r
  /\ \A r \in Active(s) : CommitOK(req[r], file[s])
  /\ file[s].part # NoFile =>
       Stable(file[s].part) \/ \E r \in Active(s) : req[r].fd = "part"
  /\ BlobOK(file[s].blob)
  /\ phone[s].pc = "done" => file[s].blob # NoFile

PartOK(f) ==
  f # NoFile => Len(f.data) <= Size /\ \A k \in 1..Len(f.data) : f.data[k] = k

\* What a request found is still so.
StepOK(h, at) ==
  /\ h.pc = "opening" => IF at.part = NoFile THEN h.at = 0 ELSE Len(at.part.data) = h.at
  /\ h.pc = "copying" => h.fd = "part" /\ Len(at.part.data) = h.at
  /\ h.pc = "adopting" => at.part # NoFile /\ Len(at.part.data) = Size
  /\ h.pc \in {"stating", "renaming"} => at.part # NoFile
  /\ h.pc \in {"clearing", "forgetting", "finishing"} => h.good

KeptOK(n, at) ==
  n > 0 /\ at.blob = NoFile => at.part # NoFile /\ (at.part.cut \/ n <= at.part.synced)

\* ... and that the sweep has left alone: the part is a beginning of the
\* original, what the client was told of is on the platter, and what it sends
\* begins there.
PromiseOK(s) ==
  /\ PartOK(file[s].part)
  /\ \A r \in Active(s) : StepOK(req[r], file[s]) /\ phone[s].at <= req[r].at
  /\ KeptOK(phone[s].at, file[s])

IInv ==
  /\ Sound
  /\ \A s \in Session \ crossed : WholeOK(s)
  /\ \A s \in Session \ (crossed \cup swept) : PromiseOK(s)

\* The files when f is at a session's path.
Put(s, p, f) == [file EXCEPT ![s][p] = f]

\* The files with one unit more at a path, and with an fsync failed there.
Grown(s, p, u) == [file EXCEPT ![s][p].data = Append(@, u)]
CutShort(s, p) == [file EXCEPT ![s][p].cut = TRUE]

-----------------------------------------------------------------------------
(* Records. *)

\* The constants.
LEMMA Constants == Size \in Nat /\ Size > 0 /\ Chunk \in Nat /\ Chunk > 0 /\ MaxFaults \in Nat
BY SessionAssumption

\* A slot with no request in it is not a request, nor is the sweep at rest at
\* work; no file is not a file.
LEMMA Absent ==
  /\ Idle \notin RequestState
  /\ NoSweep \notin [pc : {"part", "meta"}, ses : Session]
  /\ NoFile \notin File
<1>1. Idle \notin RequestState
  BY DEF Idle, RequestState
<1>2. NoSweep \notin [pc : {"part", "meta"}, ses : Session]
  BY DEF NoSweep
<1> QED
  BY <1>1, <1>2, NoFileAssumption

\* A new part file.
LEMMA EmptyFile ==
  Empty \in File /\ Empty # NoFile /\ Empty.synced = 0 /\ Empty.data = <<>> /\ Len(Empty.data) = 0
<1>1. <<>> \in Seq(Unit)
  OBVIOUS
<1>2. Empty \in File
  BY <1>1 DEF Empty, File
<1> QED
  BY <1>2, NoFileAssumption DEF Empty

\* One field of a file replaced.
LEMMA DataEdit ==
  ASSUME NEW f \in File, NEW d \in Seq(Unit)
  PROVE  LET g == [f EXCEPT !.data = d] IN
         g \in File /\ g.data = d /\ g.synced = f.synced /\ g.cut = f.cut
BY DEF File

\* One field of a file replaced.
LEMMA SyncedEdit ==
  ASSUME NEW f \in File, NEW n \in Nat
  PROVE  LET g == [f EXCEPT !.synced = n] IN
         g \in File /\ g.data = f.data /\ g.synced = n /\ g.cut = f.cut
BY DEF File

\* One field of a file replaced.
LEMMA CutEdit ==
  ASSUME NEW f \in File, NEW c \in BOOLEAN
  PROVE  LET g == [f EXCEPT !.cut = c] IN
         g \in File /\ g.data = f.data /\ g.synced = f.synced /\ g.cut = c
BY DEF File

\* The fields of a file.
LEMMA FileType ==
  ASSUME NEW f \in File
  PROVE  /\ f.data \in Seq(Unit) /\ f.synced \in Nat /\ f.cut \in BOOLEAN
         /\ Len(f.data) \in Nat
         /\ f # NoFile
<1>1. f.data \in Seq(Unit) /\ f.synced \in Nat /\ f.cut \in BOOLEAN
  BY DEF File
<1> QED
  BY <1>1, NoFileAssumption

\* One path of a session given another file.
LEMMA Placed ==
  ASSUME Typing, NEW s \in Session, NEW p \in Path, NEW f \in File \cup {NoFile}
  PROVE  /\ Put(s, p, f) \in [Session -> Paths]
         /\ Put(s, p, f)[s][p] = f
         /\ \A q \in Path \ {p} : Put(s, p, f)[s][q] = file[s][q]
         /\ \A t \in Session \ {s} : Put(s, p, f)[t] = file[t]
<1>1. file \in [Session -> Paths]
  BY DEF Typing, Paths
<1>2. file[s] \in Paths
  BY <1>1
<1>3. [file[s] EXCEPT ![p] = f] \in Paths
  BY <1>2 DEF Paths, Path
<1>4. \A q \in Path \ {p} : [file[s] EXCEPT ![p] = f][q] = file[s][q]
  BY <1>2 DEF Paths, Path
<1>5. [file[s] EXCEPT ![p] = f][p] = f
  BY <1>2 DEF Paths, Path
<1> DEFINE h == [file[s] EXCEPT ![p] = f]
<1>6. Put(s, p, f) = [file EXCEPT ![s] = h]
  BY DEF Put
<1> HIDE DEF h
<1>7. /\ [file EXCEPT ![s] = h] \in [Session -> Paths]
      /\ [file EXCEPT ![s] = h][s] = h
      /\ \A t \in Session \ {s} : [file EXCEPT ![s] = h][t] = file[t]
  <2>1. h \in Paths
    BY <1>3 DEF h
  <2> QED
    BY <1>1, <2>1
<1>8. h[p] = f /\ \A q \in Path \ {p} : h[q] = file[s][q]
  BY <1>4, <1>5, Zenon DEF h
<1> QED
  BY <1>6, <1>7, <1>8, Zenon

\* One field of a request replaced.
LEMMA PcEdit ==
  ASSUME NEW h \in RequestState, NEW pc \in Steps
  PROVE  LET g == [h EXCEPT !.pc = pc] IN
         /\ g \in RequestState /\ g.pc = pc /\ g.ses = h.ses /\ g.at = h.at
         /\ g.end = h.end /\ g.fd = h.fd /\ g.good = h.good /\ g.heard = h.heard
BY DEF RequestState, Steps

\* One field of a request replaced.
LEMMA AtEdit ==
  ASSUME NEW h \in RequestState, NEW at \in 0..Size
  PROVE  LET g == [h EXCEPT !.at = at] IN
         /\ g \in RequestState /\ g.pc = h.pc /\ g.ses = h.ses /\ g.at = at
         /\ g.end = h.end /\ g.fd = h.fd /\ g.good = h.good /\ g.heard = h.heard
BY DEF RequestState, Steps

\* One field of a request replaced.
LEMMA FdEdit ==
  ASSUME NEW h \in RequestState, NEW fd \in {"none", "part", "blob", "gone"}
  PROVE  LET g == [h EXCEPT !.fd = fd] IN
         /\ g \in RequestState /\ g.pc = h.pc /\ g.ses = h.ses /\ g.at = h.at
         /\ g.end = h.end /\ g.fd = fd /\ g.good = h.good /\ g.heard = h.heard
BY DEF RequestState, Steps

\* One field of a request replaced.
LEMMA GoodEdit ==
  ASSUME NEW h \in RequestState, NEW b \in BOOLEAN
  PROVE  LET g == [h EXCEPT !.good = b] IN
         /\ g \in RequestState /\ g.pc = h.pc /\ g.ses = h.ses /\ g.at = h.at
         /\ g.end = h.end /\ g.fd = h.fd /\ g.good = b /\ g.heard = h.heard
BY DEF RequestState, Steps

\* One field of a request replaced.
LEMMA HeardEdit ==
  ASSUME NEW h \in RequestState, NEW b \in BOOLEAN
  PROVE  LET g == [h EXCEPT !.heard = b] IN
         /\ g \in RequestState /\ g.pc = h.pc /\ g.ses = h.ses /\ g.at = h.at
         /\ g.end = h.end /\ g.fd = h.fd /\ g.good = h.good /\ g.heard = b
BY DEF RequestState, Steps

\* The fields of a request, and what a slot holds.
LEMMA RequestType ==
  ASSUME Typing, NEW r \in Request
  PROVE  /\ req[r] \in RequestState \cup {Idle}
         /\ req[r] # Idle =>
              /\ req[r] \in RequestState /\ req[r].ses \in Session
              /\ req[r].pc \in Steps /\ req[r].at \in 0..Size /\ req[r].end \in 0..Size
              /\ req[r].fd \in {"none", "part", "blob", "gone"}
              /\ req[r].good \in BOOLEAN /\ req[r].heard \in BOOLEAN
              /\ r \in Active(req[r].ses)
<1>1. req[r] \in RequestState \cup {Idle}
  BY DEF Typing
<1>2. ASSUME req[r] \in RequestState
      PROVE  /\ req[r].ses \in Session
             /\ req[r].pc \in Steps /\ req[r].at \in 0..Size /\ req[r].end \in 0..Size
             /\ req[r].fd \in {"none", "part", "blob", "gone"}
             /\ req[r].good \in BOOLEAN /\ req[r].heard \in BOOLEAN
  BY <1>2 DEF RequestState, Steps
<1> QED
  BY <1>1, <1>2 DEF Active

-----------------------------------------------------------------------------
(* What the steps do to the files. *)

\* What FilesOK says of one file.
LengthOK(f) == f # NoFile => f.synced <= Len(f.data)

\* A file placed at a path that keeps the order of appended and synced.
LEMMA PlacedOK ==
  ASSUME Sound, NEW s \in Session, NEW p \in Path, NEW f \in File \cup {NoFile}, LengthOK(f),
         file' = Put(s, p, f)
  PROVE  /\ file' \in [Session -> Paths] /\ FilesOK'
         /\ file'[s][p] = f
         /\ \A q \in Path \ {p} : file'[s][q] = file[s][q]
         /\ \A t \in Session \ {s} : file'[t] = file[t]
<1>1. Typing /\ FilesOK
  BY DEF Sound
<1>2. /\ file' \in [Session -> Paths]
      /\ file'[s][p] = f
      /\ \A q \in Path \ {p} : file'[s][q] = file[s][q]
      /\ \A t \in Session \ {s} : file'[t] = file[t]
  BY <1>1, Placed
<1>3. ASSUME NEW t \in Session, NEW q \in Path PROVE LengthOK(file'[t][q])
  <2>1. CASE t = s /\ q = p
    BY <1>2, <2>1, Zenon
  <2>2. CASE t # s \/ q # p
    <3>1. file'[t][q] = file[t][q]
      BY <1>2, <2>2, Zenon
    <3>2. LengthOK(file[t][q])
      BY <1>1 DEF FilesOK, LengthOK
    <3> QED
      BY <3>1, <3>2, Zenon
  <2> QED
    BY <2>1, <2>2
<1>4. FilesOK'
  BY <1>3 DEF FilesOK, LengthOK
<1> QED
  BY <1>2, <1>4

\* What is at a path.
LEMMA PathType ==
  ASSUME Typing, NEW s \in Session, NEW p \in Path
  PROVE  /\ file[s][p] \in File \cup {NoFile}
         /\ file[s].part = file[s]["part"] /\ file[s].blob = file[s]["blob"]
<1>1. file[s] \in Paths
  BY DEF Typing, Paths
<1> QED
  BY <1>1 DEF Paths, Path

\* os.OpenFile with O_CREATE.
LEMMA CreatedFile ==
  ASSUME Sound, NEW s \in Session, file' = Created(s)
  PROVE  /\ file' \in [Session -> Paths] /\ FilesOK'
         /\ file'[s].part = (IF file[s].part = NoFile THEN Empty ELSE file[s].part)
         /\ file'[s].part # NoFile
         /\ file'[s].blob = file[s].blob
         /\ \A t \in Session \ {s} : file'[t] = file[t]
         /\ \A t \in Session, p \in Path : file[t][p] # NoFile => file'[t][p] = file[t][p]
<1>1. file \in [Session -> Paths] /\ FilesOK
  BY DEF Sound, Typing, Paths
<1>2. CASE file[s].part = NoFile
  <2>1. file' = Put(s, "part", Empty)
    BY <1>2 DEF Created, Put
  <2>2. LengthOK(Empty) /\ Empty \in File \cup {NoFile} /\ Empty # NoFile
    BY EmptyFile DEF LengthOK
  <2>3. /\ file' \in [Session -> Paths] /\ FilesOK'
        /\ file'[s]["part"] = Empty
        /\ \A q \in Path \ {"part"} : file'[s][q] = file[s][q]
        /\ \A t \in Session \ {s} : file'[t] = file[t]
    BY <2>1, <2>2, PlacedOK, Zenon DEF Path
  <2>4. file'[s].part = Empty /\ file'[s].blob = file[s].blob
    BY <2>3 DEF Path
  <2>5. ASSUME NEW t \in Session, NEW p \in Path, file[t][p] # NoFile
        PROVE  file'[t][p] = file[t][p]
    <3>1. CASE t = s
      <4>1. p # "part"
        BY <1>2, <2>5, <3>1
      <4> QED
        BY <2>3, <3>1, <4>1
    <3>2. CASE t # s
      BY <2>3, <3>2
    <3> QED
      BY <3>1, <3>2
  <2> QED
    BY <1>2, <2>2, <2>3, <2>4, <2>5
<1>3. CASE file[s].part # NoFile
  <2>1. file' = file
    BY <1>3 DEF Created
  <2>2. FilesOK'
    BY <1>1, <2>1 DEF FilesOK
  <2> QED
    BY <1>1, <1>3, <2>1, <2>2
<1> QED
  BY <1>2, <1>3

\* A file edited in place: its new self is longer and synced no further than that.
LEMMA EditedFile ==
  ASSUME Sound, NEW s \in Session, NEW p \in Path, file[s][p] # NoFile,
         NEW f \in File, f.synced <= Len(f.data),
         file' = Put(s, p, f)
  PROVE  /\ file' \in [Session -> Paths] /\ FilesOK'
         /\ file'[s][p] = f /\ f # NoFile
         /\ \A q \in Path \ {p} : file'[s][q] = file[s][q]
         /\ \A t \in Session \ {s} : file'[t] = file[t]
         /\ \A t \in Session, q \in Path : file[t][q] # NoFile => file'[t][q] # NoFile
<1>1. LengthOK(f) /\ f # NoFile /\ f \in File \cup {NoFile}
  BY NoFileAssumption DEF LengthOK
<1>2. /\ file' \in [Session -> Paths] /\ FilesOK'
      /\ file'[s][p] = f
      /\ \A q \in Path \ {p} : file'[s][q] = file[s][q]
      /\ \A t \in Session \ {s} : file'[t] = file[t]
  BY <1>1, PlacedOK, Zenon
<1>3. ASSUME NEW t \in Session, NEW q \in Path, file[t][q] # NoFile
      PROVE  file'[t][q] # NoFile
  <2>1. CASE t = s /\ q = p
    BY <1>1, <1>2, <2>1
  <2>2. CASE t # s \/ q # p
    <3>1. file'[t][q] = file[t][q]
      BY <1>2, <2>2, Zenon
    <3> QED
      BY <1>3, <3>1
  <2> QED
    BY <2>1, <2>2
<1> QED
  BY <1>1, <1>2, <1>3

\* One unit appended, by a descriptor that is found at path p.
LEMMA GrownFile ==
  ASSUME Sound, NEW s \in Session, NEW p \in Path, file[s][p] # NoFile, NEW u \in Unit,
         file' = Grown(s, p, u)
  PROVE  \E f \in File :
         /\ file' \in [Session -> Paths] /\ FilesOK'
         /\ file'[s][p] = f
         /\ f.data = Append(file[s][p].data, u)
         /\ f.synced = file[s][p].synced /\ f.cut = file[s][p].cut
         /\ \A q \in Path \ {p} : file'[s][q] = file[s][q]
         /\ \A t \in Session \ {s} : file'[t] = file[t]
         /\ \A t \in Session, q \in Path : file[t][q] # NoFile => file'[t][q] # NoFile
<1> DEFINE g == file[s][p]
           d == Append(g.data, u)
           f == [g EXCEPT !.data = d]
<1>1. g \in File /\ g.synced <= Len(g.data)
  BY PathType DEF Sound, FilesOK
<1>2. g.data \in Seq(Unit) /\ g.synced \in Nat /\ g.cut \in BOOLEAN
  BY <1>1, FileType
<1>3. d \in Seq(Unit) /\ Len(d) = Len(g.data) + 1
  BY <1>2
<1>4. file' = Put(s, p, f)
  BY Zenon DEF Put, Grown
<1> HIDE DEF g, d
<1>5. f \in File /\ f.data = d /\ f.synced = g.synced /\ f.cut = g.cut
  BY <1>1, <1>2, <1>3, DataEdit
<1> HIDE DEF f
<1>6. f.synced <= Len(f.data)
  BY <1>1, <1>2, <1>3, <1>5
<1>7. /\ file' \in [Session -> Paths] /\ FilesOK'
      /\ file'[s][p] = f
      /\ \A q \in Path \ {p} : file'[s][q] = file[s][q]
      /\ \A t \in Session \ {s} : file'[t] = file[t]
      /\ \A t \in Session, q \in Path : file[t][q] # NoFile => file'[t][q] # NoFile
  BY <1>4, <1>5, <1>6, EditedFile
<1> QED
  BY <1>5, <1>7, Zenon DEF d, g

\* An fsync by a request that has its file open at path p.
LEMMA SyncedFile ==
  ASSUME Sound, NEW r \in Request, req[r] # Idle, req[r].fd \in Path, file' = Synced(r)
  PROVE  \E f \in File :
         LET s == req[r].ses  p == req[r].fd IN
         /\ file' \in [Session -> Paths] /\ FilesOK'
         /\ file'[s][p] = f
         /\ f.data = file[s][p].data /\ f.synced = Len(f.data) /\ f.cut = FALSE
         /\ \A q \in Path \ {p} : file'[s][q] = file[s][q]
         /\ \A t \in Session \ {s} : file'[t] = file[t]
         /\ \A t \in Session, q \in Path : file[t][q] # NoFile => file'[t][q] # NoFile
<1> DEFINE s == req[r].ses
           p == req[r].fd
           d == file[s][p].data
           f == [data |-> d, synced |-> Len(d), cut |-> FALSE]
<1>1. s \in Session /\ p \in Path /\ file[s][p] # NoFile /\ p # "gone"
  <2>1. s \in Session
    BY RequestType DEF Sound
  <2> QED
    BY <2>1 DEF Sound, RequestsOK, OpenOK, Path
<1>2. d \in Seq(Unit) /\ Len(d) \in Nat
  <2>1. file[s][p] \in File
    BY <1>1, PathType DEF Sound
  <2> QED
    BY <2>1, FileType
<1>3. file' = Put(s, p, f)
  BY <1>1, Zenon DEF Synced, Put
<1> HIDE DEF d
<1>4. f \in File /\ f.data = d /\ f.synced = Len(f.data) /\ f.cut = FALSE
  BY <1>2 DEF File
<1>5. f.synced <= Len(f.data)
  BY <1>2, <1>4
<1> HIDE DEF f, s, p
<1>6. /\ file' \in [Session -> Paths] /\ FilesOK'
      /\ file'[s][p] = f
      /\ \A q \in Path \ {p} : file'[s][q] = file[s][q]
      /\ \A t \in Session \ {s} : file'[t] = file[t]
      /\ \A t \in Session, q \in Path : file[t][q] # NoFile => file'[t][q] # NoFile
  BY <1>1, <1>3, <1>4, <1>5, EditedFile
<1> QED
  BY <1>4, <1>6, Zenon DEF d, s, p

\* An fsync that failed at path p.
LEMMA CutFile ==
  ASSUME Sound, NEW s \in Session, NEW p \in Path, file[s][p] # NoFile,
         file' = CutShort(s, p)
  PROVE  \E f \in File :
         /\ file' \in [Session -> Paths] /\ FilesOK'
         /\ file'[s][p] = f
         /\ f.data = file[s][p].data /\ f.synced = file[s][p].synced /\ f.cut = TRUE
         /\ \A q \in Path \ {p} : file'[s][q] = file[s][q]
         /\ \A t \in Session \ {s} : file'[t] = file[t]
         /\ \A t \in Session, q \in Path : file[t][q] # NoFile => file'[t][q] # NoFile
<1> DEFINE g == file[s][p]
           f == [g EXCEPT !.cut = TRUE]
<1>1. g \in File /\ g.synced <= Len(g.data)
  BY PathType DEF Sound, FilesOK
<1>2. file' = Put(s, p, f)
  BY Zenon DEF Put, CutShort
<1> HIDE DEF g
<1>3. f \in File /\ f.data = g.data /\ f.synced = g.synced /\ f.cut = TRUE
  <2>1. g.data \in Seq(Unit) /\ g.synced \in Nat
    BY <1>1, FileType
  <2> QED
    BY <1>1, <2>1, CutEdit
<1> HIDE DEF f
<1>4. f.synced <= Len(f.data)
  BY <1>1, <1>3
<1>5. /\ file' \in [Session -> Paths] /\ FilesOK'
      /\ file'[s][p] = f
      /\ \A q \in Path \ {p} : file'[s][q] = file[s][q]
      /\ \A t \in Session \ {s} : file'[t] = file[t]
      /\ \A t \in Session, q \in Path : file[t][q] # NoFile => file'[t][q] # NoFile
  BY <1>2, <1>3, <1>4, EditedFile
<1> QED
  BY <1>3, <1>5, Zenon DEF g

\* A unit written out by the kernel.
LEMMA WrittenFile ==
  ASSUME Sound, NEW s \in Session, NEW p \in Path, WrittenBack(s, p)
  PROVE  \E f \in File :
         /\ file' \in [Session -> Paths] /\ FilesOK'
         /\ file[s][p] # NoFile /\ file'[s][p] = f
         /\ f.data = file[s][p].data /\ f.cut = file[s][p].cut
         /\ f.synced = file[s][p].synced + 1 /\ f.synced <= Len(f.data)
         /\ \A q \in Path \ {p} : file'[s][q] = file[s][q]
         /\ \A t \in Session \ {s} : file'[t] = file[t]
         /\ \A t \in Session, q \in Path : file[t][q] # NoFile => file'[t][q] # NoFile
<1> DEFINE g == file[s][p]
           n == g.synced + 1
           f == [g EXCEPT !.synced = n]
<1>1. g \in File /\ g # NoFile /\ g.synced < Len(g.data)
  BY PathType DEF Sound, WrittenBack
<1>2. file' = Put(s, p, f)
  BY Zenon DEF Put, WrittenBack
<1> HIDE DEF g
<1>3. g.data \in Seq(Unit) /\ g.synced \in Nat /\ g.cut \in BOOLEAN /\ n \in Nat /\ n <= Len(g.data)
  BY <1>1, FileType
<1> HIDE DEF n
<1>4. f \in File /\ f.data = g.data /\ f.synced = n /\ f.cut = g.cut
  <2>1. g \in File /\ g.data \in Seq(Unit) /\ g.cut \in BOOLEAN /\ n \in Nat
    BY <1>1, <1>3
  <2> QED
    BY <2>1, SyncedEdit, Zenon
<1> HIDE DEF f
<1>5. f.synced <= Len(f.data) /\ file[s][p] # NoFile
  BY <1>1, <1>3, <1>4 DEF g
<1>6. /\ file' \in [Session -> Paths] /\ FilesOK'
      /\ file'[s][p] = f
      /\ \A q \in Path \ {p} : file'[s][q] = file[s][q]
      /\ \A t \in Session \ {s} : file'[t] = file[t]
      /\ \A t \in Session, q \in Path : file[t][q] # NoFile => file'[t][q] # NoFile
  BY <1>2, <1>4, <1>5, EditedFile
<1> QED
  BY <1>4, <1>5, <1>6, Zenon DEF g, n

\* The part removed.
LEMMA RemovedFile ==
  ASSUME Sound, NEW s \in Session, file' = [file EXCEPT ![s].part = NoFile]
  PROVE  /\ file' \in [Session -> Paths] /\ FilesOK'
         /\ file'[s].part = NoFile
         /\ file'[s].blob = file[s].blob
         /\ \A t \in Session \ {s} : file'[t] = file[t]
<1>1. file' = Put(s, "part", NoFile)
  BY DEF Put
<1>2. LengthOK(NoFile)
  BY DEF LengthOK
<1>3. /\ file' \in [Session -> Paths] /\ FilesOK'
      /\ file'[s]["part"] = NoFile
      /\ \A q \in Path \ {"part"} : file'[s][q] = file[s][q]
      /\ \A t \in Session \ {s} : file'[t] = file[t]
  BY <1>1, <1>2, PlacedOK, Zenon DEF Path
<1> QED
  BY <1>3 DEF Path

\* The part renamed to the blob's path.
LEMMA RenamedFile ==
  ASSUME Sound, NEW s \in Session,
         file' = [file EXCEPT ![s] = [part |-> NoFile, blob |-> file[s].part]]
  PROVE  /\ file' \in [Session -> Paths] /\ FilesOK'
         /\ file'[s].part = NoFile
         /\ file'[s].blob = file[s].part
         /\ \A t \in Session \ {s} : file'[t] = file[t]
<1>1. file \in [Session -> Paths] /\ FilesOK
  BY DEF Sound, Typing, Paths
<1>2. file[s].part \in File \cup {NoFile} /\ LengthOK(file[s].part)
  BY <1>1 DEF Paths, FilesOK, LengthOK, Path
<1> DEFINE h == [part |-> NoFile, blob |-> file[s].part]
<1>3. h \in Paths /\ h.part = NoFile /\ h.blob = file[s].part
  BY <1>2 DEF Paths
<1> HIDE DEF h
<1>4. /\ file' \in [Session -> Paths] /\ file'[s] = h
      /\ \A t \in Session \ {s} : file'[t] = file[t]
  <2>1. file' = [file EXCEPT ![s] = h]
    BY DEF h
  <2> QED
    BY <1>1, <1>3, <2>1
<1>5. ASSUME NEW t \in Session, NEW q \in Path PROVE LengthOK(file'[t][q])
  <2>1. CASE t # s
    BY <1>1, <1>4, <2>1 DEF FilesOK, LengthOK
  <2>2. CASE t = s
    <3>1. file'[t][q] = NoFile \/ file'[t][q] = file[s].part
      BY <1>3, <1>4, <2>2 DEF Path
    <3> QED
      BY <1>2, <3>1 DEF LengthOK
  <2> QED
    BY <2>1, <2>2
<1>6. FilesOK'
  BY <1>5 DEF FilesOK, LengthOK
<1> QED
  BY <1>3, <1>4, <1>6

\* What a power loss leaves of a file: what was on the platter.
LEMMA TruncatedFile ==
  ASSUME NEW f \in File, f.synced <= Len(f.data)
  PROVE  LET g == [f EXCEPT !.data = SubSeq(@, 1, f.synced)] IN
         /\ g \in File /\ g # NoFile
         /\ Len(g.data) = f.synced /\ g.synced = f.synced /\ g.cut = f.cut
         /\ \A k \in 1..f.synced : g.data[k] = f.data[k]
<1>1. f.data \in Seq(Unit) /\ f.synced \in Nat /\ f.cut \in BOOLEAN /\ Len(f.data) \in Nat
  BY FileType
<1> DEFINE d == SubSeq(f.data, 1, f.synced)
           g == [f EXCEPT !.data = d]
<1>2. d \in Seq(Unit) /\ Len(d) = f.synced /\ \A k \in 1..f.synced : d[k] = f.data[k]
  <2>1. \A k \in 1..f.synced : f.data[k] \in Unit
    BY <1>1
  <2>2. d = [k \in 1..f.synced |-> f.data[k]]
    BY <1>1
  <2> QED
    BY <1>1, <2>1, <2>2
<1>3. g = [f EXCEPT !.data = SubSeq(@, 1, f.synced)]
  BY Zenon
<1> HIDE DEF d
<1>4. g \in File /\ g.data = d /\ g.synced = f.synced /\ g.cut = f.cut
  BY <1>1, <1>2, DataEdit
<1> HIDE DEF g
<1> QED
  BY <1>2, <1>3, <1>4, FileType

\* What a killed process leaves of the files: all of it, and the knowledge that
\* an fsync will not come.
LEMMA KilledFiles ==
  ASSUME Sound, Killed
  PROVE  /\ file' \in [Session -> Paths] /\ FilesOK'
         /\ \A s \in Session, p \in Path :
              /\ file'[s][p] = NoFile <=> file[s][p] = NoFile
              /\ file[s][p] # NoFile =>
                   /\ file'[s][p].data = file[s][p].data
                   /\ file'[s][p].synced = file[s][p].synced
                   /\ file'[s][p].cut = (CutOff(s, p) \/ file[s][p].cut)
<1> DEFINE Left(s, p) == IF CutOff(s, p) THEN [file[s][p] EXCEPT !.cut = TRUE] ELSE file[s][p]
<1>1. file' = [s \in Session |-> [part |-> Left(s, "part"), blob |-> Left(s, "blob")]]
  BY Zenon DEF Killed
<1>2. ASSUME NEW s \in Session, NEW p \in Path, file[s][p] = NoFile PROVE Left(s, p) = NoFile
  <2>1. ~CutOff(s, p)
    <3>1. ASSUME NEW r \in Active(s), req[r].fd = p PROVE FALSE
      BY <1>2, <3>1 DEF Sound, RequestsOK, OpenOK, Active
    <3> QED
      BY <3>1 DEF CutOff
  <2> QED
    BY <1>2, <2>1
<1>3. ASSUME NEW s \in Session, NEW p \in Path, file[s][p] # NoFile
      PROVE  /\ Left(s, p) \in File /\ Left(s, p) # NoFile
             /\ Left(s, p).data = file[s][p].data
             /\ Left(s, p).synced = file[s][p].synced
             /\ Left(s, p).cut = (CutOff(s, p) \/ file[s][p].cut)
             /\ Left(s, p).synced <= Len(Left(s, p).data)
  <2> DEFINE g == file[s][p]
  <2>1. g \in File /\ g.synced <= Len(g.data)
    BY <1>3, PathType DEF Sound, FilesOK
  <2>2. CASE CutOff(s, p)
    <3> DEFINE f == [g EXCEPT !.cut = TRUE]
    <3> HIDE DEF g
    <3>1. f \in File /\ f.data = g.data /\ f.synced = g.synced /\ f.cut = TRUE
      BY <2>1, CutEdit
    <3>2. Left(s, p) = f
      BY <2>2, Zenon DEF g
    <3> HIDE DEF f, Left
    <3>3. f # NoFile /\ f.synced <= Len(f.data)
      BY <2>1, <3>1, FileType
    <3> QED
      BY <2>2, <3>1, <3>2, <3>3 DEF g
  <2>3. CASE ~CutOff(s, p)
    <3>1. Left(s, p) = g
      BY <2>3, Zenon
    <3>2. g.cut \in BOOLEAN /\ g # NoFile
      BY <2>1, FileType
    <3> QED
      BY <2>1, <2>3, <3>1, <3>2
  <2> QED
    BY <2>2, <2>3
<1> HIDE DEF Left
<1>4. \A s \in Session, p \in Path : Left(s, p) \in File \cup {NoFile}
  BY <1>2, <1>3
<1>5. file' \in [Session -> Paths]
  BY <1>1, <1>4 DEF Paths, Path
<1>6. \A s \in Session, p \in Path : file'[s][p] = Left(s, p)
  BY <1>1 DEF Path
<1>7. FilesOK'
  BY <1>2, <1>3, <1>6 DEF FilesOK
<1>8. ASSUME NEW s \in Session, NEW p \in Path
      PROVE  /\ file'[s][p] = NoFile <=> file[s][p] = NoFile
             /\ file[s][p] # NoFile =>
                  /\ file'[s][p].data = file[s][p].data
                  /\ file'[s][p].synced = file[s][p].synced
                  /\ file'[s][p].cut = (CutOff(s, p) \/ file[s][p].cut)
  <2>1. CASE file[s][p] = NoFile
    BY <1>2, <1>6, <2>1
  <2>2. CASE file[s][p] # NoFile
    BY <1>3, <1>6, <2>2
  <2> QED
    BY <2>1, <2>2
<1> QED
  BY <1>5, <1>7, <1>8

\* What a power loss leaves of the files.
LEMMA LostFiles ==
  ASSUME Sound, PowerLoss
  PROVE  /\ file' \in [Session -> Paths] /\ FilesOK'
         /\ \A s \in Session, p \in Path :
              /\ file'[s][p] = NoFile <=> file[s][p] = NoFile
              /\ file[s][p] # NoFile =>
                   /\ Len(file'[s][p].data) = file[s][p].synced
                   /\ \A k \in 1..file[s][p].synced : file'[s][p].data[k] = file[s][p].data[k]
                   /\ file'[s][p].synced = file[s][p].synced
                   /\ file'[s][p].cut = file[s][p].cut
<1> DEFINE Cut(f) == [f EXCEPT !.data = SubSeq(@, 1, f.synced)]
           Left(s, p) == IF file[s][p] = NoFile THEN NoFile ELSE Cut(file[s][p])
<1>1. file' = [s \in Session |-> [part |-> Left(s, "part"), blob |-> Left(s, "blob")]]
  BY Zenon DEF PowerLoss
<1>2. ASSUME NEW s \in Session, NEW p \in Path, file[s][p] = NoFile PROVE Left(s, p) = NoFile
  BY <1>2
<1>3. ASSUME NEW s \in Session, NEW p \in Path, file[s][p] # NoFile
      PROVE  /\ Left(s, p) \in File /\ Left(s, p) # NoFile
             /\ Len(Left(s, p).data) = file[s][p].synced
             /\ \A k \in 1..file[s][p].synced : Left(s, p).data[k] = file[s][p].data[k]
             /\ Left(s, p).synced = file[s][p].synced
             /\ Left(s, p).cut = file[s][p].cut
             /\ Left(s, p).synced <= Len(Left(s, p).data)
  <2> DEFINE g == file[s][p]
  <2>1. g \in File /\ g.synced <= Len(g.data)
    BY <1>3, PathType DEF Sound, FilesOK
  <2>2. Left(s, p) = Cut(g)
    BY <1>3, Zenon
  <2> HIDE DEF g
  <2>3. /\ Cut(g) \in File /\ Cut(g) # NoFile
        /\ Len(Cut(g).data) = g.synced /\ Cut(g).synced = g.synced /\ Cut(g).cut = g.cut
        /\ \A k \in 1..g.synced : Cut(g).data[k] = g.data[k]
    BY <2>1, TruncatedFile, Zenon
  <2>4. g.synced \in Nat
    BY <2>1, FileType
  <2> HIDE DEF Cut, Left
  <2> QED
    BY <2>2, <2>3, <2>4 DEF g
<1> HIDE DEF Left
<1>4. \A s \in Session, p \in Path : Left(s, p) \in File \cup {NoFile}
  BY <1>2, <1>3
<1>5. file' \in [Session -> Paths]
  BY <1>1, <1>4 DEF Paths, Path
<1>6. \A s \in Session, p \in Path : file'[s][p] = Left(s, p)
  BY <1>1 DEF Path
<1>7. FilesOK'
  BY <1>2, <1>3, <1>6 DEF FilesOK
<1>8. ASSUME NEW s \in Session, NEW p \in Path
      PROVE  /\ file'[s][p] = NoFile <=> file[s][p] = NoFile
             /\ file[s][p] # NoFile =>
                  /\ Len(file'[s][p].data) = file[s][p].synced
                  /\ \A k \in 1..file[s][p].synced : file'[s][p].data[k] = file[s][p].data[k]
                  /\ file'[s][p].synced = file[s][p].synced
                  /\ file'[s][p].cut = file[s][p].cut
  <2>1. CASE file[s][p] = NoFile
    BY <1>2, <1>6, <2>1
  <2>2. CASE file[s][p] # NoFile
    BY <1>3, <1>6, <2>2
  <2> QED
    BY <2>1, <2>2
<1> QED
  BY <1>5, <1>7, <1>8

-----------------------------------------------------------------------------
(* What the steps do to the requests. *)

Slots == [Request -> RequestState \cup {Idle}]

\* The request of slot r is g, and the others are as they were.
Becomes(r, g) == /\ req' \in Slots /\ req'[r] = g
                 /\ \A q \in Request \ {r} : req'[q] = req[q]

\* A handler returns.
LEMMA Returned ==
  ASSUME Sound, NEW r \in Request, req[r] # Idle, NEW news \in Phone, Return(r, news)
  PROVE  /\ Becomes(r, Idle)
         /\ phone' \in [Session -> Phone]
         /\ \A t \in Session \ {req[r].ses} : phone'[t] = phone[t]
         /\ phone'[req[r].ses] = (IF req[r].heard THEN news ELSE phone[req[r].ses])
<1>1. req[r].ses \in Session
  BY RequestType DEF Sound
<1>2. req' = [req EXCEPT ![r] = Idle] /\ req \in Slots /\ phone \in [Session -> Phone]
  BY DEF Return, Sound, Typing, Slots
<1>3. Becomes(r, Idle)
  BY <1>2 DEF Slots, Becomes
<1> DEFINE s == req[r].ses
<1>4. phone' = IF req[r].heard THEN [phone EXCEPT ![s] = news] ELSE phone
  BY DEF Return
<1> HIDE DEF s
<1>5. /\ phone' \in [Session -> Phone]
      /\ \A t \in Session \ {s} : phone'[t] = phone[t]
      /\ phone'[s] = (IF req[r].heard THEN news ELSE phone[s])
  BY <1>1, <1>2, <1>4 DEF s
<1> QED
  BY <1>3, <1>5 DEF s

\* A handler goes on to another step.
LEMMA Moved ==
  ASSUME Typing, NEW r \in Request, req[r] # Idle, NEW pc \in Steps, To(r, pc)
  PROVE  \E g \in RequestState :
         /\ Becomes(r, g)
         /\ g.pc = pc /\ g.ses = req[r].ses /\ g.at = req[r].at /\ g.end = req[r].end
         /\ g.fd = req[r].fd /\ g.good = req[r].good /\ g.heard = req[r].heard
<1> DEFINE h == req[r]
           g == [h EXCEPT !.pc = pc]
<1>1. h \in RequestState /\ h.at \in 0..Size /\ h.fd \in {"none", "part", "blob", "gone"}
      /\ h.good \in BOOLEAN
  BY RequestType
<1>2. req' = [req EXCEPT ![r] = g] /\ req \in Slots
  BY DEF To, Typing, Slots
<1> HIDE DEF h
<1>3. /\ g \in RequestState /\ g.pc = pc /\ g.ses = h.ses /\ g.at = h.at
      /\ g.end = h.end /\ g.fd = h.fd /\ g.good = h.good /\ g.heard = h.heard
  BY <1>1, PcEdit, Zenon
<1> HIDE DEF g
<1>4. Becomes(r, g)
  BY <1>2, <1>3 DEF Slots, Becomes
<1> QED
  BY <1>3, <1>4 DEF h

\* Idle slots are idle.
LEMMA Emptied ==
  ASSUME req' = [r \in Request |-> Idle]
  PROVE  req' \in Slots /\ \A r \in Request : req'[r] = Idle
BY DEF Slots

-----------------------------------------------------------------------------
(* From one session to all of them. *)

\* A step that is of one slot, and of one session.
LEMMA RequestsGoOn ==
  ASSUME Sound, NEW r \in Request, NEW g, Becomes(r, g), OpenOK(g, file'),
         \A t \in Session, p \in Path : file[t][p] # NoFile => file'[t][p] # NoFile
  PROVE  RequestsOK'
<1>1. ASSUME NEW q \in Request \ {r} PROVE OpenOK(req'[q], file')
  <2>1. req'[q] = req[q] /\ OpenOK(req[q], file)
    BY DEF Becomes, Sound, RequestsOK
  <2>2. req[q] # Idle => req[q].ses \in Session
    BY RequestType DEF Sound
  <2> QED
    BY <2>1, <2>2 DEF OpenOK
<1>2. OpenOK(req'[r], file')
  BY DEF Becomes
<1> QED
  BY <1>1, <1>2 DEF RequestsOK

\* What a step of a request leaves alone.
LEMMA SoundStep ==
  ASSUME Sound, decl' \in [Session -> {"none", "torn", "ok"}], old' \subseteq Session,
         UNCHANGED <<sweep, crossed, swept>>, UNCHANGED faults \/ Fault,
         file' \in [Session -> Paths], FilesOK', req' \in Slots, RequestsOK',
         phone' \in [Session -> Phone]
  PROVE  Sound'
<1>1. faults' \in 0..MaxFaults
  BY Constants DEF Sound, Typing, Fault
<1>2. Typing'
  BY <1>1 DEF Sound, Typing, Paths, Slots, Phone
<1>3. SweepOK'
  BY DEF Sound, SweepOK
<1> QED
  BY <1>2, <1>3 DEF Sound

\* Nothing of session s has changed.
Untouched(s) ==
  /\ file'[s] = file[s] /\ phone'[s] = phone[s]
  /\ \A q \in Request :
       \/ req'[q] = req[q]
       \/ q \notin Active(s) /\ (req'[q] = Idle \/ req'[q].ses # s)

\* Then nothing is to be shown of it.
LEMMA Elsewhere ==
  ASSUME NEW s \in Session, Untouched(s)
  PROVE  /\ WholeOK(s) => WholeOK(s)'
         /\ PromiseOK(s) => PromiseOK(s)'
<1>1. /\ \A q \in Request : q \in Active(s)' <=> q \in Active(s)
      /\ \A q \in Active(s) : req'[q] = req[q]
  BY DEF Untouched, Active
<1>2. Active(s)' = Active(s)
  BY <1>1 DEF Active
<1>3. file'[s] = file[s] /\ phone'[s] = phone[s]
  BY DEF Untouched
<1>4. WholeOK(s) => WholeOK(s)'
  BY <1>1, <1>2, <1>3 DEF WholeOK
<1>5. PromiseOK(s) => PromiseOK(s)'
  BY <1>1, <1>2, <1>3 DEF PromiseOK
<1> QED
  BY <1>4, <1>5

\* A step of one session: what is left to show of it.
LEMMA LocalStep ==
  ASSUME IInv, NEW s \in Session, Sound', UNCHANGED <<crossed, swept>>,
         \A t \in Session \ {s} : Untouched(t),
         s \notin crossed => WholeOK(s)',
         s \notin crossed \cup swept => PromiseOK(s)'
  PROVE  IInv'
<1>1. ASSUME NEW t \in Session \ crossed' PROVE WholeOK(t)'
  BY Elsewhere DEF IInv
<1>2. ASSUME NEW t \in Session \ (crossed \cup swept)' PROVE PromiseOK(t)'
  BY Elsewhere DEF IInv
<1> QED
  BY <1>1, <1>2 DEF IInv

\* A step of a slot touches one session.
LEMMA OneTouched ==
  ASSUME Typing, NEW r \in Request, req[r] # Idle, NEW g, Becomes(r, g),
         g = Idle \/ g.ses = req[r].ses,
         \A t \in Session \ {req[r].ses} : file'[t] = file[t],
         \A t \in Session \ {req[r].ses} : phone'[t] = phone[t]
  PROVE  \A t \in Session \ {req[r].ses} : Untouched(t)
BY DEF Becomes, Untouched, Active

\* Nobody but r is in its session.
LEMMA OnlyOne ==
  ASSUME IInv, NEW r \in Request, req[r] # Idle, req[r].ses \notin crossed
  PROVE  /\ req[r].ses \in Session
         /\ Active(req[r].ses) = {r}
         /\ WholeOK(req[r].ses)
         /\ CommitOK(req[r], file[req[r].ses])
<1>1. req[r].ses \in Session /\ r \in Active(req[r].ses)
  BY RequestType DEF IInv, Sound
<1>2. WholeOK(req[r].ses)
  BY <1>1 DEF IInv
<1> QED
  BY <1>1, <1>2 DEF WholeOK

\* The session of a request that was alone in it, after its step.
LEMMA AloneAfter ==
  ASSUME NEW r \in Request, NEW s \in Session, Active(s) \subseteq {r}, NEW g, Becomes(r, g),
         g = Idle \/ g.ses = s
  PROVE  Active(s)' = IF g = Idle THEN {} ELSE {r}
BY DEF Becomes, Active

\* Where nobody is left, what there is to show.
LEMMA QuietSession ==
  ASSUME NEW s \in Session, Active(s)' = {}
  PROVE  /\ /\ file'[s].part # NoFile => Stable(file'[s].part)
            /\ BlobOK(file'[s].blob)
            /\ phone'[s].pc = "done" => file'[s].blob # NoFile
            => WholeOK(s)'
         /\ /\ PartOK(file'[s].part)
            /\ KeptOK(phone'[s].at, file'[s])
            => PromiseOK(s)'
BY DEF WholeOK, PromiseOK

\* Where one request is left, what there is to show.
LEMMA BusySession ==
  ASSUME NEW s \in Session, NEW r \in Request, Active(s)' = {r}
  PROVE  /\ /\ CommitOK(req'[r], file'[s])
            /\ file'[s].part # NoFile => Stable(file'[s].part) \/ req'[r].fd = "part"
            /\ BlobOK(file'[s].blob)
            /\ phone'[s].pc = "done" => file'[s].blob # NoFile
            => WholeOK(s)'
         /\ /\ StepOK(req'[r], file'[s]) /\ phone'[s].at <= req'[r].at
            /\ PartOK(file'[s].part)
            /\ KeptOK(phone'[s].at, file'[s])
            => PromiseOK(s)'
BY DEF WholeOK, PromiseOK

-----------------------------------------------------------------------------
(* Steps that leave the files alone. *)

\* A handler with no file open answers.
LEMMA QuietReturn ==
  ASSUME IInv, NEW r \in Request, req[r] # Idle, req[r].pc # "copying",
         NEW news \in Phone, Return(r, news),
         decl' \in [Session -> {"none", "torn", "ok"}], old' = old,
         UNCHANGED <<file, sweep, crossed, swept>>, UNCHANGED faults \/ Fault,
         req[r].ses \notin crossed /\ news.pc = "done" => file[req[r].ses].blob # NoFile,
         req[r].ses \notin crossed \cup swept => KeptOK(news.at, file[req[r].ses])
  PROVE  IInv'
<1>0. PICK s \in Session : s = req[r].ses
  BY RequestType DEF IInv, Sound
<1>1. Sound /\ Typing /\ RequestsOK /\ s \in Session /\ req[r].fd = "none"
  BY <1>0, RequestType DEF IInv, Sound, RequestsOK, OpenOK
<1>2. /\ Becomes(r, Idle)
      /\ phone' \in [Session -> Phone]
      /\ \A t \in Session \ {s} : phone'[t] = phone[t]
      /\ phone'[s] = news \/ phone'[s] = phone[s]
  BY <1>0, <1>1, Returned
<1>3. Sound'
  <2>1. RequestsOK'
    BY <1>0, <1>1, <1>2, RequestsGoOn DEF OpenOK
  <2>2. FilesOK'
    BY <1>0, <1>1 DEF Sound, FilesOK
  <2>3. file' \in [Session -> Paths] /\ old' \subseteq Session /\ req' \in Slots
    BY <1>0, <1>1, <1>2 DEF Typing, Paths, Becomes
  <2> QED
    BY <1>0, <1>1, <1>2, <2>1, <2>2, <2>3, SoundStep
<1>4. \A t \in Session \ {s} : Untouched(t)
  BY <1>0, <1>1, <1>2, OneTouched
<1>5. ASSUME s \notin crossed
      PROVE  Active(s)' = {} /\ WholeOK(s) /\ Active(s) = {r}
  BY <1>0, <1>1, <1>2, <1>5, OnlyOne, AloneAfter
<1>6. ASSUME s \notin crossed PROVE WholeOK(s)'
  <2>1. file[s].part # NoFile => Stable(file[s].part)
    BY <1>0, <1>1, <1>5, <1>6 DEF WholeOK
  <2>2. BlobOK(file[s].blob) /\ (phone'[s].pc = "done" => file[s].blob # NoFile)
    BY <1>0, <1>2, <1>5, <1>6 DEF WholeOK
  <2> QED
    BY <1>0, <1>1, <1>5, <1>6, <2>1, <2>2, QuietSession
<1>7. ASSUME s \notin crossed \cup swept PROVE PromiseOK(s)'
  <2>1. PromiseOK(s)
    BY <1>0, <1>1, <1>7 DEF IInv
  <2>2. PartOK(file[s].part) /\ KeptOK(phone'[s].at, file[s])
    BY <1>0, <1>2, <1>7, <2>1 DEF PromiseOK
  <2> QED
    BY <1>0, <1>1, <1>5, <1>7, <2>2, QuietSession
<1> QED
  BY <1>0, <1>1, <1>3, <1>4, <1>6, <1>7, LocalStep

\* A handler with no file open goes on, and neither opens one.
LEMMA QuietMove ==
  ASSUME IInv, NEW r \in Request, req[r] # Idle, req[r].pc # "copying",
         NEW pc \in Steps \ {"copying"}, NEW g \in RequestState, Becomes(r, g),
         g.pc = pc, g.ses = req[r].ses, g.at = req[r].at, g.end = req[r].end, g.fd = req[r].fd,
         decl' \in [Session -> {"none", "torn", "ok"}], old' \subseteq Session,
         UNCHANGED <<file, sweep, phone, crossed, swept, faults>>,
         req[r].ses \notin crossed => CommitOK(g, file[req[r].ses]),
         req[r].ses \notin crossed \cup swept => StepOK(g, file[req[r].ses])
  PROVE  IInv'
<1>0. PICK s \in Session : s = req[r].ses
  BY RequestType DEF IInv, Sound
<1>1. /\ Sound /\ Typing /\ RequestsOK /\ s \in Session
      /\ req[r].fd = "none" /\ req[r].at <= req[r].end
  BY <1>0, RequestType DEF IInv, Sound, RequestsOK, OpenOK
<1>2. Sound'
  <2>1. OpenOK(g, file')
    BY <1>0, <1>1 DEF OpenOK, Path
  <2>2. RequestsOK'
    BY <1>0, <1>1, <2>1, RequestsGoOn
  <2>3. FilesOK'
    BY <1>0, <1>1 DEF Sound, FilesOK
  <2>4. file' \in [Session -> Paths] /\ req' \in Slots /\ phone' \in [Session -> Phone]
    BY <1>0, <1>1 DEF Sound, Typing, Paths, Becomes
  <2> QED
    BY <1>0, <1>1, <2>2, <2>3, <2>4, SoundStep
<1>3. \A t \in Session \ {s} : Untouched(t)
  BY <1>0, <1>1, OneTouched
<1>4. ASSUME s \notin crossed
      PROVE  Active(s)' = {r} /\ WholeOK(s) /\ Active(s) = {r}
  <2>1. Active(s) = {r} /\ WholeOK(s)
    BY <1>0, <1>4, OnlyOne
  <2>2. g # Idle
    BY Absent
  <2> QED
    BY <1>0, <1>1, <2>1, <2>2, AloneAfter
<1>5. req'[r] = g
  BY DEF Becomes
<1>6. ASSUME s \notin crossed PROVE WholeOK(s)'
  <2>1. file[s].part # NoFile => Stable(file[s].part)
    BY <1>0, <1>1, <1>4, <1>6 DEF WholeOK
  <2>2. BlobOK(file[s].blob) /\ (phone[s].pc = "done" => file[s].blob # NoFile)
    BY <1>4, <1>6 DEF WholeOK
  <2> QED
    BY <1>0, <1>1, <1>4, <1>5, <1>6, <2>1, <2>2, BusySession
<1>7. ASSUME s \notin crossed \cup swept PROVE PromiseOK(s)'
  <2>1. PromiseOK(s)
    BY <1>0, <1>1, <1>7 DEF IInv
  <2>2. PartOK(file[s].part) /\ KeptOK(phone[s].at, file[s])
    BY <2>1 DEF PromiseOK
  <2>3. phone'[s].at <= g.at
    BY <1>0, <1>4, <1>7, <2>1 DEF PromiseOK
  <2> QED
    BY <1>0, <1>1, <1>4, <1>5, <1>7, <2>2, <2>3, BusySession
<1> QED
  BY <1>0, <1>1, <1>2, <1>3, <1>6, <1>7, LocalStep

\* What is in the part of a session left to itself, and how much of it counts.
LEMMA PartAlone ==
  ASSUME IInv, NEW r \in Request, req[r] # Idle, req[r].pc # "copying",
         req[r].ses \notin crossed \cup swept
  PROVE  LET s == req[r].ses  f == file[s].part IN
         /\ s \in Session /\ PromiseOK(s) /\ WholeOK(s)
         /\ StepOK(req[r], file[s]) /\ CommitOK(req[r], file[s])
         /\ f # NoFile =>
              /\ f \in File /\ Len(f.data) \in Nat /\ Len(f.data) <= Size
              /\ f.cut \/ f.synced = Len(f.data)
              /\ \A k \in 1..Len(f.data) : f.data[k] = k
<1> DEFINE s == req[r].ses
           f == file[s].part
<1>1. s \in Session /\ WholeOK(s) /\ Active(s) = {r} /\ CommitOK(req[r], file[s])
  BY OnlyOne
<1>2. PromiseOK(s) /\ StepOK(req[r], file[s])
  BY <1>1 DEF IInv, PromiseOK
<1>3. req[r].fd = "none"
  BY RequestType DEF IInv, Sound, RequestsOK, OpenOK
<1>4. ASSUME f # NoFile
      PROVE  /\ f \in File /\ Len(f.data) \in Nat /\ Len(f.data) <= Size
             /\ f.cut \/ f.synced = Len(f.data)
             /\ \A k \in 1..Len(f.data) : f.data[k] = k
  <2>1. f \in File
    BY <1>1, <1>4, PathType DEF IInv, Sound, Path
  <2>2. f.cut \/ f.synced = Len(f.data)
    BY <1>1, <1>3, <1>4 DEF WholeOK, Stable
  <2>3. Len(f.data) <= Size /\ \A k \in 1..Len(f.data) : f.data[k] = k
    BY <1>2, <1>4 DEF PromiseOK, PartOK
  <2> QED
    BY <2>1, <2>2, <2>3, FileType
<1> QED
  BY <1>1, <1>2, <1>4

\* A client told to start again is owed nothing.
LEMMA News ==
  /\ Away \in Phone /\ Away.at = 0 /\ Away.pc # "done"
  /\ Told(0) \in Phone /\ Told(0).at = 0 /\ Told(0).pc # "done"
  /\ \A n \in 0..Size : Told(n) \in Phone /\ Told(n).at = n /\ Told(n).pc # "done"
  /\ Done \in Phone /\ Done.at = Size /\ Done.pc = "done"
  /\ \A at : KeptOK(0, at)
BY Constants DEF Away, Told, Done, Phone, KeptOK

\* A handler with no file open refuses.
LEMMA Refused ==
  ASSUME IInv, NEW r \in Request, req[r] # Idle, req[r].pc # "copying", Return(r, Away),
         decl' \in [Session -> {"none", "torn", "ok"}], old' = old,
         UNCHANGED <<file, sweep, crossed, swept>>, UNCHANGED faults \/ Fault
  PROVE  IInv'
BY News, QuietReturn

\* The answers that refuse, or give up.
LEMMA RefusedSteps ==
  ASSUME IInv, NEW r \in Request,
         \/ CreateUnreadable(r) \/ DeclFails(r) \/ ChunkRefused(r) \/ CommitRefused(r)
         \/ AdoptFindsNone(r) \/ AdoptFails(r) \/ FinishFails(r)
  PROVE  IInv'
<1>1. req[r] # Idle /\ req[r].pc # "copying" /\ Return(r, Away)
  BY DEF CreateUnreadable, DeclFails, ChunkRefused, CommitRefused, AdoptFindsNone,
         AdoptFails, FinishFails, At
<1>2. /\ decl' = decl /\ old' = old /\ UNCHANGED <<file, sweep, crossed, swept>>
      /\ UNCHANGED faults \/ Fault
  BY DEF CreateUnreadable, DeclFails, ChunkRefused, CommitRefused, AdoptFindsNone,
         AdoptFails, FinishFails, seen
<1>3. decl' \in [Session -> {"none", "torn", "ok"}]
  BY <1>2 DEF IInv, Sound, Typing
<1> QED
  BY <1>1, <1>2, <1>3, Refused

\* A client is told how much is there.
LEMMA CreateResumesStep ==
  ASSUME IInv, NEW r \in Request, CreateResumes(r)
  PROVE  IInv'
<1>0. PICK s \in Session : s = req[r].ses
  BY RequestType DEF CreateResumes, At, IInv, Sound
<1>1. /\ req[r] # Idle /\ req[r].pc # "copying"
      /\ Return(r, IF Received(s) <= Size THEN Told(Received(s)) ELSE Away)
      /\ UNCHANGED <<decl, file, old, sweep, crossed, swept, faults>>
  BY <1>0 DEF CreateResumes, At, seen
<1>2. decl' \in [Session -> {"none", "torn", "ok"}] /\ Typing
  BY <1>1 DEF IInv, Sound, Typing
<1>3. Received(s) \in Nat
  <2>1. file[s].part \in File \cup {NoFile}
    BY <1>2, PathType DEF Path
  <2> QED
    BY <2>1, FileType DEF Received
<1>4. CASE Received(s) <= Size
  <2>1. ASSUME s \notin crossed \cup swept PROVE KeptOK(Received(s), file[s])
    <3>1. file[s].part # NoFile =>
            file[s].part.cut \/ file[s].part.synced = Len(file[s].part.data)
      BY <1>0, <1>1, <2>1, PartAlone
    <3> QED
      BY <1>3, <3>1 DEF KeptOK, Received
  <2>2. Return(r, Told(Received(s)))
    BY <1>1, <1>4
  <2>3. Received(s) \in 0..Size
    BY <1>3, <1>4, Constants
  <2> QED
    BY <1>0, <1>1, <1>2, <2>1, <2>2, <2>3, News, QuietReturn
<1>5. CASE ~(Received(s) <= Size)
  BY <1>1, <1>2, <1>5, Refused
<1> QED
  BY <1>4, <1>5

\* A client is told that its upload is archived.
LEMMA FinishesStep ==
  ASSUME IInv, NEW r \in Request, Finishes(r)
  PROVE  IInv'
<1>0. PICK s \in Session : s = req[r].ses
  BY RequestType DEF Finishes, At, IInv, Sound
<1>1. /\ req[r] # Idle /\ req[r].pc = "finishing" /\ Return(r, Done)
      /\ UNCHANGED <<decl, file, old, sweep, crossed, swept, faults>>
  BY DEF Finishes, At, seen
<1>2. decl' \in [Session -> {"none", "torn", "ok"}]
  BY <1>1 DEF IInv, Sound, Typing
<1>3. ASSUME s \notin crossed PROVE file[s].blob # NoFile
  BY <1>0, <1>1, <1>3, OnlyOne DEF CommitOK
<1>4. ASSUME s \notin crossed \cup swept PROVE KeptOK(Done.at, file[s])
  BY <1>3, <1>4 DEF KeptOK
<1> QED
  BY <1>0, <1>1, <1>2, <1>3, <1>4, News, QuietReturn

\* The sidecar is gone: what was rejected is answered, what was verified goes on.
LEMMA ForgetsStep ==
  ASSUME IInv, NEW r \in Request, Forgets(r)
  PROVE  IInv'
<1>0. PICK s \in Session : s = req[r].ses
  BY RequestType DEF Forgets, At, IInv, Sound
<1>1. /\ req[r] # Idle /\ req[r].pc = "forgetting"
      /\ decl' = [decl EXCEPT ![s] = "none"]
      /\ UNCHANGED <<file, old, sweep, crossed, swept, faults>>
  BY <1>0 DEF Forgets, At, seen
<1>2. decl' \in [Session -> {"none", "torn", "ok"}] /\ old' \subseteq Session /\ Typing
  BY <1>1 DEF IInv, Sound, Typing
<1>3. CASE req[r].good
  <2>1. To(r, "finishing") /\ phone' = phone
    BY <1>3 DEF Forgets
  <2>2. PICK g \in RequestState :
          /\ Becomes(r, g)
          /\ g.pc = "finishing" /\ g.ses = req[r].ses /\ g.at = req[r].at /\ g.end = req[r].end
          /\ g.fd = req[r].fd /\ g.good = req[r].good
    BY <1>1, <1>2, <2>1, Moved DEF Steps
  <2>3. ASSUME s \notin crossed PROVE CommitOK(g, file[s])
    BY <1>0, <1>1, <1>3, <2>2, <2>3, OnlyOne DEF CommitOK
  <2>4. StepOK(g, file[s])
    BY <1>3, <2>2 DEF StepOK
  <2> QED
    BY <1>0, <1>1, <1>2, <2>1, <2>2, <2>3, <2>4, QuietMove DEF Steps
<1>4. CASE ~req[r].good
  <2>1. Return(r, Away)
    BY <1>4 DEF Forgets
  <2> QED
    BY <1>1, <1>2, <2>1, Refused
<1> QED
  BY <1>3, <1>4

\* A handler that goes on, with no more to show of it than where it is.
LEMMA MovedOn ==
  ASSUME IInv, NEW r \in Request, req[r] # Idle, NEW pc \in Steps, To(r, pc),
         req[r].pc \notin {"copying", "stating", "renaming", "clearing", "forgetting", "finishing"},
         pc \notin {"copying", "stating", "renaming", "clearing", "forgetting", "finishing"},
         decl' \in [Session -> {"none", "torn", "ok"}], old' \subseteq Session,
         UNCHANGED <<file, sweep, phone, seen, faults>>,
         pc = "opening" => Received(req[r].ses) = req[r].at,
         pc = "adopting" => Received(req[r].ses) = Size
  PROVE  IInv'
<1>0. PICK s \in Session : s = req[r].ses
  BY RequestType DEF IInv, Sound
<1>1. PICK g \in RequestState :
        /\ Becomes(r, g)
        /\ g.pc = pc /\ g.ses = req[r].ses /\ g.at = req[r].at /\ g.end = req[r].end
        /\ g.fd = req[r].fd /\ g.good = req[r].good
  BY Moved DEF IInv, Sound
<1>2. ASSUME s \notin crossed PROVE CommitOK(g, file[s])
  BY <1>0, <1>1, <1>2, OnlyOne DEF CommitOK
<1>3. StepOK(g, file[s])
  <2>1. pc = "opening" => IF file[s].part = NoFile THEN g.at = 0 ELSE Len(file[s].part.data) = g.at
    BY <1>0, <1>1 DEF Received
  <2>2. pc = "adopting" => file[s].part # NoFile /\ Len(file[s].part.data) = Size
    BY <1>0, Constants DEF Received
  <2> QED
    BY <1>1, <2>1, <2>2 DEF StepOK
<1> QED
  BY <1>0, <1>1, <1>2, <1>3, QuietMove DEF seen

\* The steps of a handler that leave the files alone and are before a commit's.
LEMMA MovedSteps ==
  ASSUME IInv, NEW r \in Request,
         \/ CreateFindsNone(r) \/ DeclTruncated(r) \/ DeclWritten(r) \/ ChunkAccepted(r)
         \/ CommitAccepted(r)
  PROVE  IInv'
<1>0. req[r] # Idle /\ decl \in [Session -> {"none", "torn", "ok"}] /\ old \subseteq Session
  BY DEF CreateFindsNone, DeclTruncated, DeclWritten, ChunkAccepted, CommitAccepted, At,
         IInv, Sound, Typing
<1>1. CASE CreateFindsNone(r)
  BY <1>0, <1>1, MovedOn DEF CreateFindsNone, At, Steps
<1>2. CASE DeclTruncated(r)
  <2>1. decl' \in [Session -> {"none", "torn", "ok"}] /\ old' \subseteq Session
    BY <1>0, <1>2 DEF DeclTruncated
  <2> QED
    BY <1>0, <1>2, <2>1, MovedOn DEF DeclTruncated, At, Steps
<1>3. CASE DeclWritten(r)
  <2>1. decl' \in [Session -> {"none", "torn", "ok"}] /\ old' \subseteq Session
    BY <1>0, <1>3 DEF DeclWritten
  <2> QED
    BY <1>0, <1>3, <2>1, MovedOn DEF DeclWritten, At, Steps
<1>4. CASE ChunkAccepted(r)
  BY <1>0, <1>4, MovedOn DEF ChunkAccepted, At, Steps
<1>5. CASE CommitAccepted(r)
  BY <1>0, <1>5, MovedOn DEF CommitAccepted, At, Steps
<1> QED
  BY <1>1, <1>2, <1>3, <1>4, <1>5

\* Adopt finds no blob, and will rename what it has verified.
LEMMA AdoptStatsStep ==
  ASSUME IInv, NEW r \in Request, AdoptStats(r)
  PROVE  IInv'
<1>0. PICK s \in Session : s = req[r].ses
  BY RequestType DEF AdoptStats, At, IInv, Sound
<1>1. /\ req[r] # Idle /\ req[r].pc = "stating" /\ To(r, "renaming")
      /\ UNCHANGED <<decl, file, old, sweep, phone, crossed, swept, faults>>
  BY DEF AdoptStats, At, seen
<1>2. decl' \in [Session -> {"none", "torn", "ok"}] /\ old' \subseteq Session /\ Typing
  BY <1>1 DEF IInv, Sound, Typing
<1>3. PICK g \in RequestState :
        /\ Becomes(r, g)
        /\ g.pc = "renaming" /\ g.ses = req[r].ses /\ g.at = req[r].at /\ g.end = req[r].end
        /\ g.fd = req[r].fd /\ g.good = req[r].good
  BY <1>1, <1>2, Moved DEF Steps
<1>4. ASSUME s \notin crossed PROVE CommitOK(g, file[s])
  BY <1>0, <1>1, <1>3, <1>4, OnlyOne DEF CommitOK
<1>5. ASSUME s \notin crossed \cup swept PROVE StepOK(g, file[s])
  BY <1>0, <1>1, <1>3, <1>5, PartAlone DEF StepOK
<1> QED
  BY <1>0, <1>1, <1>2, <1>3, <1>4, <1>5, QuietMove DEF Steps

\* A part of the right length that is a beginning of the original is all of it.
LEMMA FullIsWhole ==
  ASSUME NEW f \in File, Len(f.data) = Size, \A k \in 1..Len(f.data) : f.data[k] = k
  PROVE  Whole(f.data)
<1>1. f.data \in Seq(Unit)
  BY FileType
<1> QED
  BY <1>1 DEF Whole, Unit

\* Adopt reads the part and compares the digests: of a session left to itself,
\* they match.
LEMMA AdoptReadsStep ==
  ASSUME IInv, NEW r \in Request, AdoptReads(r)
  PROVE  IInv'
<1>0. PICK s \in Session : s = req[r].ses
  BY RequestType DEF AdoptReads, At, IInv, Sound
<1> DEFINE good == Verified(s)
           pc == IF good THEN "stating" ELSE "clearing"
<1>1. /\ req[r] # Idle /\ req[r].pc = "adopting" /\ file[s].part # NoFile
      /\ UNCHANGED <<decl, file, old, sweep, phone, crossed, swept, faults>>
      /\ req' = [req EXCEPT ![r].good = good, ![r].pc = pc]
  BY <1>0 DEF AdoptReads, At, seen
<1>2. decl' \in [Session -> {"none", "torn", "ok"}] /\ old' \subseteq Session /\ Typing
  BY <1>1 DEF IInv, Sound, Typing
<1>3. good \in BOOLEAN /\ pc \in Steps /\ (good <=> Whole(file[s].part.data))
  BY DEF Verified, Whole, Steps
<1> DEFINE h == req[r]
           g1 == [h EXCEPT !.good = good]
           g == [g1 EXCEPT !.pc = pc]
<1>4. h \in RequestState /\ req \in Slots
  BY <1>1, <1>2, RequestType DEF Typing, Slots
<1>5. req' = [req EXCEPT ![r] = g]
  <2>1. req' = [[req EXCEPT ![r] = g1] EXCEPT ![r].pc = pc]
    BY <1>1, Zenon
  <2> HIDE DEF g1
  <2>2. [req EXCEPT ![r] = g1][r] = g1
    BY <1>4 DEF Slots
  <2>3. [[req EXCEPT ![r] = g1] EXCEPT ![r].pc = pc] = [[req EXCEPT ![r] = g1] EXCEPT ![r] = g]
    BY <2>2, Zenon
  <2> HIDE DEF g
  <2>4. [[req EXCEPT ![r] = g1] EXCEPT ![r] = g] = [req EXCEPT ![r] = g]
    BY <1>4 DEF Slots
  <2> QED
    BY <2>1, <2>3, <2>4, Zenon
<1> HIDE DEF h, good, pc
<1>6. /\ g1 \in RequestState /\ g1.ses = h.ses /\ g1.at = h.at /\ g1.end = h.end
      /\ g1.fd = h.fd /\ g1.good = good
  BY <1>3, <1>4, GoodEdit, Zenon
<1> HIDE DEF g1
<1>7. /\ g \in RequestState /\ g.pc = pc /\ g.ses = h.ses /\ g.at = h.at /\ g.end = h.end
      /\ g.fd = h.fd /\ g.good = good
  BY <1>3, <1>6, PcEdit, Zenon
<1> HIDE DEF g
<1>8. Becomes(r, g)
  BY <1>4, <1>5, <1>7 DEF Slots, Becomes
<1>9. pc \in {"stating", "clearing"} /\ (pc = "stating" <=> good)
  BY DEF pc
<1>10. ASSUME s \notin crossed PROVE CommitOK(g, file[s])
  <2>1. h.fd # "blob"
    BY <1>0, <1>1, <1>10, OnlyOne DEF CommitOK, h
  <2> QED
    BY <1>3, <1>7, <1>9, <2>1 DEF CommitOK
<1>11. ASSUME s \notin crossed \cup swept PROVE StepOK(g, file[s])
  <2>1. Len(file[s].part.data) = Size
    BY <1>0, <1>1, <1>11, PartAlone DEF StepOK
  <2>2. good
    BY <1>0, <1>1, <1>3, <1>11, <2>1, PartAlone, FullIsWhole
  <2> QED
    BY <1>1, <1>7, <1>9, <2>2 DEF StepOK
<1>12. /\ g.ses = req[r].ses /\ g.at = req[r].at /\ g.end = req[r].end /\ g.fd = req[r].fd
       /\ pc \in Steps \ {"copying"}
  BY <1>3, <1>7, <1>9 DEF h
<1> QED
  BY <1>0, <1>1, <1>2, <1>7, <1>8, <1>10, <1>11, <1>12, QuietMove

-----------------------------------------------------------------------------
(* Create touches the part, and Append opens it. *)

\* The part is there, and the client is told that nothing is.
LEMMA PartTouchedStep ==
  ASSUME IInv, NEW r \in Request, PartTouched(r)
  PROVE  IInv'
<1>0. PICK s \in Session : s = req[r].ses
  BY RequestType DEF PartTouched, At, IInv, Sound
<1>1. /\ req[r] # Idle /\ req[r].pc = "touching" /\ Return(r, Told(0))
      /\ file' = Created(s) /\ old' = Touched(s)
      /\ UNCHANGED <<decl, sweep, crossed, swept, faults>>
  BY <1>0 DEF PartTouched, At, seen
<1>2. Sound /\ Typing /\ RequestsOK /\ req[r].fd = "none"
  BY <1>1, RequestType DEF IInv, Sound, RequestsOK, OpenOK
<1>3. decl' \in [Session -> {"none", "torn", "ok"}] /\ old' \subseteq Session
  BY <1>1, <1>2 DEF Typing, Touched
<1>4. /\ file' \in [Session -> Paths] /\ FilesOK'
      /\ file'[s].part = (IF file[s].part = NoFile THEN Empty ELSE file[s].part)
      /\ file'[s].blob = file[s].blob
      /\ \A t \in Session \ {s} : file'[t] = file[t]
      /\ \A t \in Session, p \in Path : file[t][p] # NoFile => file'[t][p] = file[t][p]
  BY <1>1, <1>2, CreatedFile
<1>5. /\ Becomes(r, Idle)
      /\ phone' \in [Session -> Phone]
      /\ \A t \in Session \ {s} : phone'[t] = phone[t]
      /\ phone'[s] = Told(0) \/ phone'[s] = phone[s]
  BY <1>0, <1>1, <1>2, Returned, News
<1>6. Sound'
  <2>1. RequestsOK'
    BY <1>2, <1>4, <1>5, RequestsGoOn DEF OpenOK
  <2>2. req' \in Slots
    BY <1>5 DEF Becomes
  <2> QED
    BY <1>1, <1>2, <1>3, <1>4, <1>5, <2>1, <2>2, SoundStep
<1>7. \A t \in Session \ {s} : Untouched(t)
  BY <1>0, <1>1, <1>2, <1>4, <1>5, OneTouched
<1>8. ASSUME s \notin crossed PROVE Active(s)' = {} /\ WholeOK(s) /\ Active(s) = {r}
  BY <1>0, <1>1, <1>5, <1>8, OnlyOne, AloneAfter
<1>9. ASSUME s \notin crossed PROVE WholeOK(s)'
  <2>1. file'[s].part # NoFile => Stable(file'[s].part)
    BY <1>2, <1>4, <1>8, <1>9, EmptyFile DEF WholeOK, Stable
  <2>2. BlobOK(file'[s].blob) /\ (phone'[s].pc = "done" => file'[s].blob # NoFile)
    BY <1>4, <1>5, <1>8, <1>9, News DEF WholeOK
  <2> QED
    BY <1>8, <1>9, <2>1, <2>2, QuietSession
<1>10. ASSUME s \notin crossed \cup swept PROVE PromiseOK(s)'
  <2>1. PromiseOK(s)
    BY <1>10 DEF IInv
  <2>2. PartOK(file'[s].part)
    BY <1>4, <2>1, EmptyFile, Constants DEF PromiseOK, PartOK
  <2>3. KeptOK(phone'[s].at, file'[s])
    BY <1>4, <1>5, <2>1, News DEF PromiseOK, KeptOK
  <2> QED
    BY <1>8, <1>10, <2>2, <2>3, QuietSession
<1> QED
  BY <1>1, <1>6, <1>7, <1>9, <1>10, LocalStep

\* Append opens the part, and from there on it has a descriptor.
LEMMA ChunkOpensStep ==
  ASSUME IInv, NEW r \in Request, ChunkOpens(r)
  PROVE  IInv'
<1>0. PICK s \in Session : s = req[r].ses
  BY RequestType DEF ChunkOpens, At, IInv, Sound
<1>1. /\ req[r] # Idle /\ req[r].pc = "opening"
      /\ req' = [req EXCEPT ![r].pc = "copying", ![r].fd = "part"]
      /\ file' = Created(s) /\ old' = Touched(s)
      /\ UNCHANGED <<decl, sweep, phone, crossed, swept, faults>>
  BY <1>0 DEF ChunkOpens, At, seen
<1>2. Sound /\ Typing /\ RequestsOK /\ req[r].at <= req[r].end
  BY <1>1 DEF IInv, Sound, RequestsOK, OpenOK
<1>3. /\ decl' \in [Session -> {"none", "torn", "ok"}] /\ old' \subseteq Session
      /\ phone' \in [Session -> Phone]
  BY <1>1, <1>2 DEF Sound, Typing, Touched
<1>4. /\ file' \in [Session -> Paths] /\ FilesOK'
      /\ file'[s].part = (IF file[s].part = NoFile THEN Empty ELSE file[s].part)
      /\ file'[s].part # NoFile
      /\ file'[s].blob = file[s].blob
      /\ \A t \in Session \ {s} : file'[t] = file[t]
      /\ \A t \in Session, p \in Path : file[t][p] # NoFile => file'[t][p] = file[t][p]
  BY <1>1, <1>2, CreatedFile
<1> DEFINE h == req[r]
           g1 == [h EXCEPT !.pc = "copying"]
           g == [g1 EXCEPT !.fd = "part"]
<1>5. h \in RequestState /\ req \in Slots
  BY <1>1, <1>2, RequestType DEF Typing, Slots
<1>6. req' = [req EXCEPT ![r] = g]
  <2>1. req' = [[req EXCEPT ![r] = g1] EXCEPT ![r].fd = "part"]
    BY <1>1, Zenon
  <2> HIDE DEF g1
  <2>2. [req EXCEPT ![r] = g1][r] = g1
    BY <1>5 DEF Slots
  <2>3. [[req EXCEPT ![r] = g1] EXCEPT ![r].fd = "part"] = [[req EXCEPT ![r] = g1] EXCEPT ![r] = g]
    BY <2>2, Zenon
  <2> HIDE DEF g
  <2>4. [[req EXCEPT ![r] = g1] EXCEPT ![r] = g] = [req EXCEPT ![r] = g]
    BY <1>5 DEF Slots
  <2> QED
    BY <2>1, <2>3, <2>4, Zenon
<1> HIDE DEF h
<1>7. /\ g1 \in RequestState /\ g1.pc = "copying" /\ g1.ses = h.ses /\ g1.at = h.at
      /\ g1.end = h.end /\ g1.good = h.good
  BY <1>5, PcEdit, Zenon DEF Steps
<1> HIDE DEF g1
<1>8. /\ g \in RequestState /\ g.pc = "copying" /\ g.ses = h.ses /\ g.at = h.at
      /\ g.end = h.end /\ g.fd = "part" /\ g.good = h.good
  <2>1. /\ g \in RequestState /\ g.pc = g1.pc /\ g.ses = g1.ses /\ g.at = g1.at
        /\ g.end = g1.end /\ g.fd = "part" /\ g.good = g1.good
    BY <1>7, FdEdit, Zenon
  <2> QED
    BY <1>7, <2>1
<1> HIDE DEF g
<1>9. Becomes(r, g) /\ g # Idle /\ g.ses = s
  BY <1>0, <1>5, <1>6, <1>8, Absent DEF Slots, Becomes, h
<1>10. Sound'
  <2>1. OpenOK(g, file')
    BY <1>2, <1>4, <1>8, <1>9 DEF OpenOK, Path, h
  <2>2. RequestsOK'
    BY <1>2, <1>4, <1>9, <2>1, RequestsGoOn
  <2>3. req' \in Slots
    BY <1>9 DEF Becomes
  <2> QED
    BY <1>1, <1>2, <1>3, <1>4, <2>2, <2>3, SoundStep
<1>11. \A t \in Session \ {s} : Untouched(t)
  BY <1>0, <1>1, <1>2, <1>4, <1>9, OneTouched
<1>12. ASSUME s \notin crossed PROVE Active(s)' = {r} /\ WholeOK(s) /\ Active(s) = {r}
  <2>1. WholeOK(s) /\ Active(s) = {r}
    BY <1>0, <1>1, <1>12, OnlyOne
  <2> QED
    BY <1>9, <2>1, AloneAfter
<1>13. req'[r] = g
  BY <1>9 DEF Becomes
<1>14. ASSUME s \notin crossed PROVE WholeOK(s)'
  <2>1. CommitOK(g, file'[s])
    BY <1>8 DEF CommitOK
  <2>2. BlobOK(file'[s].blob) /\ (phone'[s].pc = "done" => file'[s].blob # NoFile)
    BY <1>1, <1>4, <1>12, <1>14 DEF WholeOK
  <2> QED
    BY <1>8, <1>12, <1>13, <1>14, <2>1, <2>2, BusySession
<1>15. ASSUME s \notin crossed \cup swept PROVE PromiseOK(s)'
  <2>1. PromiseOK(s) /\ StepOK(h, file[s])
    BY <1>0, <1>1, <1>15, PartAlone DEF h
  <2>2. PartOK(file'[s].part)
    BY <1>4, <2>1, EmptyFile, Constants DEF PromiseOK, PartOK
  <2>3. KeptOK(phone'[s].at, file'[s])
    BY <1>1, <1>4, <2>1 DEF PromiseOK, KeptOK
  <2>4. StepOK(g, file'[s])
    <3>1. h.pc = "opening"
      BY <1>1 DEF h
    <3> QED
      BY <1>4, <1>8, <2>1, <3>1, EmptyFile DEF StepOK
  <2>5. phone'[s].at <= g.at
    BY <1>1, <1>8, <1>12, <1>15, <2>1 DEF PromiseOK, h
  <2> QED
    BY <1>12, <1>13, <1>15, <2>2, <2>3, <2>4, <2>5, BusySession
<1> QED
  BY <1>1, <1>10, <1>11, <1>14, <1>15, LocalStep

-----------------------------------------------------------------------------
(* Append copies. *)

\* A request that copies, and what it copies to.
LEMMA Copying ==
  ASSUME IInv, NEW r \in Request, req[r] # Idle, req[r].pc = "copying"
  PROVE  LET s == req[r].ses  f == file[s].part IN
         /\ req[r].fd \in {"part", "blob", "gone"}
         /\ req[r].fd \in Path => file[s][req[r].fd] # NoFile
         /\ req[r].at \in Nat /\ req[r].end \in Nat
         /\ req[r].at <= req[r].end /\ req[r].end <= Size
         /\ s \notin crossed =>
              /\ req[r].fd # "blob"
              /\ req[r].fd = "gone" /\ f # NoFile => Stable(f)
         /\ s \notin crossed \cup swept =>
              /\ PromiseOK(s)
              /\ req[r].fd = "part" /\ Len(f.data) = req[r].at
              /\ f \in File /\ f # NoFile
              /\ \A k \in 1..Len(f.data) : f.data[k] = k
<1>1. /\ req[r].fd \in {"none", "part", "blob", "gone"} /\ req[r].ses \in Session
      /\ req[r].at \in 0..Size /\ req[r].end \in 0..Size
  BY RequestType DEF IInv, Sound
<1>2. OpenOK(req[r], file)
  BY DEF IInv, Sound, RequestsOK
<1>3. ASSUME req[r].ses \notin crossed
      PROVE  /\ req[r].fd # "blob"
             /\ req[r].fd = "gone" /\ file[req[r].ses].part # NoFile =>
                  Stable(file[req[r].ses].part)
  BY <1>3, OnlyOne DEF CommitOK, WholeOK
<1>4. ASSUME req[r].ses \notin crossed \cup swept
      PROVE  /\ PromiseOK(req[r].ses) /\ req[r].fd = "part"
             /\ Len(file[req[r].ses].part.data) = req[r].at
             /\ PartOK(file[req[r].ses].part)
  <2>1. PromiseOK(req[r].ses) /\ r \in Active(req[r].ses)
    BY <1>1, <1>4, RequestType DEF IInv, Sound
  <2> QED
    BY <2>1 DEF PromiseOK, StepOK
<1>5. ASSUME req[r].ses \notin crossed \cup swept
      PROVE  LET f == file[req[r].ses].part IN
             /\ f \in File /\ f # NoFile
             /\ \A k \in 1..Len(f.data) : f.data[k] = k
  <2>1. file[req[r].ses].part # NoFile
    BY <1>2, <1>4, <1>5 DEF OpenOK, Path
  <2>2. file[req[r].ses].part \in File
    BY <1>1, <2>1, PathType DEF IInv, Sound, Path
  <2> QED
    BY <1>4, <1>5, <2>1, <2>2 DEF PartOK
<1> QED
  BY <1>1, <1>2, <1>3, <1>4, <1>5, Constants DEF OpenOK

\* One unit more.
LEMMA ChunkCopiesStep ==
  ASSUME IInv, NEW r \in Request, ChunkCopies(r)
  PROVE  IInv'
<1>0. PICK s \in Session : s = req[r].ses
  BY RequestType DEF ChunkCopies, At, IInv, Sound
<1> DEFINE h == req[r]
           n == h.at + 1
           g == [h EXCEPT !.at = n]
           fd == h.fd
<1>1. /\ req[r] # Idle /\ h.pc = "copying" /\ h.at < h.end
      /\ file' = IF fd = "gone" THEN file ELSE [file EXCEPT ![s][fd].data = Append(@, n)]
      /\ old' = IF fd = "part" THEN old \ {s} ELSE old
      /\ req' = [req EXCEPT ![r] = g]
      /\ UNCHANGED <<decl, sweep, phone, crossed, swept, faults>>
  BY <1>0 DEF ChunkCopies, At, seen
<1>2. Sound /\ Typing /\ RequestsOK /\ FilesOK /\ req \in Slots /\ h \in RequestState
  BY <1>1, RequestType DEF IInv, Sound, Typing, Slots
<1>3. /\ fd \in {"part", "blob", "gone"}
      /\ fd \in Path => file[s][fd] # NoFile
      /\ n \in 0..Size /\ n \in Unit /\ n <= h.end /\ h.at \in Nat
  <2>1. /\ fd \in {"part", "blob", "gone"}
        /\ fd \in Path => file[s][fd] # NoFile
        /\ h.at \in Nat /\ h.end \in Nat /\ h.end <= Size
    BY <1>0, <1>1, Copying
  <2> QED
    BY <1>1, <2>1, Constants DEF Unit
<1> HIDE DEF h, n
<1>4. /\ g \in RequestState /\ g.pc = h.pc /\ g.ses = h.ses /\ g.at = n
      /\ g.end = h.end /\ g.fd = h.fd /\ g.good = h.good
  BY <1>2, <1>3, AtEdit, Zenon
<1> HIDE DEF g
<1>5. Becomes(r, g) /\ g # Idle /\ g.ses = s /\ req'[r] = g
  BY <1>0, <1>1, <1>2, <1>4, Absent DEF Slots, Becomes, h
<1>6. ASSUME fd \in Path
      PROVE \E f \in File :
         /\ file' \in [Session -> Paths] /\ FilesOK'
         /\ file'[s][fd] = f
         /\ f.data = Append(file[s][fd].data, n)
         /\ f.synced = file[s][fd].synced /\ f.cut = file[s][fd].cut
         /\ \A q \in Path \ {fd} : file'[s][q] = file[s][q]
         /\ \A t \in Session \ {s} : file'[t] = file[t]
         /\ \A t \in Session, q \in Path : file[t][q] # NoFile => file'[t][q] # NoFile
  <2>1. file' = Grown(s, fd, n)
    BY <1>1, <1>6 DEF Path, Grown
  <2>2. file[s][fd] # NoFile
    BY <1>3, <1>6
  <2> HIDE DEF fd
  <2> QED
    BY <1>2, <1>3, <1>6, <2>1, <2>2, GrownFile
<1>7. ASSUME fd = "gone" PROVE file' = file
  BY <1>1, <1>7
<1>8. /\ file' \in [Session -> Paths] /\ FilesOK'
      /\ \A t \in Session \ {s} : file'[t] = file[t]
      /\ \A t \in Session, q \in Path : file[t][q] # NoFile => file'[t][q] # NoFile
  <2>1. CASE fd \in Path
    BY <1>6, <2>1
  <2>2. CASE fd = "gone"
    BY <1>2, <1>7, <2>2 DEF Typing, Paths, FilesOK
  <2> QED
    BY <1>3, <2>1, <2>2 DEF Path
<1>9. Sound'
  <2>1. OpenOK(g, file')
    <3>1. OpenOK(h, file)
      BY <1>2 DEF RequestsOK, h
    <3>2. fd \in Path => file'[s][fd] # NoFile
      BY <1>3, <1>8
    <3> QED
      BY <1>1, <1>3, <1>4, <1>5, <3>1, <3>2 DEF OpenOK, h
  <2>2. RequestsOK'
    BY <1>2, <1>5, <1>8, <2>1, RequestsGoOn
  <2>3. /\ req' \in Slots /\ old' \subseteq Session
        /\ decl' \in [Session -> {"none", "torn", "ok"}] /\ phone' \in [Session -> Phone]
    BY <1>1, <1>2, <1>5 DEF Becomes, Sound, Typing
  <2> QED
    BY <1>1, <1>2, <1>8, <2>2, <2>3, SoundStep
<1>10. \A t \in Session \ {s} : Untouched(t)
  BY <1>0, <1>1, <1>2, <1>5, <1>8, OneTouched
<1>11. ASSUME s \notin crossed
       PROVE  Active(s)' = {r} /\ WholeOK(s) /\ Active(s) = {r} /\ CommitOK(h, file[s])
  <2>1. WholeOK(s) /\ Active(s) = {r} /\ CommitOK(h, file[s])
    BY <1>0, <1>1, <1>11, OnlyOne DEF h
  <2> QED
    BY <1>5, <2>1, AloneAfter
<1>12. ASSUME s \notin crossed PROVE WholeOK(s)'
  <2>1. fd # "blob" /\ (fd = "gone" /\ file[s].part # NoFile => Stable(file[s].part))
    BY <1>0, <1>1, <1>12, Copying DEF h
  <2>2. CommitOK(g, file'[s])
    BY <1>1, <1>4, <2>1 DEF CommitOK
  <2>3. file'[s].blob = file[s].blob
    BY <1>3, <1>6, <1>7, <2>1 DEF Path
  <2>4. BlobOK(file'[s].blob) /\ (phone'[s].pc = "done" => file'[s].blob # NoFile)
    BY <1>1, <1>11, <1>12, <2>3 DEF WholeOK
  <2>5. file'[s].part # NoFile => Stable(file'[s].part) \/ g.fd = "part"
    BY <1>3, <1>4, <1>7, <2>1
  <2> QED
    BY <1>5, <1>11, <1>12, <2>2, <2>4, <2>5, BusySession
<1>13. ASSUME s \notin crossed \cup swept PROVE PromiseOK(s)'
  <2> DEFINE d == file[s].part.data
  <2>1. /\ PromiseOK(s) /\ fd = "part" /\ Len(d) = h.at
        /\ file[s].part \in File /\ \A k \in 1..Len(d) : d[k] = k
    BY <1>0, <1>1, <1>13, Copying DEF h
  <2>2. PICK f \in File :
         /\ file'[s].part = f
         /\ f.data = Append(d, n)
         /\ f.synced = file[s].part.synced /\ f.cut = file[s].part.cut
         /\ file'[s].blob = file[s].blob
    BY <1>6, <2>1 DEF Path
  <2>3. d \in Seq(Unit) /\ f # NoFile
    BY <2>1, FileType
  <2> HIDE DEF d
  <2>4. Len(f.data) = n /\ \A k \in 1..n : f.data[k] = k
    <3>1. Len(f.data) = Len(d) + 1
      BY <2>2, <2>3
    <3>2. ASSUME NEW k \in 1..n PROVE f.data[k] = k
      <4>1. CASE k = n
        BY <2>1, <2>2, <2>3, <4>1 DEF n
      <4>2. CASE k # n
        <5>1. k \in 1..Len(d)
          BY <1>3, <2>1, <4>2 DEF n
        <5> QED
          BY <2>1, <2>2, <2>3, <5>1
      <4> QED
        BY <4>1, <4>2
    <3> QED
      BY <2>1, <3>1, <3>2 DEF n
  <2>5. PartOK(file'[s].part)
    BY <1>3, <2>2, <2>4 DEF PartOK
  <2>6. StepOK(g, file'[s])
    BY <1>1, <1>4, <2>1, <2>2, <2>4 DEF StepOK
  <2>7. KeptOK(phone'[s].at, file'[s])
    BY <1>1, <2>1, <2>2, <2>3 DEF PromiseOK, KeptOK
  <2>8. phone'[s].at <= g.at
    <3>1. phone[s].at <= h.at
      BY <1>11, <1>13, <2>1 DEF PromiseOK, h
    <3>2. phone[s].at \in Nat
      BY <1>2, Constants DEF Typing
    <3> QED
      BY <1>1, <1>3, <1>4, <3>1, <3>2 DEF n
  <2> QED
    BY <1>5, <1>11, <1>13, <2>5, <2>6, <2>7, <2>8, BusySession
<1> QED
  BY <1>1, <1>9, <1>10, <1>12, <1>13, LocalStep

\* A request that was copying answers: what it had open is on the platter, or
\* known not to be, and what the client is told is no more than what was copied.
LEMMA CopyReturn ==
  ASSUME IInv, NEW r \in Request, req[r] # Idle, req[r].pc = "copying",
         NEW news \in Phone, Return(r, news), news.pc # "done",
         UNCHANGED <<decl, old, sweep, crossed, swept>>, UNCHANGED faults \/ Fault,
         \/ req[r].fd = "gone" /\ file' = file
         \/ req[r].fd \in Path /\ file' = Synced(r)
         \/ req[r].fd \in Path /\ file' = CutShort(req[r].ses, req[r].fd),
         news.at = 0 \/ (news.at = req[r].at /\ file' = Synced(r))
  PROVE  IInv'
<1>0. PICK s \in Session : s = req[r].ses
  BY RequestType DEF IInv, Sound
<1> DEFINE fd == req[r].fd
<1>1. Sound /\ Typing /\ RequestsOK /\ FilesOK /\ fd # "none"
  BY DEF IInv, Sound, RequestsOK, OpenOK
<1>2. /\ Becomes(r, Idle)
      /\ phone' \in [Session -> Phone]
      /\ \A t \in Session \ {s} : phone'[t] = phone[t]
      /\ phone'[s] = news \/ phone'[s] = phone[s]
  BY <1>0, <1>1, Returned
<1>3. /\ fd \in {"part", "blob", "gone"}
      /\ fd \in Path => file[s][fd] # NoFile
      /\ s \notin crossed =>
           fd # "blob" /\ (fd = "gone" /\ file[s].part # NoFile => Stable(file[s].part))
      /\ s \notin crossed \cup swept =>
           /\ PromiseOK(s) /\ fd = "part" /\ Len(file[s].part.data) = req[r].at
           /\ file[s].part \in File /\ file[s].part # NoFile
  BY <1>0, Copying
<1>4. ASSUME fd \in Path
      PROVE \E f \in File :
         /\ file' \in [Session -> Paths] /\ FilesOK'
         /\ file'[s][fd] = f
         /\ f.data = file[s][fd].data
         /\ \/ f.synced = Len(f.data) /\ f.cut = FALSE
            \/ f.synced = file[s][fd].synced /\ f.cut = TRUE /\ news.at = 0
         /\ \A q \in Path \ {fd} : file'[s][q] = file[s][q]
         /\ \A t \in Session \ {s} : file'[t] = file[t]
         /\ \A t \in Session, q \in Path : file[t][q] # NoFile => file'[t][q] # NoFile
  <2>0. fd # "gone"
    BY <1>4 DEF Path
  <2>1. CASE file' = Synced(r)
    BY <1>0, <1>1, <1>4, <2>1, SyncedFile
  <2>2. CASE file' = CutShort(s, fd) /\ file' # Synced(r)
    <3>1. file[s][fd] # NoFile
      BY <1>3, <1>4
    <3>2. PICK f \in File :
         /\ file' \in [Session -> Paths] /\ FilesOK'
         /\ file'[s][fd] = f
         /\ f.data = file[s][fd].data /\ f.synced = file[s][fd].synced /\ f.cut = TRUE
         /\ \A q \in Path \ {fd} : file'[s][q] = file[s][q]
         /\ \A t \in Session \ {s} : file'[t] = file[t]
         /\ \A t \in Session, q \in Path : file[t][q] # NoFile => file'[t][q] # NoFile
      BY <1>1, <1>4, <2>2, <3>1, CutFile
    <3>3. news.at = 0
      BY <2>2
    <3> QED
      BY <3>2, <3>3
  <2> QED
    BY <1>0, <2>0, <2>1, <2>2
<1>5. ASSUME fd = "gone" PROVE file' = file
  BY <1>5 DEF Path
<1>6. /\ file' \in [Session -> Paths] /\ FilesOK'
      /\ \A t \in Session \ {s} : file'[t] = file[t]
      /\ \A t \in Session, q \in Path : file[t][q] # NoFile => file'[t][q] # NoFile
  <2>1. CASE fd \in Path
    BY <1>4, <2>1
  <2>2. CASE fd = "gone"
    BY <1>1, <1>5, <2>2 DEF Typing, Paths, FilesOK
  <2> QED
    BY <1>3, <2>1, <2>2 DEF Path
<1>7. Sound'
  <2>1. RequestsOK'
    BY <1>1, <1>2, <1>6, RequestsGoOn DEF OpenOK
  <2>2. /\ req' \in Slots /\ old' \subseteq Session
        /\ decl' \in [Session -> {"none", "torn", "ok"}]
    BY <1>1, <1>2 DEF Becomes, Typing
  <2> QED
    BY <1>1, <1>2, <1>6, <2>1, <2>2, SoundStep
<1>8. \A t \in Session \ {s} : Untouched(t)
  BY <1>0, <1>1, <1>2, <1>6, OneTouched
<1>9. ASSUME s \notin crossed PROVE Active(s)' = {} /\ WholeOK(s) /\ Active(s) = {r}
  <2>1. Active(s) = {r} /\ WholeOK(s)
    BY <1>0, <1>9, OnlyOne
  <2> QED
    BY <1>2, <2>1, AloneAfter
<1>10. ASSUME s \notin crossed PROVE WholeOK(s)'
  <2>1. file'[s].part # NoFile => Stable(file'[s].part)
    <3>1. CASE fd = "part"
      BY <1>4, <3>1 DEF Path, Stable
    <3>2. CASE fd = "gone"
      BY <1>3, <1>5, <1>10, <3>2
    <3> QED
      BY <1>3, <1>10, <3>1, <3>2
  <2>2. file'[s].blob = file[s].blob
    BY <1>3, <1>4, <1>5, <1>10 DEF Path
  <2>3. BlobOK(file'[s].blob) /\ (phone'[s].pc = "done" => file'[s].blob # NoFile)
    BY <1>2, <1>9, <1>10, <2>2 DEF WholeOK
  <2> QED
    BY <1>9, <1>10, <2>1, <2>3, QuietSession
<1>11. ASSUME s \notin crossed \cup swept PROVE PromiseOK(s)'
  <2> DEFINE g == file[s].part
  <2>1. /\ PromiseOK(s) /\ fd = "part" /\ Len(g.data) = req[r].at
        /\ g \in File /\ g # NoFile /\ g.synced <= Len(g.data)
    BY <1>1, <1>3, <1>11 DEF FilesOK, Path
  <2>2. PICK f \in File :
         /\ file'[s].part = f /\ f # NoFile
         /\ f.data = g.data
         /\ \/ f.synced = Len(f.data) /\ f.cut = FALSE
            \/ f.cut = TRUE /\ news.at = 0
         /\ file'[s].blob = file[s].blob
    BY <1>4, <2>1, FileType DEF Path
  <2>3. PartOK(file'[s].part)
    BY <2>1, <2>2 DEF PartOK, PromiseOK
  <2>4. KeptOK(news.at, file'[s])
    BY <1>1, <2>1, <2>2 DEF KeptOK
  <2>5. KeptOK(phone[s].at, file'[s])
    <3>1. phone[s].at \in Nat /\ g.synced \in Nat /\ Len(g.data) \in Nat
      BY <1>1, <2>1, FileType, Constants DEF Typing
    <3>2. KeptOK(phone[s].at, file[s])
      BY <2>1 DEF PromiseOK
    <3>3. CASE f.cut
      BY <2>2, <3>3 DEF KeptOK
    <3>4. CASE ~f.cut
      <4>1. phone[s].at <= req[r].at
        BY <1>9, <1>11, <2>1 DEF PromiseOK
      <4> QED
        BY <2>1, <2>2, <3>1, <3>4, <4>1 DEF KeptOK
    <3> QED
      BY <3>3, <3>4
  <2>6. KeptOK(phone'[s].at, file'[s])
    BY <1>2, <2>4, <2>5
  <2> QED
    BY <1>9, <1>11, <2>3, <2>6, QuietSession
<1> QED
  BY <1>1, <1>7, <1>8, <1>10, <1>11, LocalStep

\* The answers of a request that copied.
LEMMA CopyReturnSteps ==
  ASSUME IInv, NEW r \in Request, ChunkSynced(r) \/ ChunkInterrupted(r) \/ ChunkSyncFails(r)
  PROVE  IInv'
<1>1. req[r] # Idle /\ req[r].pc = "copying"
  BY DEF ChunkSynced, ChunkInterrupted, ChunkSyncFails, At
<1>2. req[r].fd \in {"part", "blob", "gone"} /\ req[r].at \in 0..Size
  BY <1>1, Copying, RequestType DEF IInv, Sound
<1>3. /\ UNCHANGED <<decl, old, sweep, crossed, swept>>
      /\ UNCHANGED faults \/ Fault
  BY DEF ChunkSynced, ChunkInterrupted, ChunkSyncFails, seen
<1>4. req[r].fd = "gone" => Synced(r) = file
  BY DEF Synced
<1>5. CASE ChunkSynced(r)
  <2>1. Return(r, Told(req[r].at)) /\ file' = Synced(r)
    BY <1>5 DEF ChunkSynced
  <2> QED
    BY <1>1, <1>2, <1>3, <1>4, <2>1, News, CopyReturn DEF Path
<1>6. CASE ChunkInterrupted(r)
  <2>1. Return(r, Away) /\ file' = Synced(r)
    BY <1>6 DEF ChunkInterrupted
  <2> QED
    BY <1>1, <1>2, <1>3, <1>4, <2>1, News, CopyReturn DEF Path
<1>7. CASE ChunkSyncFails(r)
  <2>1. /\ Return(r, Away)
        /\ file' = IF req[r].fd = "gone" THEN file ELSE CutShort(req[r].ses, req[r].fd)
    BY <1>7 DEF ChunkSyncFails, CutShort
  <2> QED
    BY <1>1, <1>2, <1>3, <2>1, News, CopyReturn DEF Path
<1> QED
  BY <1>5, <1>6, <1>7

-----------------------------------------------------------------------------
(* The part is renamed or removed, and descriptors follow. *)

\* What becomes of a request whose file was moved, by itself or by another.
AfterMove(q, moves) ==
  /\ req'[q] \in RequestState
  /\ req'[q].ses = req[q].ses /\ req'[q].at = req[q].at /\ req'[q].end = req[q].end
  /\ req'[q].good = req[q].good
  /\ req'[q].fd = moves[req[q].fd]
  /\ req'[q].pc = req[q].pc \/ (req[q].pc # "copying" /\ req'[q].pc # "copying")

\* Every request of a session follows, and the others do not notice.
Follow(s, moves) ==
  /\ req' \in Slots
  /\ \A q \in Request : IF q \in Active(s) THEN AfterMove(q, moves) ELSE req'[q] = req[q]

\* The slots when r has moved the part, and goes on.
FollowedTo(s, moves, r, pc) == [Followed(s, moves) EXCEPT ![r].pc = pc]

\* What Followed makes of the slots.
LEMMA FollowedSlots ==
  ASSUME Sound, NEW s \in Session, NEW moves \in {Renamed, Removed}
  PROVE  LET f == Followed(s, moves) IN
         /\ f \in Slots
         /\ \A q \in Request \ Active(s) : f[q] = req[q]
         /\ \A q \in Active(s) :
              /\ f[q] \in RequestState /\ f[q].pc = req[q].pc
              /\ f[q].ses = req[q].ses /\ f[q].at = req[q].at /\ f[q].end = req[q].end
              /\ f[q].good = req[q].good /\ f[q].fd = moves[req[q].fd]
<1> DEFINE f == Followed(s, moves)
<1>1. ASSUME NEW q \in Active(s)
      PROVE  /\ f[q] \in RequestState /\ f[q].pc = req[q].pc
             /\ f[q].ses = req[q].ses /\ f[q].at = req[q].at /\ f[q].end = req[q].end
             /\ f[q].good = req[q].good /\ f[q].fd = moves[req[q].fd]
  <2> DEFINE h == req[q]
             fd == moves[h.fd]
             g == [h EXCEPT !.fd = fd]
  <2>1. q \in Request /\ h \in RequestState /\ h.fd \in {"none", "part", "blob", "gone"}
    BY RequestType DEF Active, Sound
  <2>2. fd \in {"none", "part", "blob", "gone"}
    BY <2>1 DEF Renamed, Removed
  <2>3. f[q] = g
    <3>1. f[q] = [req[q] EXCEPT !.fd = moves[@]]
      BY <2>1 DEF Followed
    <3> QED
      BY <3>1, Zenon
  <2> HIDE DEF h, fd, f
  <2>4. /\ g \in RequestState /\ g.pc = h.pc /\ g.ses = h.ses /\ g.at = h.at
        /\ g.end = h.end /\ g.fd = fd /\ g.good = h.good
    BY <2>1, <2>2, FdEdit, Zenon
  <2> QED
    BY <2>3, <2>4 DEF h, fd
<1>2. \A q \in Request \ Active(s) : f[q] = req[q]
  BY DEF Followed
<1>3. f \in Slots
  <2>1. \A q \in Request : f[q] \in RequestState \cup {Idle}
    BY <1>1, <1>2, RequestType DEF Sound
  <2>2. f = [q \in Request |-> f[q]]
    BY DEF Followed
  <2> HIDE DEF f
  <2> QED
    BY <2>1, <2>2 DEF Slots
<1> QED
  BY <1>1, <1>2, <1>3

\* The part is swept.
LEMMA SweptFollow ==
  ASSUME Sound, NEW s \in Session, NEW moves \in {Renamed, Removed}, req' = Followed(s, moves)
  PROVE  Follow(s, moves)
<1>1. req' \in Slots /\ \A q \in Request \ Active(s) : req'[q] = req[q]
  BY FollowedSlots, Zenon
<1>2. \A q \in Active(s) :
              /\ req'[q] \in RequestState /\ req'[q].pc = req[q].pc
              /\ req'[q].ses = req[q].ses /\ req'[q].at = req[q].at /\ req'[q].end = req[q].end
              /\ req'[q].good = req[q].good /\ req'[q].fd = moves[req[q].fd]
  BY FollowedSlots, Zenon
<1> QED
  BY <1>1, <1>2 DEF Follow, AfterMove

\* A request moves the part, and goes on.
LEMMA MoverFollow ==
  ASSUME Sound, NEW s \in Session, NEW moves \in {Renamed, Removed},
         NEW r \in Active(s), NEW pc \in Steps \ {"copying"}, req[r].pc # "copying",
         req' = FollowedTo(s, moves, r, pc)
  PROVE  Follow(s, moves) /\ req'[r].pc = pc
<1> DEFINE f == Followed(s, moves)
           h == f[r]
           g == [h EXCEPT !.pc = pc]
<1>1. /\ f \in Slots /\ r \in Request
      /\ \A q \in Request \ Active(s) : f[q] = req[q]
      /\ \A q \in Active(s) :
              /\ f[q] \in RequestState /\ f[q].pc = req[q].pc
              /\ f[q].ses = req[q].ses /\ f[q].at = req[q].at /\ f[q].end = req[q].end
              /\ f[q].good = req[q].good /\ f[q].fd = moves[req[q].fd]
  BY FollowedSlots, Zenon DEF Active
<1>2. req' = [f EXCEPT ![r] = g]
  BY Zenon DEF FollowedTo
<1> HIDE DEF f
<1>3. h \in RequestState
  BY <1>1
<1> HIDE DEF h
<1>4. /\ g \in RequestState /\ g.pc = pc /\ g.ses = h.ses /\ g.at = h.at
      /\ g.end = h.end /\ g.fd = h.fd /\ g.good = h.good
  BY <1>3, PcEdit, Zenon
<1> HIDE DEF g
<1>5. req' \in Slots /\ req'[r] = g /\ \A q \in Request \ {r} : req'[q] = f[q]
  BY <1>1, <1>2, <1>4 DEF Slots
<1>6. AfterMove(r, moves)
  BY <1>1, <1>4, <1>5 DEF AfterMove, h
<1>7. \A q \in Active(s) \ {r} : AfterMove(q, moves)
  BY <1>1, <1>5 DEF AfterMove, Active
<1>8. \A q \in Request \ Active(s) : req'[q] = req[q]
  BY <1>1, <1>5
<1> QED
  BY <1>4, <1>5, <1>6, <1>7, <1>8 DEF Follow

\* Descriptors are still of what is there.
LEMMA FollowOpen ==
  ASSUME Sound, NEW s \in Session, NEW moves \in {Renamed, Removed}, Follow(s, moves),
         \A t \in Session \ {s} : file'[t] = file[t],
         \/ moves = Removed /\ file'[s].blob = file[s].blob
         \/ moves = Renamed /\ file'[s].blob = file[s].part
  PROVE  RequestsOK' /\ \A t \in Session \ {s} : phone'[t] = phone[t] => Untouched(t)
<1>1. ASSUME NEW q \in Request, q \notin Active(s) PROVE OpenOK(req'[q], file')
  <2>1. req'[q] = req[q] /\ OpenOK(req[q], file)
    BY <1>1 DEF Follow, Sound, RequestsOK
  <2>2. req[q] # Idle => req[q].ses \in Session \ {s}
    BY <1>1, RequestType DEF Sound, Active
  <2> QED
    BY <2>1, <2>2 DEF OpenOK
<1>2. ASSUME NEW q \in Active(s) PROVE OpenOK(req'[q], file')
  <2>1. /\ q \in Request /\ AfterMove(q, moves) /\ OpenOK(req[q], file)
        /\ req[q].ses = s /\ req[q] # Idle
    BY DEF Follow, Sound, RequestsOK, Active
  <2>2. req[q].fd \in {"none", "part", "blob", "gone"}
    BY <2>1, RequestType DEF Sound
  <2>3. req'[q].fd = "none" <=> req[q].fd = "none"
    BY <2>1, <2>2 DEF AfterMove, Renamed, Removed
  <2>4. req'[q].fd \in Path => file'[s][req'[q].fd] # NoFile
    <3>1. CASE moves = Removed /\ file'[s].blob = file[s].blob
      <4>1. req'[q].fd \in Path => req'[q].fd = "blob" /\ req[q].fd = "blob"
        BY <2>1, <2>2, <3>1 DEF AfterMove, Removed, Path
      <4> QED
        BY <2>1, <3>1, <4>1 DEF OpenOK, Path
    <3>2. CASE moves = Renamed /\ file'[s].blob = file[s].part
      <4>1. req'[q].fd \in Path => req'[q].fd = "blob" /\ req[q].fd = "part"
        BY <2>1, <2>2, <3>2 DEF AfterMove, Renamed, Path
      <4> QED
        BY <2>1, <3>2, <4>1 DEF OpenOK, Path
    <3> QED
      BY <3>1, <3>2
  <2> QED
    BY <2>1, <2>3, <2>4 DEF OpenOK, AfterMove
<1>3. RequestsOK'
  BY <1>1, <1>2 DEF RequestsOK
<1>4. ASSUME NEW t \in Session \ {s}, phone'[t] = phone[t] PROVE Untouched(t)
  <2>1. ASSUME NEW q \in Request
        PROVE  \/ req'[q] = req[q]
               \/ q \notin Active(t) /\ (req'[q] = Idle \/ req'[q].ses # t)
    BY DEF Follow, AfterMove, Active
  <2> QED
    BY <1>4, <2>1 DEF Untouched
<1> QED
  BY <1>3, <1>4

\* After it, a request that was alone in its session still is.
LEMMA FollowAlone ==
  ASSUME NEW s \in Session, NEW moves, Follow(s, moves)
  PROVE  Active(s)' = Active(s)
<1>1. ASSUME NEW q \in Request PROVE q \in Active(s)' <=> q \in Active(s)
  <2>1. CASE q \in Active(s)
    BY <2>1, Absent DEF Follow, AfterMove, Active
  <2>2. CASE q \notin Active(s)
    BY <2>2 DEF Follow, Active
  <2> QED
    BY <2>1, <2>2
<1> QED
  BY <1>1 DEF Active

\* A commit that has moved its part, or has removed it.
LEMMA MoverStep ==
  ASSUME IInv, NEW r \in Request, NEW s \in Session, req[r] # Idle, s = req[r].ses,
         req[r].pc \in {"stating", "renaming", "clearing"},
         NEW moves \in {Renamed, Removed}, NEW pc \in {"clearing", "forgetting"},
         req' = FollowedTo(s, moves, r, pc),
         file' \in [Session -> Paths], FilesOK', file'[s].part = NoFile,
         \A t \in Session \ {s} : file'[t] = file[t],
         \/ moves = Removed /\ file'[s].blob = file[s].blob
         \/ moves = Renamed /\ file'[s].blob = file[s].part /\ file[s].part # NoFile,
         old' \subseteq Session, UNCHANGED <<decl, sweep, phone, crossed, swept, faults>>,
         s \notin crossed => BlobOK(file'[s].blob) /\ (req[r].good => file'[s].blob # NoFile)
  PROVE  IInv'
<1>1. Sound /\ Typing /\ pc \in Steps \ {"copying"} /\ req[r].pc # "copying" /\ r \in Active(s)
  BY RequestType DEF IInv, Sound, Steps
<1>2. Follow(s, moves) /\ req'[r].pc = pc
  BY <1>1, MoverFollow
<1>3. RequestsOK' /\ \A t \in Session \ {s} : Untouched(t)
  BY <1>1, <1>2, FollowOpen
<1>4. Sound'
  <2>1. /\ req' \in Slots /\ phone' \in [Session -> Phone]
        /\ decl' \in [Session -> {"none", "torn", "ok"}]
    BY <1>1, <1>2 DEF Follow, Sound, Typing
  <2> QED
    BY <1>1, <1>3, <2>1, SoundStep
<1>5. AfterMove(r, moves) /\ r \in Request
  BY <1>1, <1>2 DEF Follow
<1>6. ASSUME s \notin crossed
      PROVE  /\ Active(s)' = {r} /\ WholeOK(s) /\ CommitOK(req[r], file[s])
             /\ req[r].fd = "none"
  <2>1. Active(s) = {r} /\ WholeOK(s) /\ CommitOK(req[r], file[s])
    BY <1>6, OnlyOne
  <2>2. req[r].fd = "none"
    BY <1>1, RequestType DEF Sound, RequestsOK, OpenOK
  <2> QED
    BY <1>2, <2>1, <2>2, FollowAlone
<1>7. ASSUME s \notin crossed PROVE WholeOK(s)'
  <2>1. req'[r].fd = "none"
    BY <1>5, <1>6, <1>7 DEF AfterMove, Renamed, Removed
  <2>2. CommitOK(req'[r], file'[s])
    BY <1>2, <1>5, <1>7, <2>1 DEF CommitOK, AfterMove
  <2>3. phone'[s].pc = "done" => file'[s].blob # NoFile
    BY <1>6, <1>7 DEF WholeOK
  <2> QED
    BY <1>6, <1>7, <2>2, <2>3, BusySession
<1>8. ASSUME s \notin crossed \cup swept PROVE PromiseOK(s)'
  <2>1. StepOK(req[r], file[s]) /\ CommitOK(req[r], file[s]) /\ PromiseOK(s)
    BY <1>1, <1>8, PartAlone
  <2>2. req[r].good
    BY <2>1 DEF StepOK, CommitOK
  <2>3. StepOK(req'[r], file'[s])
    BY <1>2, <1>5, <2>2 DEF StepOK, AfterMove
  <2>4. phone'[s].at <= req'[r].at
    BY <1>1, <1>5, <2>1 DEF PromiseOK, AfterMove
  <2>5. PartOK(file'[s].part) /\ KeptOK(phone'[s].at, file'[s])
    BY <1>8, <2>2 DEF PartOK, KeptOK
  <2> QED
    BY <1>6, <1>8, <2>3, <2>4, <2>5, BusySession
<1> QED
  BY <1>1, <1>3, <1>4, <1>7, <1>8, LocalStep

\* Adopt removes what is archived already, or renames it; Discard removes it.
LEMMA MoverSteps ==
  ASSUME IInv, NEW r \in Request, AdoptRedundant(r) \/ AdoptRenames(r) \/ Clears(r)
  PROVE  IInv'
<1>1. /\ req[r] # Idle /\ req[r].pc \in {"stating", "renaming", "clearing"}
      /\ UNCHANGED <<decl, sweep, phone, crossed, swept, faults>>
  BY DEF AdoptRedundant, AdoptRenames, Clears, At, seen
<1>0. PICK s \in Session : s = req[r].ses
  BY <1>1, RequestType DEF IInv, Sound
<1>2. Sound /\ old \subseteq Session /\ req[r].fd = "none"
  BY <1>1, RequestType DEF IInv, Sound, Typing, RequestsOK, OpenOK
<1>3. CASE AdoptRedundant(r) \/ Clears(r)
  <2>1. PICK pc \in {"clearing", "forgetting"} :
          req' = FollowedTo(s, Removed, r, pc)
    BY <1>0, <1>3 DEF AdoptRedundant, Clears, FollowedTo
  <2>2. file' = [file EXCEPT ![s].part = NoFile] /\ old' \subseteq Session
    BY <1>0, <1>2, <1>3 DEF AdoptRedundant, Clears
  <2>3. /\ file' \in [Session -> Paths] /\ FilesOK'
        /\ file'[s].part = NoFile /\ file'[s].blob = file[s].blob
        /\ \A t \in Session \ {s} : file'[t] = file[t]
    BY <1>2, <2>2, RemovedFile
  <2>4. ASSUME s \notin crossed
        PROVE  BlobOK(file'[s].blob) /\ (req[r].good => file'[s].blob # NoFile)
    <3>1. WholeOK(s) /\ CommitOK(req[r], file[s])
      BY <1>0, <1>1, <2>4, OnlyOne
    <3>2. req[r].good => file[s].blob # NoFile
      BY <1>0, <1>3, <3>1 DEF CommitOK, AdoptRedundant, Clears, At
    <3> QED
      BY <2>3, <3>1, <3>2 DEF WholeOK
  <2>5. Removed \in {Renamed, Removed}
    OBVIOUS
  <2> QED
    BY <1>0, <1>1, <2>1, <2>2, <2>3, <2>4, <2>5, MoverStep
<1>4. CASE AdoptRenames(r)
  <2>1. /\ req' = FollowedTo(s, Renamed, r, "clearing")
        /\ file' = [file EXCEPT ![s] = [part |-> NoFile, blob |-> file[s].part]]
        /\ old' \subseteq Session /\ file[s].part # NoFile /\ req[r].pc = "renaming"
    BY <1>0, <1>2, <1>4 DEF AdoptRenames, At, FollowedTo
  <2>2. /\ file' \in [Session -> Paths] /\ FilesOK'
        /\ file'[s].part = NoFile /\ file'[s].blob = file[s].part
        /\ \A t \in Session \ {s} : file'[t] = file[t]
    BY <1>2, <2>1, RenamedFile
  <2>3. ASSUME s \notin crossed
        PROVE  BlobOK(file'[s].blob) /\ (req[r].good => file'[s].blob # NoFile)
    <3>1. WholeOK(s) /\ CommitOK(req[r], file[s]) /\ Active(s) = {r}
      BY <1>0, <1>1, <2>3, OnlyOne
    <3>2. Stable(file[s].part) /\ Whole(file[s].part.data)
      BY <1>2, <2>1, <3>1 DEF WholeOK, CommitOK
    <3>3. file'[s].blob # NoFile
      BY <2>1, <2>2
    <3>4. BlobOK(file[s].part)
      BY <3>2 DEF BlobOK, Stable
    <3> QED
      BY <2>2, <3>3, <3>4
  <2>4. Renamed \in {Renamed, Removed}
    OBVIOUS
  <2> QED
    BY <1>0, <1>1, <2>1, <2>2, <2>3, <2>4, MoverStep
<1> QED
  BY <1>3, <1>4

\* The sweep removes a part, of a session that it picked.
LEMMA SweepsPartStep ==
  ASSUME IInv, SweepsPart
  PROVE  IInv'
<1>1. /\ sweep # NoSweep /\ sweep.pc = "part"
      /\ UNCHANGED <<decl, phone, crossed, swept, faults>>
      /\ sweep' = [sweep EXCEPT !.pc = "meta"]
  BY DEF SweepsPart, seen
<1>2. Sound /\ Typing /\ sweep \in [pc : {"part", "meta"}, ses : Session]
  BY <1>1 DEF IInv, Sound, Typing
<1>3. PICK s \in Session : s = sweep.ses
  BY <1>2
<1>4. /\ file' = [file EXCEPT ![s].part = NoFile]
      /\ req' = Followed(s, Removed) /\ old' \subseteq Session
  BY <1>2, <1>3 DEF SweepsPart, Typing
<1>5. /\ file' \in [Session -> Paths] /\ FilesOK'
      /\ file'[s].part = NoFile /\ file'[s].blob = file[s].blob
      /\ \A t \in Session \ {s} : file'[t] = file[t]
  BY <1>2, <1>4, RemovedFile
<1>6. Follow(s, Removed)
  BY <1>2, <1>4, SweptFollow
<1>7. RequestsOK' /\ \A t \in Session \ {s} : Untouched(t)
  BY <1>1, <1>2, <1>5, <1>6, FollowOpen
<1>8. s \in swept /\ sweep' \in [pc : {"part", "meta"}, ses : Session] /\ sweep'.ses = s
  BY <1>1, <1>2, <1>3 DEF Sound, SweepOK
<1>9. Sound'
  <2>1. req' \in Slots
    BY <1>6 DEF Follow
  <2>2. Typing'
    BY <1>1, <1>2, <1>4, <1>5, <1>8, <2>1 DEF Typing, Paths, Slots
  <2>3. SweepOK' /\ phone' \in [Session -> Phone]
    BY <1>1, <1>2, <1>8 DEF SweepOK, Sound
  <2> QED
    BY <1>5, <1>7, <2>2, <2>3 DEF Sound
<1>10. ASSUME s \notin crossed PROVE WholeOK(s)'
  <2>1. WholeOK(s) /\ Active(s)' = Active(s)
    BY <1>6, <1>10, FollowAlone DEF IInv
  <2>2. ASSUME NEW q \in Active(s) PROVE CommitOK(req'[q], file'[s])
    <3>1. q \in Request /\ CommitOK(req[q], file[s]) /\ AfterMove(q, Removed)
      BY <1>6, <2>1 DEF WholeOK, Follow, Active
    <3>2. req[q].fd \in {"none", "part", "blob", "gone"} /\ req'[q].pc = req[q].pc
      <4>1. req[q] # Idle
        BY DEF Active
      <4>2. req' = Followed(s, Removed)
        BY <1>4
      <4>3. req'[q].pc = req[q].pc
        BY <1>2, <4>2, FollowedSlots
      <4> QED
        BY <1>2, <3>1, <4>1, <4>3, RequestType
    <3>3. req'[q].fd # "blob"
      BY <3>1, <3>2 DEF CommitOK, AfterMove, Removed
    <3> QED
      BY <1>5, <3>1, <3>2, <3>3 DEF CommitOK, AfterMove
  <2>3. BlobOK(file'[s].blob) /\ (phone'[s].pc = "done" => file'[s].blob # NoFile)
    BY <1>1, <1>5, <2>1 DEF WholeOK
  <2>4. \A q, r \in Active(s)' : q = r
    BY <2>1 DEF WholeOK
  <2>5. \A r \in Active(s)' : CommitOK(req'[r], file'[s])
    BY <2>1, <2>2
  <2> QED
    BY <1>5, <2>3, <2>4, <2>5 DEF WholeOK
<1> QED
  BY <1>1, <1>2, <1>7, <1>8, <1>9, <1>10, LocalStep

-----------------------------------------------------------------------------
(* The client sends. *)

\* A request begins: in a session that has another, it is one too many.
LEMMA SendStep ==
  ASSUME IInv, NEW r \in Request, NEW s \in Session, NEW pc \in {"creating", "chunk", "commit"},
         NEW at \in 0..Size, NEW end \in 0..Size, at <= end, phone[s].at <= at,
         Send(r, s, pc, at, end)
  PROVE  IInv'
<1> DEFINE g == [pc |-> pc, ses |-> s, at |-> at, end |-> end,
                 fd |-> "none", good |-> FALSE, heard |-> TRUE]
<1>1. Sound /\ Typing /\ req \in Slots /\ req[r] = Idle
  BY DEF IInv, Sound, Typing, Slots, Send
<1>2. /\ req' = [req EXCEPT ![r] = g]
      /\ crossed' = IF Active(s) # {} THEN crossed \cup {s} ELSE crossed
      /\ UNCHANGED <<decl, file, old, sweep, phone, swept, faults>>
  BY DEF Send
<1>3. /\ g \in RequestState /\ g.ses = s /\ g.pc = pc /\ g.fd = "none" /\ g.at = at /\ g.end = end
      /\ g # Idle
  <2>1. /\ g \in RequestState /\ g.ses = s /\ g.pc = pc /\ g.fd = "none" /\ g.at = at
        /\ g.end = end
    BY DEF RequestState
  <2> HIDE DEF g
  <2> QED
    BY <2>1, Absent
<1> HIDE DEF g
<1>4. Becomes(r, g)
  BY <1>1, <1>2, <1>3 DEF Slots, Becomes
<1>5. Sound'
  <2>1. OpenOK(g, file')
    BY <1>3 DEF OpenOK, Path
  <2>2. RequestsOK'
    BY <1>1, <1>2, <1>4, <2>1, RequestsGoOn
  <2>3. FilesOK' /\ SweepOK' /\ phone' \in [Session -> Phone]
    BY <1>1, <1>2 DEF Sound, FilesOK, SweepOK
  <2>4. Typing'
    BY <1>1, <1>2, <1>4 DEF Typing, Becomes, Slots
  <2> QED
    BY <2>2, <2>3, <2>4 DEF Sound
<1>6. ASSUME NEW t \in Session \ {s} PROVE Untouched(t)
  BY <1>1, <1>2, <1>3, <1>4 DEF Untouched, Becomes, Active
<1>7. ASSUME s \notin crossed' PROVE s \notin crossed /\ Active(s) = {} /\ Active(s)' = {r}
  <2>1. s \notin crossed /\ Active(s) = {}
    BY <1>2, <1>7
  <2> QED
    BY <1>3, <1>4, <2>1, AloneAfter
<1>8. req'[r] = g
  BY <1>4 DEF Becomes
<1>9. ASSUME s \notin crossed' PROVE WholeOK(s)'
  <2>1. WholeOK(s)
    BY <1>7, <1>9 DEF IInv
  <2>2. /\ CommitOK(g, file[s]) /\ BlobOK(file[s].blob)
        /\ file[s].part # NoFile => Stable(file[s].part)
        /\ phone[s].pc = "done" => file[s].blob # NoFile
    BY <1>3, <1>7, <1>9, <2>1 DEF WholeOK, CommitOK
  <2> QED
    BY <1>2, <1>7, <1>8, <1>9, <2>2, BusySession
<1>10. ASSUME s \notin (crossed \cup swept)' PROVE PromiseOK(s)'
  <2>1. PromiseOK(s)
    BY <1>2, <1>7, <1>10 DEF IInv
  <2>2. StepOK(g, file[s]) /\ phone[s].at <= g.at
    BY <1>3 DEF StepOK
  <2>3. PartOK(file[s].part) /\ KeptOK(phone[s].at, file[s])
    BY <2>1 DEF PromiseOK
  <2> QED
    BY <1>2, <1>7, <1>8, <1>10, <2>2, <2>3, BusySession
<1>11. ASSUME NEW t \in Session \ crossed' PROVE WholeOK(t)'
  <2>1. t \in Session \ crossed
    BY <1>2, <1>11
  <2> QED
    BY <1>6, <1>9, <1>11, <2>1, Elsewhere DEF IInv
<1>12. ASSUME NEW t \in Session \ (crossed \cup swept)' PROVE PromiseOK(t)'
  <2>1. t \in Session \ (crossed \cup swept)
    BY <1>2, <1>12
  <2> QED
    BY <1>6, <1>10, <1>12, <2>1, Elsewhere DEF IInv
<1> QED
  BY <1>5, <1>11, <1>12 DEF IInv

\* What a client sends begins where it was told that the upload is.
LEMMA SendSteps ==
  ASSUME IInv, NEW r \in Request, NEW s \in Session,
         SendCreate(r, s) \/ SendChunk(r, s) \/ SendCommit(r, s)
  PROVE  IInv'
<1>1. phone[s] \in Phone /\ phone[s].at \in 0..Size /\ (phone[s].pc = "away" => phone[s].at = 0)
  BY DEF IInv, Sound, Phone
<1>2. CASE SendCreate(r, s)
  BY <1>1, <1>2, SendStep, Constants DEF SendCreate
<1>3. CASE SendCommit(r, s)
  BY <1>1, <1>3, SendStep, Constants DEF SendCommit
<1>4. CASE SendChunk(r, s)
  <2> DEFINE at == phone[s].at
             rest == Size - at
             end == at + IF rest < Chunk THEN rest ELSE Chunk
  <2>1. Send(r, s, "chunk", at, end)
    BY <1>4, Zenon DEF SendChunk
  <2>2. at \in 0..Size /\ end \in 0..Size /\ at <= end
    BY <1>1, Constants
  <2> HIDE DEF end, at
  <2>3. phone[s].at <= at
    BY <2>2, Constants DEF at
  <2> QED
    BY <2>1, <2>2, <2>3, SendStep
<1> QED
  BY <1>2, <1>3, <1>4

-----------------------------------------------------------------------------
(* Time, the sweep, the kernel, and what goes wrong. *)

\* A step that leaves the files, the requests and the clients alone, and the
\* sweep to what it has picked.
LEMMA AsideStep ==
  ASSUME IInv, UNCHANGED <<file, req, phone, crossed>>, swept \subseteq swept',
         Typing', SweepOK'
  PROVE  IInv'
<1>1. FilesOK' /\ RequestsOK' /\ phone' \in [Session -> Phone]
  BY DEF IInv, Sound, FilesOK, RequestsOK
<1>2. \A t \in Session : Untouched(t)
  BY DEF Untouched
<1>3. ASSUME NEW t \in Session \ crossed' PROVE WholeOK(t)'
  BY <1>2, Elsewhere DEF IInv
<1>4. ASSUME NEW t \in Session \ (crossed \cup swept)' PROVE PromiseOK(t)'
  <2>1. t \in Session \ (crossed \cup swept)
    BY <1>4
  <2> QED
    BY <1>2, <2>1, Elsewhere DEF IInv
<1> QED
  BY <1>1, <1>3, <1>4 DEF IInv, Sound

\* Days pass, the sweep picks a session, and it removes a sidecar.
LEMMA AsideSteps ==
  ASSUME IInv, (\E s \in Session : Ages(s) \/ SweepPicks(s)) \/ SweepsMeta
  PROVE  IInv'
<1>0. Typing /\ SweepOK
  BY DEF IInv, Sound
<1>1. ASSUME NEW s \in Session, Ages(s) PROVE IInv'
  <2>1. /\ UNCHANGED <<decl, file, req, sweep, phone, crossed, swept>>
        /\ old' = old \cup {s} /\ (UNCHANGED faults \/ Fault)
    BY <1>1 DEF Ages, seen
  <2>2. faults' \in 0..MaxFaults
    BY <1>0, <2>1, Constants DEF Typing, Fault
  <2>3. Typing' /\ SweepOK'
    BY <1>0, <2>1, <2>2 DEF Typing, SweepOK
  <2> QED
    BY <2>1, <2>3, AsideStep
<1>2. ASSUME NEW s \in Session, SweepPicks(s) PROVE IInv'
  <2>1. /\ UNCHANGED <<decl, file, old, req, phone, crossed, faults>>
        /\ sweep' = [pc |-> "part", ses |-> s] /\ swept' = swept \cup {s}
    BY <1>2 DEF SweepPicks
  <2>2. Typing' /\ SweepOK'
    BY <1>0, <2>1 DEF Typing, SweepOK
  <2> QED
    BY <2>1, <2>2, AsideStep
<1>3. ASSUME SweepsMeta PROVE IInv'
  <2>1. /\ UNCHANGED <<file, old, req, phone, crossed, swept, faults>>
        /\ sweep' = NoSweep /\ decl' = [decl EXCEPT ![sweep.ses] = "none"]
    BY <1>3 DEF SweepsMeta, seen
  <2>2. Typing' /\ SweepOK'
    BY <1>0, <2>1 DEF Typing, SweepOK
  <2> QED
    BY <2>1, <2>2, AsideStep
<1> QED
  BY <1>1, <1>2, <1>3

\* A client stops listening: what it was told it forgets.
LEMMA PhoneStopsStep ==
  ASSUME IInv, NEW s \in Session, PhoneStops(s)
  PROVE  IInv'
<1>1. /\ UNCHANGED <<decl, file, old, sweep, crossed, swept>> /\ Fault
      /\ phone' = [phone EXCEPT ![s] = Away]
      /\ req' = [r \in Request |->
               IF r \in Active(s) THEN [req[r] EXCEPT !.heard = FALSE] ELSE req[r]]
  BY DEF PhoneStops, seen
<1>2. Sound /\ Typing /\ phone \in [Session -> Phone]
  BY DEF IInv, Sound
<1>3. /\ phone' \in [Session -> Phone] /\ phone'[s] = Away
      /\ \A t \in Session \ {s} : phone'[t] = phone[t]
  BY <1>1, <1>2, News
<1>4. ASSUME NEW q \in Active(s)
      PROVE  /\ req'[q] \in RequestState /\ req'[q].pc = req[q].pc /\ req'[q].ses = req[q].ses
             /\ req'[q].at = req[q].at /\ req'[q].end = req[q].end
             /\ req'[q].fd = req[q].fd /\ req'[q].good = req[q].good
  <2> DEFINE h == req[q]
             g == [h EXCEPT !.heard = FALSE]
  <2>1. q \in Request /\ h \in RequestState
    BY <1>2, RequestType DEF Active
  <2>2. req'[q] = g
    BY <1>1, <2>1
  <2> HIDE DEF h
  <2>3. /\ g \in RequestState /\ g.pc = h.pc /\ g.ses = h.ses /\ g.at = h.at
        /\ g.end = h.end /\ g.fd = h.fd /\ g.good = h.good
    BY <2>1, HeardEdit, Zenon
  <2> QED
    BY <2>2, <2>3 DEF h
<1>5. \A q \in Request \ Active(s) : req'[q] = req[q]
  BY <1>1
<1>6. req' \in Slots
  <2>1. \A q \in Request : req'[q] \in RequestState \cup {Idle}
    BY <1>2, <1>4, <1>5, RequestType
  <2>2. req' = [q \in Request |-> req'[q]]
    BY <1>1
  <2> QED
    BY <2>1, <2>2 DEF Slots
<1>7. RequestsOK'
  <2>1. ASSUME NEW q \in Request PROVE OpenOK(req'[q], file')
    <3>1. OpenOK(req[q], file)
      BY <1>2 DEF Sound, RequestsOK
    <3>2. CASE q \in Active(s)
      BY <1>1, <1>4, <3>1, <3>2 DEF OpenOK, Active
    <3>3. CASE q \notin Active(s)
      BY <1>1, <1>5, <3>1, <3>3
    <3> QED
      BY <3>2, <3>3
  <2> QED
    BY <2>1 DEF RequestsOK
<1>8. Sound'
  <2>1. FilesOK'
    BY <1>1, <1>2 DEF Sound, FilesOK
  <2>2. /\ file' \in [Session -> Paths] /\ old' \subseteq Session
        /\ decl' \in [Session -> {"none", "torn", "ok"}]
    BY <1>1, <1>2 DEF Typing, Paths
  <2> QED
    BY <1>1, <1>2, <1>3, <1>6, <1>7, <2>1, <2>2, SoundStep
<1>9. ASSUME NEW t \in Session \ {s} PROVE Untouched(t)
  <2>1. ASSUME NEW q \in Request
        PROVE  \/ req'[q] = req[q]
               \/ q \notin Active(t) /\ (req'[q] = Idle \/ req'[q].ses # t)
    <3>1. CASE q \in Active(s)
      BY <1>4, <3>1 DEF Active
    <3>2. CASE q \notin Active(s)
      BY <1>5, <3>2
    <3> QED
      BY <3>1, <3>2
  <2> QED
    BY <1>1, <1>3, <2>1 DEF Untouched
<1>10. Active(s)' = Active(s)
  <2>1. ASSUME NEW q \in Request PROVE q \in Active(s)' <=> q \in Active(s)
    <3>1. CASE q \in Active(s)
      BY <1>4, <3>1, Absent DEF Active
    <3>2. CASE q \notin Active(s)
      BY <1>5, <3>2 DEF Active
    <3> QED
      BY <3>1, <3>2
  <2> QED
    BY <2>1 DEF Active
<1>11. ASSUME s \notin crossed PROVE WholeOK(s)'
  <2>1. WholeOK(s)
    BY <1>11 DEF IInv
  <2>2. \A q \in Active(s) : CommitOK(req'[q], file[s])
    BY <1>4, <2>1 DEF WholeOK, CommitOK
  <2>3. file[s].part # NoFile =>
          Stable(file[s].part) \/ \E r \in Active(s) : req'[r].fd = "part"
    BY <1>4, <2>1 DEF WholeOK
  <2>4. phone'[s].pc # "done"
    BY <1>3, News
  <2> QED
    BY <1>1, <1>10, <2>1, <2>2, <2>3, <2>4 DEF WholeOK
<1>12. ASSUME s \notin crossed \cup swept PROVE PromiseOK(s)'
  <2>1. PromiseOK(s)
    BY <1>12 DEF IInv
  <2>2. \A q \in Active(s) : StepOK(req'[q], file[s])
    BY <1>4, <2>1 DEF PromiseOK, StepOK
  <2>3. ASSUME NEW q \in Active(s) PROVE phone'[s].at <= req'[q].at
    <3>1. req[q].at \in 0..Size
      BY <1>2, RequestType DEF Active
    <3> QED
      BY <1>3, <1>4, <3>1, News, Constants
  <2>4. KeptOK(phone'[s].at, file[s])
    BY <1>3, News
  <2> QED
    BY <1>1, <1>10, <2>1, <2>2, <2>3, <2>4 DEF PromiseOK
<1> QED
  BY <1>1, <1>8, <1>9, <1>11, <1>12, LocalStep

\* A unit more on the platter.
LEMMA WrittenBackStep ==
  ASSUME IInv, NEW s \in Session, NEW p \in Path, WrittenBack(s, p)
  PROVE  IInv'
<1>1. UNCHANGED <<decl, old, req, sweep, phone, crossed, swept, faults>>
  BY DEF WrittenBack, seen
<1>2. Sound /\ Typing /\ RequestsOK
  BY DEF IInv, Sound
<1>3. PICK f \in File :
         /\ file' \in [Session -> Paths] /\ FilesOK'
         /\ file[s][p] # NoFile /\ file'[s][p] = f
         /\ f.data = file[s][p].data /\ f.cut = file[s][p].cut
         /\ f.synced = file[s][p].synced + 1 /\ f.synced <= Len(f.data)
         /\ \A q \in Path \ {p} : file'[s][q] = file[s][q]
         /\ \A t \in Session \ {s} : file'[t] = file[t]
         /\ \A t \in Session, q \in Path : file[t][q] # NoFile => file'[t][q] # NoFile
  BY <1>2, WrittenFile
<1>4. Sound'
  <2>1. ASSUME NEW q \in Request PROVE OpenOK(req'[q], file')
    <3>1. OpenOK(req[q], file) /\ (req[q] # Idle => req[q].ses \in Session)
      BY <1>2, RequestType DEF RequestsOK
    <3> QED
      BY <1>1, <1>3, <3>1 DEF OpenOK
  <2>2. RequestsOK'
    BY <2>1 DEF RequestsOK
  <2>3. /\ req' \in Slots /\ old' \subseteq Session /\ phone' \in [Session -> Phone]
        /\ decl' \in [Session -> {"none", "torn", "ok"}]
    BY <1>1, <1>2 DEF Sound, Typing, Slots
  <2> QED
    BY <1>1, <1>2, <1>3, <2>2, <2>3, SoundStep
<1>5. \A t \in Session \ {s} : Untouched(t)
  BY <1>1, <1>3 DEF Untouched
<1>6. Active(s)' = Active(s)
  BY <1>1 DEF Active
\* At either path the file is as it was, or has one unit more on the platter.
<1> DEFINE After(was, is) ==
      /\ (is = NoFile) <=> (was = NoFile)
      /\ is # NoFile =>
           /\ is.data = was.data /\ is.cut = was.cut
           /\ \/ is = was
              \/ is.synced = was.synced + 1 /\ is.synced <= Len(is.data)
                 /\ was.synced \in Nat /\ Len(was.data) \in Nat
<1>7. After(file[s].part, file'[s].part) /\ After(file[s].blob, file'[s].blob)
  <2>1. ASSUME NEW q \in Path PROVE After(file[s][q], file'[s][q])
    <3>1. CASE q # p
      BY <1>3, <3>1
    <3>2. CASE q = p
      <4>1. file[s][p] \in File /\ f # NoFile
        BY <1>2, <1>3, PathType, FileType
      <4>2. file[s][p].synced \in Nat /\ Len(file[s][p].data) \in Nat
        BY <4>1, FileType
      <4> QED
        BY <1>3, <3>2, <4>1, <4>2
    <3> QED
      BY <3>1, <3>2
  <2>2. After(file[s]["part"], file'[s]["part"]) /\ After(file[s]["blob"], file'[s]["blob"])
    BY <2>1 DEF Path
  <2> QED
    BY <2>2
<1>8. ASSUME NEW was, NEW is, After(was, is)
      PROVE  /\ was # NoFile /\ Stable(was) => Stable(is)
             /\ BlobOK(was) => BlobOK(is)
             /\ PartOK(was) => PartOK(is)
  BY <1>8 DEF Stable, BlobOK, PartOK
<1>9. ASSUME s \notin crossed PROVE WholeOK(s)'
  <2>1. WholeOK(s)
    BY <1>9 DEF IInv
  <2>2. \A q \in Active(s) : CommitOK(req[q], file'[s])
    BY <1>7, <2>1 DEF WholeOK, CommitOK
  <2>3. file'[s].part # NoFile =>
          Stable(file'[s].part) \/ \E r \in Active(s) : req[r].fd = "part"
    BY <1>7, <1>8, <2>1 DEF WholeOK
  <2>4. BlobOK(file'[s].blob) /\ (phone[s].pc = "done" => file'[s].blob # NoFile)
    BY <1>7, <1>8, <2>1 DEF WholeOK
  <2> QED
    BY <1>1, <1>6, <2>1, <2>2, <2>3, <2>4 DEF WholeOK
<1>10. ASSUME s \notin crossed \cup swept PROVE PromiseOK(s)'
  <2>1. PromiseOK(s)
    BY <1>10 DEF IInv
  <2>2. \A q \in Active(s) : StepOK(req[q], file'[s])
    <3>1. ASSUME NEW q \in Active(s) PROVE StepOK(req[q], file'[s])
      <4>1. q \in Request /\ StepOK(req[q], file[s]) /\ OpenOK(req[q], file) /\ req[q] # Idle
            /\ req[q].ses = s
        BY <1>2, <2>1 DEF PromiseOK, RequestsOK, Active
      <4>2. req[q].pc = "copying" => file[s].part # NoFile
        BY <4>1 DEF StepOK, OpenOK, Path
      <4> QED
        BY <1>7, <4>1, <4>2 DEF StepOK
    <3> QED
      BY <3>1
  <2>3. PartOK(file'[s].part)
    BY <1>7, <1>8, <2>1 DEF PromiseOK
  <2>4. KeptOK(phone[s].at, file'[s])
    <3>1. phone[s].at \in Nat
      BY <1>2, Constants DEF Typing
    <3> QED
      BY <1>7, <2>1, <3>1 DEF PromiseOK, KeptOK
  <2> QED
    BY <1>1, <1>6, <2>1, <2>2, <2>3, <2>4 DEF PromiseOK
<1> QED
  BY <1>1, <1>4, <1>5, <1>9, <1>10, LocalStep

\* The process is gone: what there is to show of the files.
LEMMA CrashStep ==
  ASSUME IInv, Stopped, file' \in [Session -> Paths], FilesOK',
         \A s \in Session \ crossed :
           /\ file'[s].part # NoFile => Stable(file'[s].part)
           /\ BlobOK(file'[s].blob)
           /\ file'[s].blob = NoFile <=> file[s].blob = NoFile,
         \A s \in Session \ (crossed \cup swept) :
           PartOK(file'[s].part) /\ KeptOK(phone[s].at, file'[s])
  PROVE  IInv'
<1>1. /\ UNCHANGED <<decl, old, crossed, swept>> /\ Fault
      /\ req' = [r \in Request |-> Idle] /\ sweep' = NoSweep
      /\ phone' = [s \in Session |-> IF Hearing(s) THEN Away ELSE phone[s]]
  BY DEF Stopped, seen
<1>2. Sound /\ Typing /\ phone \in [Session -> Phone]
  BY DEF IInv, Sound
<1>3. req' \in Slots /\ \A r \in Request : req'[r] = Idle
  BY <1>1, Emptied
<1>4. RequestsOK'
  BY <1>3 DEF RequestsOK, OpenOK
<1>5. /\ phone' \in [Session -> Phone]
      /\ \A s \in Session : phone'[s] = Away \/ phone'[s] = phone[s]
  BY <1>1, <1>2, News
<1>6. Sound'
  <2>1. faults' \in 0..MaxFaults
    BY <1>1, <1>2, Constants DEF Typing, Fault
  <2>2. Typing'
    BY <1>1, <1>2, <1>3, <1>5, <2>1 DEF Typing, Slots, Paths, Phone
  <2>3. SweepOK'
    BY <1>1 DEF SweepOK
  <2> QED
    BY <1>4, <1>5, <2>2, <2>3 DEF Sound
<1>7. ASSUME NEW s \in Session PROVE Active(s)' = {}
  BY <1>3 DEF Active
<1>8. ASSUME NEW s \in Session \ crossed' PROVE WholeOK(s)'
  <2>1. s \in Session \ crossed /\ WholeOK(s)
    BY <1>1 DEF IInv
  <2>2. phone'[s].pc = "done" => file'[s].blob # NoFile
    BY <1>5, <2>1, News DEF WholeOK
  <2> QED
    BY <1>7, <2>1, <2>2, QuietSession
<1>9. ASSUME NEW s \in Session \ (crossed \cup swept)' PROVE PromiseOK(s)'
  <2>1. s \in Session \ (crossed \cup swept)
    BY <1>1
  <2>2. KeptOK(phone'[s].at, file'[s])
    BY <1>5, <2>1, News
  <2> QED
    BY <1>7, <2>1, <2>2, QuietSession
<1> QED
  BY <1>6, <1>8, <1>9 DEF IInv

\* The process is killed.
LEMMA KilledStep ==
  ASSUME IInv, Killed
  PROVE  IInv'
<1>1. Sound /\ Stopped /\ FilesOK
  BY DEF IInv, Sound, Killed
<1>2. /\ file' \in [Session -> Paths] /\ FilesOK'
      /\ \A s \in Session, p \in Path :
           /\ file'[s][p] = NoFile <=> file[s][p] = NoFile
           /\ file[s][p] # NoFile =>
                /\ file'[s][p].data = file[s][p].data
                /\ file'[s][p].synced = file[s][p].synced
                /\ file'[s][p].cut = (CutOff(s, p) \/ file[s][p].cut)
  BY <1>1, KilledFiles
<1> DEFINE After(was, is, off) ==
      /\ is = NoFile <=> was = NoFile
      /\ was # NoFile => is.data = was.data /\ is.synced = was.synced /\ is.cut = (off \/ was.cut)
<1>3. \A s \in Session : /\ After(file[s].part, file'[s].part, CutOff(s, "part"))
                         /\ After(file[s].blob, file'[s].blob, CutOff(s, "blob"))
  BY <1>2 DEF Path
<1>4. ASSUME NEW s \in Session \ crossed
      PROVE  /\ file'[s].part # NoFile => Stable(file'[s].part)
             /\ BlobOK(file'[s].blob)
             /\ file'[s].blob = NoFile <=> file[s].blob = NoFile
  <2>1. WholeOK(s)
    BY DEF IInv
  <2>2. ASSUME file[s].part # NoFile, ~Stable(file[s].part) PROVE CutOff(s, "part")
    <3>1. PICK r \in Active(s) : req[r].fd = "part"
      BY <2>1, <2>2 DEF WholeOK
    <3>2. file[s].part \in File /\ file[s].part.synced <= Len(file[s].part.data)
      BY <1>1, <2>2, PathType DEF FilesOK, Path, Sound
    <3>3. file[s].part.synced < Len(file[s].part.data)
      BY <2>2, <3>2, FileType DEF Stable
    <3> QED
      BY <3>1, <3>3 DEF CutOff
  <2>3. file'[s].part # NoFile => Stable(file'[s].part)
    BY <1>3, <2>2 DEF Stable
  <2>4. BlobOK(file'[s].blob) /\ (file'[s].blob = NoFile <=> file[s].blob = NoFile)
    BY <1>3, <2>1 DEF WholeOK, BlobOK
  <2> QED
    BY <2>3, <2>4
<1>5. ASSUME NEW s \in Session \ (crossed \cup swept)
      PROVE  PartOK(file'[s].part) /\ KeptOK(phone[s].at, file'[s])
  <2>1. PromiseOK(s)
    BY DEF IInv
  <2> QED
    BY <1>3, <2>1 DEF PromiseOK, PartOK, KeptOK
<1> QED
  BY <1>1, <1>2, <1>4, <1>5, CrashStep

\* The power goes.
LEMMA PowerLossStep ==
  ASSUME IInv, PowerLoss
  PROVE  IInv'
<1>1. Sound /\ Stopped /\ FilesOK
  BY DEF IInv, Sound, PowerLoss
<1>2. /\ file' \in [Session -> Paths] /\ FilesOK'
      /\ \A s \in Session, p \in Path :
           /\ file'[s][p] = NoFile <=> file[s][p] = NoFile
           /\ file[s][p] # NoFile =>
                /\ Len(file'[s][p].data) = file[s][p].synced
                /\ \A k \in 1..file[s][p].synced : file'[s][p].data[k] = file[s][p].data[k]
                /\ file'[s][p].synced = file[s][p].synced
                /\ file'[s][p].cut = file[s][p].cut
  BY <1>1, LostFiles
<1> DEFINE After(was, is) ==
      /\ is = NoFile <=> was = NoFile
      /\ was # NoFile =>
           /\ was \in File /\ is \in File /\ was.synced <= Len(was.data)
           /\ Len(is.data) = was.synced
           /\ \A k \in 1..was.synced : is.data[k] = was.data[k]
           /\ is.synced = was.synced /\ is.cut = was.cut
<1>3. \A s \in Session : After(file[s].part, file'[s].part) /\ After(file[s].blob, file'[s].blob)
  <2>1. ASSUME NEW s \in Session, NEW p \in Path PROVE After(file[s][p], file'[s][p])
    <3>1. file'[s][p] \in File \cup {NoFile}
      BY <1>2 DEF Paths, Path
    <3>2. file[s][p] \in File \cup {NoFile}
      BY <1>1, PathType DEF Sound
    <3> QED
      BY <1>1, <1>2, <3>1, <3>2 DEF FilesOK
  <2> QED
    BY <2>1 DEF Path
<1>4. ASSUME NEW was, NEW is, After(was, is)
      PROVE  /\ is # NoFile => Stable(is)
             /\ PartOK(was) => PartOK(is)
             /\ BlobOK(was) => BlobOK(is)
  <2>1. CASE was = NoFile
    BY <1>4, <2>1 DEF PartOK, BlobOK
  <2>2. CASE was # NoFile
    <3>1. /\ was.synced \in Nat /\ Len(was.data) \in Nat /\ was.synced <= Len(was.data)
          /\ is # NoFile
      BY <1>4, <2>2, FileType
    <3>2. Stable(is)
      BY <1>4, <2>2 DEF Stable
    <3>3. PartOK(was) => PartOK(is)
      BY <1>4, <2>2, <3>1, Constants DEF PartOK
    <3>4. ASSUME Whole(was.data), was.synced = Len(was.data)
          PROVE  Whole(is.data) /\ is.synced = Len(is.data)
      <4>1. Len(was.data) = Size /\ \A k \in 1..Size : was.data[k] = k
        BY <3>4, Constants DEF Whole, Unit
      <4>2. Len(is.data) = Size /\ \A k \in 1..Len(is.data) : is.data[k] = k
        BY <1>4, <2>2, <3>4, <4>1
      <4> QED
        BY <1>4, <2>2, <4>2, FullIsWhole
    <3> QED
      BY <1>4, <2>2, <3>2, <3>3, <3>4 DEF BlobOK
  <2> QED
    BY <2>1, <2>2
<1>5. ASSUME NEW s \in Session \ crossed
      PROVE  /\ file'[s].part # NoFile => Stable(file'[s].part)
             /\ BlobOK(file'[s].blob)
             /\ file'[s].blob = NoFile <=> file[s].blob = NoFile
  <2>1. WholeOK(s)
    BY DEF IInv
  <2> QED
    BY <1>3, <1>4, <2>1 DEF WholeOK
<1>6. ASSUME NEW s \in Session \ (crossed \cup swept)
      PROVE  PartOK(file'[s].part) /\ KeptOK(phone[s].at, file'[s])
  <2>1. PromiseOK(s)
    BY DEF IInv
  <2> QED
    BY <1>3, <1>4, <2>1 DEF PromiseOK, KeptOK
<1> QED
  BY <1>1, <1>2, <1>5, <1>6, CrashStep

-----------------------------------------------------------------------------
(* The theorems. *)

\* Nothing has been sent.
LEMMA InitIInv == Init => IInv
<1> SUFFICES ASSUME Init PROVE IInv
  OBVIOUS
<1>1. /\ \A s \in Session : /\ file[s].part = NoFile /\ file[s].blob = NoFile
                            /\ phone[s] = Away /\ Active(s) = {}
      /\ \A r \in Request : req[r] = Idle
      /\ phone \in [Session -> Phone]
  BY News DEF Init, Active
<1>2. Typing
  BY Constants, News DEF Init, Typing, Phone
<1>3. FilesOK /\ RequestsOK /\ SweepOK
  BY <1>1 DEF FilesOK, RequestsOK, OpenOK, SweepOK, Path, Init
<1>4. ASSUME NEW s \in Session PROVE WholeOK(s) /\ PromiseOK(s)
  <2>1. WholeOK(s)
    BY <1>1, News DEF WholeOK, BlobOK
  <2>2. PromiseOK(s)
    BY <1>1, News DEF PromiseOK, PartOK
  <2> QED
    BY <2>1, <2>2
<1> QED
  BY <1>1, <1>2, <1>3, <1>4 DEF IInv, Sound

\* Nothing happens.
LEMMA StutterIInv == ASSUME IInv, UNCHANGED vars PROVE IInv'
<1>1. UNCHANGED <<decl, file, old, req, sweep, phone, crossed, swept, faults>>
  BY DEF vars, seen
<1>2. Typing' /\ SweepOK'
  BY <1>1 DEF IInv, Sound, Typing, SweepOK
<1> QED
  BY <1>1, <1>2, AsideStep

\* One step of a handler.
LEMMA RequestIInv == ASSUME IInv, NEW r \in Request, RequestStep(r) PROVE IInv'
<1>1. CASE \/ CreateUnreadable(r) \/ DeclFails(r) \/ ChunkRefused(r) \/ CommitRefused(r)
           \/ AdoptFindsNone(r) \/ AdoptFails(r) \/ FinishFails(r)
  BY <1>1, RefusedSteps
<1>2. CASE \/ CreateFindsNone(r) \/ DeclTruncated(r) \/ DeclWritten(r) \/ ChunkAccepted(r)
           \/ CommitAccepted(r)
  BY <1>2, MovedSteps
<1>3. CASE CreateResumes(r)
  BY <1>3, CreateResumesStep
<1>4. CASE PartTouched(r)
  BY <1>4, PartTouchedStep
<1>5. CASE ChunkOpens(r)
  BY <1>5, ChunkOpensStep
<1>6. CASE ChunkCopies(r)
  BY <1>6, ChunkCopiesStep
<1>7. CASE ChunkSynced(r) \/ ChunkInterrupted(r) \/ ChunkSyncFails(r)
  BY <1>7, CopyReturnSteps
<1>8. CASE AdoptReads(r)
  BY <1>8, AdoptReadsStep
<1>9. CASE AdoptStats(r)
  BY <1>9, AdoptStatsStep
<1>10. CASE AdoptRedundant(r) \/ AdoptRenames(r) \/ Clears(r)
  BY <1>10, MoverSteps
<1>11. CASE Forgets(r)
  BY <1>11, ForgetsStep
<1>12. CASE Finishes(r)
  BY <1>12, FinishesStep
<1> QED
  BY <1>1, <1>2, <1>3, <1>4, <1>5, <1>6, <1>7, <1>8, <1>9, <1>10, <1>11, <1>12 DEF RequestStep

\* Every step keeps the invariant.
LEMMA NextIInv == IInv /\ [Next]_vars => IInv'
<1> SUFFICES ASSUME IInv, [Next]_vars PROVE IInv'
  OBVIOUS
<1>1. CASE \E r \in Request : RequestStep(r)
  BY <1>1, RequestIInv
<1>2. CASE \E r \in Request, s \in Session : SendCreate(r, s) \/ SendChunk(r, s) \/ SendCommit(r, s)
  BY <1>2, SendSteps
<1>3. CASE (\E s \in Session : Ages(s) \/ SweepPicks(s)) \/ SweepsMeta
  BY <1>3, AsideSteps
<1>4. CASE \E s \in Session : PhoneStops(s)
  BY <1>4, PhoneStopsStep
<1>5. CASE SweepsPart
  BY <1>5, SweepsPartStep
<1>6. CASE \E s \in Session, path \in {"part", "blob"} : WrittenBack(s, path)
  BY <1>6, WrittenBackStep DEF Path
<1>7. CASE Killed
  BY <1>7, KilledStep
<1>8. CASE PowerLoss
  BY <1>8, PowerLossStep
<1>9. CASE UNCHANGED vars
  BY <1>9, StutterIInv
<1> QED
  BY <1>1, <1>2, <1>3, <1>4, <1>5, <1>6, <1>7, <1>8, <1>9 DEF Next

\* The invariant is one.
LEMMA AlwaysIInv == Spec => []IInv
BY InitIInv, NextIInv, PTL DEF Spec

-----------------------------------------------------------------------------
(* What Append has answered for. *)

\* It is on the platter, until it is in the blob.
AnsweredOK(s) ==
  answered[s] > 0 /\ file[s].blob = NoFile =>
    file[s].part # NoFile /\ answered[s] <= file[s].part.synced

AnswersOK ==
  /\ answered \in [Session -> 0..Size]
  /\ \A s \in Session \ (crossed \cup swept) : AnsweredOK(s)

\* No less is on the platter than was.
NoLess(s) ==
  file'[s].blob = NoFile =>
    /\ file[s].blob = NoFile
    /\ file[s].part # NoFile =>
         file'[s].part # NoFile /\ file[s].part.synced <= file'[s].part.synced

\* Neither path is touched, or the part comes to be.
LEMMA SamePart ==
  ASSUME Typing, NEW s \in Session, file'[s].blob = file[s].blob,
         file[s].part # NoFile => file'[s].part = file[s].part
  PROVE  NoLess(s)
<1>1. file[s].part \in File \cup {NoFile}
  BY PathType DEF Path
<1> QED
  BY <1>1, FileType DEF NoLess

\* One file has as much on the platter as it had, or more.
LEMMA MoreSynced ==
  ASSUME Sound, NEW s \in Session, NEW p \in Path, NEW f \in File, file[s][p] # NoFile,
         file' \in [Session -> Paths],
         file'[s][p] = f, file[s][p].synced <= f.synced,
         \A q \in Path \ {p} : file'[s][q] = file[s][q],
         \A t \in Session \ {s} : file'[t] = file[t],
         NEW t \in Session
  PROVE  NoLess(t)
<1>1. CASE t # s
  BY <1>1, SamePart DEF Sound
<1>2. CASE t = s /\ p = "blob"
  <2>1. file'[s].part = file[s].part /\ file'[s].blob # NoFile
    BY <1>2, FileType DEF Path
  <2> QED
    BY <1>2, <2>1 DEF NoLess
<1>3. CASE t = s /\ p = "part"
  <2>1. file'[s].blob = file[s].blob /\ file'[s].part # NoFile
    BY <1>3, FileType DEF Path
  <2> QED
    BY <1>3, <2>1 DEF NoLess
<1> QED
  BY <1>1, <1>2, <1>3 DEF Path

\* The steps of a handler that has a file open.
LEMMA CopyNoLess ==
  ASSUME IInv, NEW r \in Request, NEW t \in Session,
         ChunkCopies(r) \/ ChunkSynced(r) \/ ChunkInterrupted(r) \/ ChunkSyncFails(r)
  PROVE  NoLess(t)
<1> DEFINE s == req[r].ses
           fd == req[r].fd
<1>1. req[r] # Idle /\ req[r].pc = "copying"
  BY DEF ChunkCopies, ChunkSynced, ChunkInterrupted, ChunkSyncFails, At
<1>2. /\ Sound /\ Typing /\ FilesOK /\ s \in Session
      /\ fd \in {"part", "blob", "gone"} /\ (fd \in Path => file[s][fd] # NoFile)
      /\ req[r].at \in Nat /\ req[r].end \in Nat /\ req[r].end <= Size
  BY <1>1, Copying, RequestType DEF IInv, Sound
<1>3. CASE fd = "gone"
  <2>1. file' = file
    BY <1>3 DEF ChunkCopies, ChunkSynced, ChunkInterrupted, ChunkSyncFails, Synced
  <2> QED
    BY <1>2, <2>1, SamePart
<1>4. CASE fd \in Path /\ ChunkCopies(r)
  <2>1. req[r].at + 1 \in Unit /\ file' = Grown(s, fd, req[r].at + 1)
    BY <1>2, <1>4, Constants DEF ChunkCopies, Grown, Unit, Path
  <2>2. file[s][fd] # NoFile /\ file[s][fd].synced \in Nat
    BY <1>2, <1>4, PathType, FileType
  <2> HIDE DEF s, fd
  <2>3. PICK f \in File :
         /\ file' \in [Session -> Paths] /\ file'[s][fd] = f
         /\ f.synced = file[s][fd].synced
         /\ \A q \in Path \ {fd} : file'[s][q] = file[s][q]
         /\ \A u \in Session \ {s} : file'[u] = file[u]
    BY <1>2, <1>4, <2>1, <2>2, GrownFile
  <2> QED
    BY <1>2, <1>4, <2>2, <2>3, MoreSynced
<1>5. CASE fd \in Path /\ file' = Synced(r)
  <2>1. /\ file[s][fd] # NoFile /\ file[s][fd].synced \in Nat
        /\ file[s][fd].synced <= Len(file[s][fd].data)
    BY <1>2, <1>5, PathType, FileType DEF FilesOK
  <2>2. PICK f \in File :
         /\ file' \in [Session -> Paths] /\ file'[s][fd] = f
         /\ f.data = file[s][fd].data /\ f.synced = Len(f.data)
         /\ \A q \in Path \ {fd} : file'[s][q] = file[s][q]
         /\ \A u \in Session \ {s} : file'[u] = file[u]
    BY <1>1, <1>2, <1>5, SyncedFile
  <2> HIDE DEF s, fd
  <2>3. file[s][fd].synced <= f.synced
    BY <2>1, <2>2
  <2> QED
    BY <1>2, <1>5, <2>1, <2>2, <2>3, MoreSynced
<1>6. CASE fd \in Path /\ ChunkSyncFails(r)
  <2>1. file' = CutShort(s, fd)
    BY <1>6 DEF ChunkSyncFails, CutShort, Path
  <2>2. file[s][fd] # NoFile /\ file[s][fd].synced \in Nat
    BY <1>2, <1>6, PathType, FileType
  <2> HIDE DEF s, fd
  <2>3. PICK f \in File :
         /\ file' \in [Session -> Paths] /\ file'[s][fd] = f
         /\ f.synced = file[s][fd].synced
         /\ \A q \in Path \ {fd} : file'[s][q] = file[s][q]
         /\ \A u \in Session \ {s} : file'[u] = file[u]
    BY <1>2, <1>6, <2>1, <2>2, CutFile
  <2> QED
    BY <1>2, <1>6, <2>2, <2>3, MoreSynced
<1>7. file' = Synced(r) \/ ChunkCopies(r) \/ ChunkSyncFails(r)
  BY DEF ChunkSynced, ChunkInterrupted
<1> QED
  BY <1>2, <1>3, <1>4, <1>5, <1>6, <1>7 DEF Path

\* The part is renamed, or removed when the blob is there.
LEMMA MoverNoLess ==
  ASSUME IInv, NEW r \in Request, AdoptRedundant(r) \/ AdoptRenames(r) \/ Clears(r),
         NEW t \in Session \ (crossed \cup swept)
  PROVE  NoLess(t)
<1> DEFINE s == req[r].ses
<1>1. /\ req[r] # Idle /\ req[r].pc \in {"stating", "renaming", "clearing"}
      /\ Sound /\ Typing /\ s \in Session
  BY RequestType DEF AdoptRedundant, AdoptRenames, Clears, At, IInv, Sound
<1>2. CASE AdoptRenames(r)
  <2>1. file' = [file EXCEPT ![s] = [part |-> NoFile, blob |-> file[s].part]]
    BY <1>2 DEF AdoptRenames
  <2>2. file[s].part # NoFile
    BY <1>2 DEF AdoptRenames
  <2>3. file'[s].blob # NoFile /\ \A u \in Session \ {s} : file'[u] = file[u]
    BY <1>1, <2>1, <2>2, RenamedFile
  <2>4. CASE t = s
    BY <2>3, <2>4 DEF NoLess
  <2>5. CASE t # s
    BY <1>1, <2>3, <2>5, SamePart
  <2> QED
    BY <2>4, <2>5
<1>3. CASE AdoptRedundant(r) \/ Clears(r)
  <2>1. file' = [file EXCEPT ![s].part = NoFile]
    BY <1>3 DEF AdoptRedundant, Clears
  <2>2. file'[s].blob = file[s].blob /\ \A u \in Session \ {s} : file'[u] = file[u]
    BY <1>1, <2>1, RemovedFile
  <2>3. CASE t # s
    BY <1>1, <2>2, <2>3, SamePart
  <2>4. CASE t = s
    <3>1. StepOK(req[r], file[s]) /\ CommitOK(req[r], file[s])
      BY <1>1, <2>4, PartAlone
    <3>2. file[s].blob # NoFile
      BY <1>3, <3>1 DEF AdoptRedundant, Clears, At, StepOK, CommitOK
    <3> QED
      BY <2>2, <2>4, <3>2 DEF NoLess
  <2> QED
    BY <2>3, <2>4
<1> QED
  BY <1>2, <1>3

\* A crash leaves what is on the platter.
LEMMA CrashNoLess ==
  ASSUME IInv, Killed \/ PowerLoss, NEW t \in Session
  PROVE  NoLess(t)
<1>1. Sound /\ Typing
  BY DEF IInv, Sound
<1>2. \A p \in Path : /\ file'[t][p] = NoFile <=> file[t][p] = NoFile
                      /\ file[t][p] # NoFile => file'[t][p].synced = file[t][p].synced
  <2>1. CASE Killed
    BY <1>1, <2>1, KilledFiles
  <2>2. CASE PowerLoss
    BY <1>1, <2>2, LostFiles
  <2> QED
    BY <2>1, <2>2
<1>3. /\ file'[t].blob = NoFile <=> file[t].blob = NoFile
      /\ file'[t].part = NoFile <=> file[t].part = NoFile
      /\ file[t].part # NoFile => file'[t].part.synced = file[t].part.synced
  BY <1>2 DEF Path
<1>4. file[t].part \in File \cup {NoFile}
  BY <1>1, PathType DEF Path
<1> QED
  BY <1>3, <1>4, FileType DEF NoLess

\* Of a session that the sweep has not picked, no step takes anything back.
LEMMA NothingLess ==
  ASSUME IInv, [Next]_vars, NEW t \in Session \ (crossed \cup swept)
  PROVE  NoLess(t)
<1>1. Sound /\ Typing
  BY DEF IInv, Sound
<1>2. CASE file' = file
  BY <1>1, <1>2, SamePart
<1>3. CASE \E r \in Request : ChunkCopies(r) \/ ChunkSynced(r) \/ ChunkInterrupted(r)
                              \/ ChunkSyncFails(r)
  BY <1>3, CopyNoLess
<1>4. CASE \E r \in Request : AdoptRedundant(r) \/ AdoptRenames(r) \/ Clears(r)
  BY <1>4, MoverNoLess
<1>5. CASE \E r \in Request : PartTouched(r) \/ ChunkOpens(r)
  <2>1. PICK s \in Session : file' = Created(s)
    <3>1. PICK r \in Request : PartTouched(r) \/ ChunkOpens(r)
      BY <1>5
    <3>2. req[r] # Idle /\ file' = Created(req[r].ses)
      BY <3>1 DEF PartTouched, ChunkOpens, At
    <3> QED
      BY <1>1, <3>2, RequestType
  <2>2. /\ file'[s].part = (IF file[s].part = NoFile THEN Empty ELSE file[s].part)
        /\ file'[s].blob = file[s].blob
        /\ \A u \in Session \ {s} : file'[u] = file[u]
    BY <1>1, <2>1, CreatedFile
  <2> QED
    BY <1>1, <2>2, SamePart
<1>6. CASE SweepsPart
  <2>1. sweep.ses \in swept /\ sweep.ses \in Session
    BY <1>1, <1>6 DEF SweepsPart, Sound, SweepOK, Typing
  <2>2. file' = [file EXCEPT ![sweep.ses].part = NoFile]
    BY <1>6 DEF SweepsPart
  <2>3. file'[t] = file[t]
    BY <1>1, <2>1, <2>2, RemovedFile
  <2> QED
    BY <1>1, <2>3, SamePart
<1>7. CASE \E s \in Session, path \in Path : WrittenBack(s, path)
  <2>1. PICK s \in Session, p \in Path : WrittenBack(s, p)
    BY <1>7
  <2>2. file[s][p] # NoFile
    BY <2>1 DEF WrittenBack
  <2>3. PICK f \in File :
         /\ file' \in [Session -> Paths] /\ file'[s][p] = f
         /\ f.synced = file[s][p].synced + 1
         /\ \A q \in Path \ {p} : file'[s][q] = file[s][q]
         /\ \A u \in Session \ {s} : file'[u] = file[u]
    BY <1>1, <2>1, WrittenFile
  <2>4. file[s][p].synced <= f.synced
    BY <1>1, <2>2, <2>3, PathType, FileType
  <2> QED
    BY <1>1, <2>2, <2>3, <2>4, MoreSynced
<1>8. CASE Killed \/ PowerLoss
  BY <1>8, CrashNoLess
<1>9. ASSUME NEW r \in Request, RequestStep(r)
      PROVE  \/ file' = file
             \/ ChunkCopies(r) \/ ChunkSynced(r) \/ ChunkInterrupted(r) \/ ChunkSyncFails(r)
             \/ AdoptRedundant(r) \/ AdoptRenames(r) \/ Clears(r)
             \/ PartTouched(r) \/ ChunkOpens(r)
  BY <1>9 DEF RequestStep, CreateResumes, CreateUnreadable, CreateFindsNone, DeclTruncated,
              DeclWritten, DeclFails, ChunkAccepted, ChunkRefused, CommitAccepted,
              CommitRefused, AdoptReads, AdoptFindsNone, AdoptStats, AdoptFails, Forgets,
              Finishes, FinishFails
<1>10. ASSUME NEW r \in Request, NEW s \in Session,
              SendCreate(r, s) \/ SendChunk(r, s) \/ SendCommit(r, s)
       PROVE  file' = file
  BY <1>10 DEF SendCreate, SendChunk, SendCommit, Send
<1>11. ASSUME NEW s \in Session, Ages(s) \/ SweepPicks(s) \/ PhoneStops(s)
       PROVE  file' = file
  BY <1>11 DEF Ages, SweepPicks, PhoneStops
<1>12. SweepsMeta \/ UNCHANGED vars => file' = file
  BY DEF SweepsMeta, vars
<1> QED
  BY <1>2, <1>3, <1>4, <1>5, <1>6, <1>7, <1>8, <1>9, <1>10, <1>11, <1>12 DEF Next, Path

\* Only an fsync that succeeded answers, for no more than it wrote.
LEMMA AnswersStep ==
  ASSUME IInv, AnswersOK, [Next]_vars
  PROVE  AnswersOK'
<1>1. Sound /\ Typing /\ answered \in [Session -> 0..Size]
  BY DEF IInv, Sound, AnswersOK
<1>2. ASSUME NEW t \in Session \ (crossed \cup swept), answered'[t] = answered[t]
      PROVE  AnsweredOK(t)'
  <2>1. AnsweredOK(t) /\ NoLess(t)
    BY <1>2, NothingLess DEF AnswersOK
  <2>2. answered[t] \in Nat
    BY <1>1, Constants
  <2>3. ASSUME answered[t] > 0, file'[t].blob = NoFile
        PROVE  file'[t].part # NoFile /\ answered[t] <= file'[t].part.synced
    <3>1. file[t].part # NoFile /\ answered[t] <= file[t].part.synced
      BY <2>1, <2>3 DEF AnsweredOK, NoLess
    <3>2. file'[t].part # NoFile /\ file[t].part.synced <= file'[t].part.synced
      BY <2>1, <2>3, <3>1 DEF NoLess
    <3>3. IInv'
      BY NextIInv
    <3>4. file[t].part.synced \in Nat /\ file'[t].part.synced \in Nat
      <4>1. file[t] \in Paths /\ file'[t] \in Paths
        BY <1>1, <3>3 DEF IInv, Sound, Typing, Paths
      <4> QED
        BY <3>1, <3>2, <4>1, FileType DEF Paths
    <3> QED
      BY <2>2, <3>1, <3>2, <3>4
  <2> QED
    BY <1>2, <2>3 DEF AnsweredOK
<1>3. crossed \subseteq crossed' /\ swept \subseteq swept'
  BY DEF Next, vars, seen, RequestStep, SendCreate, SendChunk, SendCommit, Send,
         CreateResumes, CreateUnreadable, CreateFindsNone, DeclTruncated, DeclWritten,
         DeclFails, PartTouched, ChunkAccepted, ChunkRefused, ChunkOpens, ChunkCopies,
         ChunkSynced, ChunkInterrupted, ChunkSyncFails, CommitAccepted, CommitRefused,
         AdoptReads, AdoptFindsNone, AdoptStats, AdoptRedundant, AdoptRenames, AdoptFails,
         Clears, Forgets, Finishes, FinishFails, Ages, SweepPicks, PhoneStops, SweepsPart,
         SweepsMeta, WrittenBack, Killed, PowerLoss, Stopped
<1>4. CASE answered' = answered
  BY <1>1, <1>2, <1>3, <1>4 DEF AnswersOK
<1>5. CASE \E r \in Request : ChunkSynced(r)
  <2>1. PICK r \in Request : ChunkSynced(r)
    BY <1>5
  <2>2. req[r] # Idle /\ req[r].pc = "copying"
    BY <2>1 DEF ChunkSynced, At
  <2>3. PICK s \in Session : s = req[r].ses
    BY <1>1, <2>2, RequestType
  <2>4. /\ req[r].at \in 0..Size /\ file' = Synced(r)
        /\ answered' = [answered EXCEPT ![s] = IF req[r].at > @ THEN req[r].at ELSE @]
    BY <1>1, <2>2, <2>1, <2>3, RequestType DEF ChunkSynced, Answered
  <2>5. answered' \in [Session -> 0..Size] /\ \A t \in Session \ {s} : answered'[t] = answered[t]
    BY <1>1, <2>4
  <2>6. answered'[s] = IF req[r].at > answered[s] THEN req[r].at ELSE answered[s]
    BY <1>1, <2>4
  <2>7. ASSUME s \notin crossed \cup swept, answered'[s] # answered[s] PROVE AnsweredOK(s)'
    <3>1. answered'[s] = req[r].at
      BY <2>6, <2>7
    <3>2. req[r].fd = "part" /\ Len(file[s].part.data) = req[r].at
      BY <2>2, <2>7, <2>3, Copying
    <3>3. PICK f \in File : file'[s]["part"] = f /\ f.data = file[s]["part"].data /\ f.synced = Len(f.data)
      BY <1>1, <2>2, <2>4, <2>3, <3>2, SyncedFile DEF Path
    <3>4. file'[s].part = f /\ f # NoFile /\ file[s].part = file[s]["part"]
      BY <3>3, FileType
    <3>5. file'[s].part.synced = req[r].at
      BY <3>2, <3>3, <3>4
    <3>6. file'[s].part # NoFile /\ answered'[s] <= file'[s].part.synced
      BY <2>4, <3>1, <3>4, <3>5, Constants
    <3> QED
      BY <3>6 DEF AnsweredOK
  <2>8. ASSUME NEW t \in Session \ (crossed \cup swept)' PROVE AnsweredOK(t)'
    <3>1. t \in Session \ (crossed \cup swept)
      BY <1>3
    <3>2. CASE answered'[t] = answered[t]
      BY <1>2, <3>1, <3>2
    <3>3. CASE answered'[t] # answered[t]
      <4>1. t = s
        BY <2>5, <3>3
      <4> QED
        BY <2>7, <3>1, <3>3, <4>1
    <3> QED
      BY <3>2, <3>3
  <2> QED
    BY <2>5, <2>8 DEF AnswersOK
<1>6. answered' = answered \/ \E r \in Request : ChunkSynced(r)
  BY DEF Next, vars, seen, RequestStep, SendCreate, SendChunk, SendCommit, Send,
         CreateResumes, CreateUnreadable, CreateFindsNone, DeclTruncated, DeclWritten,
         DeclFails, PartTouched, ChunkAccepted, ChunkRefused, ChunkOpens, ChunkCopies,
         ChunkInterrupted, ChunkSyncFails, CommitAccepted, CommitRefused,
         AdoptReads, AdoptFindsNone, AdoptStats, AdoptRedundant, AdoptRenames, AdoptFails,
         Clears, Forgets, Finishes, FinishFails, Ages, SweepPicks, PhoneStops, SweepsPart,
         SweepsMeta, WrittenBack, Killed, PowerLoss, Stopped
<1> QED
  BY <1>4, <1>5, <1>6

\* Nothing has been answered for.
LEMMA AlwaysAnswers == Spec => [](IInv /\ AnswersOK)
<1>1. Init => AnswersOK
  BY Constants DEF Init, AnswersOK, AnsweredOK
<1>2. IInv /\ AnswersOK /\ [Next]_vars => AnswersOK'
  BY AnswersStep
<1> QED
  BY <1>1, <1>2, InitIInv, NextIInv, PTL DEF Spec

\* Every variable has its type.
THEOREM Typed == Spec => []TypeOK
<1>1. IInv /\ AnswersOK => TypeOK
  BY DEF IInv, Sound, Typing, AnswersOK, TypeOK
<1> QED
  BY <1>1, AlwaysAnswers, PTL

\* What a client was told is archived is in the tree and is the original,
\* whatever failed, unless two requests were in its session at once or an fsync
\* was cut off (blobstore.Adopt, handleCommitUpload).
THEOREM DoneMeansWhole == Spec => []DoneIsWhole
<1>1. ASSUME IInv PROVE DoneIsWhole
  <2>1. ASSUME NEW s \in Session \ crossed, phone[s].pc = "done"
        PROVE  file[s].blob # NoFile /\ (Whole(file[s].blob.data) \/ file[s].blob.cut)
    BY <1>1, <2>1 DEF IInv, WholeOK, BlobOK
  <2> QED
    BY <2>1 DEF DoneIsWhole
<1> QED
  BY <1>1, AlwaysIInv, PTL

\* An offset is a promise: what Append has answered for is there through any
\* crash, and whatever is cut off later, but for the end of a blob that was adopted
\* when its last fsync was cut off.  What Create has read back is there but for a
\* file of which an fsync was cut off.  Of sessions that had one request at a time
\* and that the sweep has not picked (uploads.Append, uploads.Get, blobstore.Adopt).
THEOREM PromisesAreKept == Spec => []PromisesKept
<1> DEFINE There(s, n, excused) == n > 0 =>
      \E path \in {"part", "blob"} :
        /\ file[s][path] # NoFile
        /\ \/ Holds(file[s][path].data, n)
           \/ path \in excused /\ file[s][path].cut
<1>1. ASSUME IInv, AnswersOK, NEW s \in Session \ (crossed \cup swept)
      PROVE  There(s, answered[s], {"blob"}) /\ There(s, phone[s].at, {"part", "blob"})
  <2>1. /\ WholeOK(s) /\ PromiseOK(s) /\ AnsweredOK(s) /\ Typing /\ FilesOK
        /\ phone[s].at \in 0..Size /\ answered[s] \in 0..Size
    BY <1>1 DEF IInv, AnswersOK, Sound, Typing
  <2>2. CASE file[s].blob # NoFile
    <3> DEFINE f == file[s].blob
    <3>1. ASSUME NEW n \in 0..Size, Whole(f.data) PROVE Holds(f.data, n)
      <4>1. Len(f.data) = Size /\ \A k \in 1..Size : f.data[k] = k
        BY <3>1, Constants DEF Whole, Unit
      <4> QED
        BY <4>1, Constants DEF Holds
    <3>2. f.cut \/ Whole(f.data)
      BY <2>1, <2>2 DEF WholeOK, BlobOK
    <3> QED
      BY <2>1, <2>2, <3>1, <3>2
  <2>3. CASE file[s].blob = NoFile
    <3> DEFINE f == file[s].part
    <3>1. ASSUME NEW n \in 0..Size, f # NoFile, n <= f.synced PROVE Holds(f.data, n)
      <4>1. f \in File /\ f.synced <= Len(f.data)
        BY <2>1, <3>1, PathType DEF FilesOK, Path
      <4>2. f.synced \in Nat /\ Len(f.data) \in Nat
        BY <4>1, FileType
      <4>3. \A k \in 1..Len(f.data) : f.data[k] = k
        BY <2>1, <3>1 DEF PromiseOK, PartOK
      <4> QED
        BY <3>1, <4>1, <4>2, <4>3, Constants DEF Holds
    <3>2. answered[s] > 0 => f # NoFile /\ answered[s] <= f.synced
      BY <2>1, <2>3 DEF AnsweredOK
    <3>3. phone[s].at > 0 => f # NoFile /\ (f.cut \/ phone[s].at <= f.synced)
      BY <2>1, <2>3 DEF PromiseOK, KeptOK
    <3> QED
      BY <2>1, <3>1, <3>2, <3>3
  <2> QED
    BY <2>2, <2>3
<1>2. IInv /\ AnswersOK => PromisesKept
  BY <1>1, Zenon DEF PromisesKept
<1> QED
  BY <1>2, AlwaysAnswers, PTL

=====
