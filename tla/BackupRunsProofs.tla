-------------------------- MODULE BackupRunsProofs --------------------------
(***************************************************************************)
(* What is proved of the runs of Backup, for every library, any number of  *)
(* runs and any bounds, on top of BackupProofs: that a row a run works     *)
(* from is the row in the queue, that no photograph is fetched but of the  *)
(* albums ticked, that an outage is charged to no row, and that a row is   *)
(* wrong about the archive only where the archive lost something.          *)
(*                                                                         *)
(* The argument is one more inductive invariant, RInv.  Each action of a   *)
(* run is shown to be a RunMove, of what the run holds, and a QueueMove,   *)
(* of the one row it writes; RunStep then carries RInv over both.          *)
(***************************************************************************)
EXTENDS BackupProofs

-----------------------------------------------------------------------------
(* The invariant.                                                          *)

\* The rows a run holds.
HandledOf(x) ==
  x.todo \cup x.hashing \cup {u.row : u \in x.crew}
    \cup (IF x.pc = "check" THEN x.batch ELSE {a.row : a \in x.batch})

Engaged(x) == x.pc \notin {"idle", "over"}

\* Where a run can hold what: rows to send and to hash only while it works, or
\* once it unwound and left uploads going; never the same row twice; and only
\* rows that were due.
Shaped(x) ==
  /\ x.pc \notin {"work", "over"} =>
       x.todo = {} /\ x.hashing = {} /\ x.crew = {} /\ ~x.refused
  /\ x.pc = "over" => x.hashing = {} /\ (x.refused \/ (x.todo = {} /\ x.crew = {}))
  /\ \A r \in HandledOf(x) : r.due
  /\ \A r \in x.todo : r.state = "want"
  /\ \A u \in x.crew : u.row.state = "want" /\ u.row \notin x.todo
  /\ \A r \in x.hashing : r.state = "unknown"
  /\ \A u, v \in x.crew : u.row = v.row => u = v
  /\ x.pc = "apply" => \A a, b \in x.batch : a.row = b.row => a = b

Alone == \A m, n \in Run : Running(m) /\ Running(n) => m = n

\* No run unwound and left an upload going.
NoStray == \A n \in Run : ~run[n].refused \/ Running(n)

Queued == {q.item : q \in queue}

\* The row is the row in the queue, or has been deleted.
Current(r) == r \in queue \/ r.item \notin Queued

Fresh == NoStray => \A n \in Run : \A r \in Handled(n) : Current(r)

\* A run that has enumerated, and under which nothing was reopened, finds no
\* shared photograph to work on but those of its albums.
TickedBy(n) ==
  /\ \A r \in queue :
       r.item \in Shared /\ r.state \in Retryable => r.item \in run[n].albums
  /\ \A r \in Handled(n) : r.item \in Shared => r.item \in run[n].albums

Ticked == ~meddled =>
  \A n \in Run : Running(n) /\ run[n].pc # "enumerate" => TickedBy(n)

\* Nothing was at fault yet, and nothing changed under a digest.
Clean == left.faults = MaxFaults /\ \A i \in Library : photo[i] = 0

Spotless(r) == r.attempts = 0 /\ r.state # "failed" /\ r.md5 \in {None, 0}

SpotlessRun(x) ==
  /\ \A r \in HandledOf(x) : r.md5 \in {None, 0}
  /\ \A u \in x.crew : u.stage # "refused" /\ (u.stage # "open" => u.md5 = 0)

Unspoilt == Clean =>
  (\A r \in queue : Spotless(r)) /\ \A n \in Run : SpotlessRun(run[n])

\* What a claim may still rest on.
Vouched == held \cup purged \cup suspect

Sure(i, v, K) == v = None \/ <<i, v>> \in K

TrueRun(x, K) ==
  /\ \A u \in x.crew : u.stage = "acked" => <<u.row.item, u.md5>> \in K
  /\ x.pc = "apply" => \A a \in x.batch :
       a.answer.status = "have" => Sure(a.row.item, a.answer.asset, K)

Truth ==
  /\ \A i \in Item : mapping[i].asset # None => <<i, mapping[i].asset>> \in held
  /\ \A n \in Run : TrueRun(run[n], Vouched)
  /\ \A r \in queue : r.state = "done" => Sure(r.item, r.asset, Vouched)

RInv ==
  /\ \A n \in Run : Shaped(run[n])
  /\ Alone /\ Fresh /\ Ticked /\ Unspoilt /\ Truth
  /\ left.faults <= MaxFaults

-----------------------------------------------------------------------------
(* What a step of a run does.                                              *)

\* A row rewritten: a shared photograph is work again only if it was, or if it is
\* what the run has in hand; nothing is charged while nothing is at fault; and a
\* row is done of what the archive vouches for.
Patch(n, r, q) ==
  /\ q.item = r.item
  /\ q.item \in Shared /\ q.state \in Retryable =>
       \/ r.state \in Retryable
       \/ /\ Running(n) /\ run[n].pc # "enumerate"
          /\ \E h \in Handled(n) : h.item = q.item
  /\ Clean /\ Clean' /\ Spotless(r) => Spotless(q)
  /\ q.state = "done" =>
       (r.state = "done" /\ r.asset = q.asset) \/ Sure(q.item, q.asset, Vouched')

\* The rows of the items W are rewritten, none of which the run still has in hand.
QueueMove(n, W, hands) ==
  /\ \A q \in queue' : \E r \in queue : Patch(n, r, q)
  /\ \A r \in queue : r.item \in W \/ r \in queue' \/ r.item \notin Queued'
  /\ NoStray => \A h \in hands : h \in queue => h.item \notin W

\* A run becomes x: it does not come back, and takes rows from the queue alone.
RunMove(n, x) ==
  /\ run' = [run EXCEPT ![n] = x]
  /\ Shaped(x)
  /\ Engaged(x) => Running(n) /\ x.albums = run[n].albums
  /\ Engaged(x) /\ x.pc # "enumerate" => run[n].pc # "enumerate"
  /\ Running(n) \/ Handled(n) # {} \/ queue' = queue
  /\ ~Running(n) /\ run[n].refused => x.refused
  /\ \A h \in HandledOf(x) : h \in Handled(n) \/ (h \in queue /\ h.state \in Retryable)
  /\ Clean /\ Clean' => SpotlessRun(x)
  /\ TrueRun(x, Vouched')

\* The archive still vouches for what it vouched for.
StoreMove ==
  /\ Vouched \subseteq Vouched'
  /\ \A i \in Item : mapping'[i].asset # None => <<i, mapping'[i].asset>> \in held'
  /\ meddled' = meddled
  /\ Clean' => Clean
  /\ left'.faults <= MaxFaults

\* What Handled names.
LEMMA HandledIs ==
  \A n \in Run : Handled(n) = HandledOf(run[n]) /\ (Running(n) <=> Engaged(run[n]))
  BY DEF Handled, HandledOf, Running, Engaged

\* A run that is not going and left nothing going holds nothing.
LEMMA RestEmpty ==
  ASSUME IInv, RInv, NEW n \in Run, ~Running(n), ~run[n].refused
  PROVE  HandledOf(run[n]) = {}
<1>1. Shaped(run[n]) /\ run[n].pc \in {"idle", "over"} /\ run[n].batch = {}
  BY RunTypes DEF RInv, Running
<1>2. run[n].todo = {} /\ run[n].hashing = {} /\ run[n].crew = {}
  BY <1>1 DEF Shaped
<1> QED
  BY <1>1, <1>2 DEF HandledOf

\* A row that is current stays so unless its item is written.
LEMMA StillCurrent ==
  ASSUME NEW r, Current(r), NEW W, Queued' \subseteq Queued,
         \A q \in queue : q.item \in W \/ q \in queue' \/ q.item \notin Queued',
         r \in queue => r.item \notin W
  PROVE  Current(r)'
  BY DEF Current

\* A row in the queue, of the item of a row in hand, is that row.
LEMMA OnlyOne ==
  ASSUME IInv, RInv, NoStray, NEW n \in Run, NEW r \in Handled(n),
         NEW h \in queue, h.item = r.item
  PROVE  h = r
<1>1. Current(r)
  BY DEF RInv, Fresh
<1> QED
  BY <1>1 DEF Current, Queued, IInv, QueueOK

\* The queue left alone.
LEMMA QueueKept ==
  ASSUME queue' = queue, NEW n \in Run, NEW hands
  PROVE  QueueMove(n, {}, hands)
<1>1. \A r \in queue : Patch(n, r, r)
  BY DEF Patch
<1> QED
  BY <1>1 DEF QueueMove

\* A step of a run keeps the invariant.
LEMMA RunStep ==
  ASSUME IInv, IInv', RInv, StoreMove, NEW n \in Run, NEW x, NEW W,
         RunMove(n, x), QueueMove(n, W, HandledOf(x))
  PROVE  RInv'
<1>1. \A m \in Run : run'[m] = IF m = n THEN x ELSE run[m]
  BY DEF RunMove, IInv, Runs
<1>2. Queued' \subseteq Queued
  BY DEF QueueMove, Patch, Queued
<1>3. \A m \in Run : Shaped(run'[m])
  BY <1>1 DEF RunMove, RInv
<1>4. ASSUME NEW m \in Run, Engaged(run'[m])
      PROVE  Running(m)
  BY <1>1, <1>4, HandledIs DEF RunMove
<1>5. Alone'
  BY <1>4 DEF RInv, Alone, Running, Engaged
<1>6. Fresh'
  <2> SUFFICES ASSUME NoStray', NEW m \in Run, NEW r \in HandledOf(run'[m])
               PROVE  Current(r)'
    BY DEF Fresh, Handled, HandledOf
  <2>1. NoStray
    <3> SUFFICES ASSUME NEW k \in Run, run[k].refused, ~Running(k)
                 PROVE  FALSE
      BY DEF NoStray
    <3>1. run'[k].refused
      BY <1>1 DEF RunMove
    <3>2. ~Engaged(run'[k])
      BY <1>4
    <3> QED
      BY <3>1, <3>2 DEF NoStray, Running, Engaged
  <2>0. CASE queue' = queue
    <3>1. r \in Handled(m) \/ r \in queue
      BY <1>1, HandledIs DEF RunMove
    <3> QED
      BY <2>0, <2>1, <3>1 DEF RInv, Fresh, Current, Queued
  <2>2. CASE Running(n)
    <3>1. m = n
      <4>1. m # n => HandledOf(run[m]) = {}
        BY <2>1, <2>2, RestEmpty DEF NoStray, RInv, Alone
      <4> QED
        BY <1>1, <4>1
    <3>2. r \in HandledOf(x)
      BY <1>1, <3>1
    <3>3. Current(r)
      <4>1. r \in Handled(n) \/ r \in queue
        BY <3>2 DEF RunMove
      <4> QED
        BY <2>1, <4>1 DEF RInv, Fresh, Current
    <3> QED
      BY <1>2, <2>1, <3>2, <3>3, StillCurrent DEF QueueMove
  <2> QED
    BY <2>0, <2>1, <2>2, RestEmpty, HandledIs DEF RunMove, NoStray
<1>7. Ticked'
  <2> SUFFICES ASSUME ~meddled, NEW m \in Run, Engaged(run'[m]), run'[m].pc # "enumerate"
               PROVE  TickedBy(m)'
    BY DEF Ticked, Running, Engaged, StoreMove
  <2>1. Running(m) /\ run[m].pc # "enumerate" /\ run'[m].albums = run[m].albums
    BY <1>1, <1>4 DEF RunMove
  <2>2. TickedBy(m)
    BY <2>1 DEF RInv, Ticked
  <2>3. ASSUME NEW q \in queue', q.item \in Shared, q.state \in Retryable
        PROVE  q.item \in run[m].albums
    <3>1. PICK r \in queue : Patch(n, r, q)
      BY DEF QueueMove
    <3>2. CASE r.state \in Retryable
      BY <2>2, <2>3, <3>1, <3>2 DEF Patch, TickedBy
    <3>3. CASE Running(n) /\ \E h \in Handled(n) : h.item = q.item
      <4>1. m = n
        BY <2>1, <3>3 DEF RInv, Alone
      <4> QED
        BY <2>2, <2>3, <3>3, <4>1 DEF TickedBy
    <3> QED
      BY <2>3, <3>1, <3>2, <3>3 DEF Patch
  <2>4. ASSUME NEW r \in HandledOf(run'[m]), r.item \in Shared
        PROVE  r.item \in run[m].albums
    <3>1. r \in Handled(m) \/ (r \in queue /\ r.state \in Retryable)
      BY <1>1, <2>4, HandledIs DEF RunMove
    <3> QED
      BY <2>2, <2>4, <3>1 DEF TickedBy
  <2> QED
    BY <2>1, <2>3, <2>4 DEF TickedBy, Handled, HandledOf
<1>8. Unspoilt'
  <2> SUFFICES ASSUME Clean'
               PROVE  /\ \A q \in queue' : Spotless(q)
                      /\ \A m \in Run : SpotlessRun(run'[m])
    BY DEF Unspoilt, Spotless, SpotlessRun, HandledOf
  <2>1. Clean /\ (\A r \in queue : Spotless(r)) /\ \A m \in Run : SpotlessRun(run[m])
    BY DEF StoreMove, RInv, Unspoilt
  <2>2. \A q \in queue' : Spotless(q)
    BY <2>1 DEF QueueMove, Patch
  <2> QED
    BY <1>1, <2>1, <2>2 DEF RunMove
<1>9. Truth'
  <2>1. \A m \in Run : TrueRun(run'[m], Vouched')
    BY <1>1 DEF RunMove, RInv, Truth, TrueRun, StoreMove, Sure
  <2>2. \A q \in queue' : q.state = "done" => Sure(q.item, q.asset, Vouched')
    <3>1. \A r \in queue : r.state = "done" => Sure(r.item, r.asset, Vouched)
      BY DEF RInv, Truth
    <3> QED
      BY <3>1 DEF QueueMove, Patch, StoreMove, Sure
  <2> QED
    BY <2>1, <2>2 DEF Truth, StoreMove, TrueRun, Sure
<1> QED
  BY <1>3, <1>5, <1>6, <1>7, <1>8, <1>9 DEF RInv, Shaped, HandledOf, StoreMove

-----------------------------------------------------------------------------
(* The steps of a run that write no row.                                   *)

\* A run with nothing in hand.
LEMMA EmptyHands ==
  ASSUME NEW x, x.todo = {}, x.hashing = {}, x.crew = {}, x.batch = {}, ~x.refused
  PROVE  /\ Shaped(x) /\ HandledOf(x) = {} /\ SpotlessRun(x)
         /\ \A K : TrueRun(x, K)
<1>1. HandledOf(x) = {}
  BY DEF HandledOf
<1> QED
  BY <1>1 DEF Shaped, SpotlessRun, TrueRun

\* A run that is over with nothing left going.
LEMMA OverHands ==
  /\ Shaped(Over) /\ HandledOf(Over) = {} /\ SpotlessRun(Over) /\ ~Engaged(Over)
  /\ ~Over.refused /\ \A K : TrueRun(Over, K)
<1>1. /\ Over.pc = "over" /\ Over.todo = {} /\ Over.hashing = {} /\ Over.crew = {}
      /\ Over.batch = {} /\ Over.refused = FALSE
  BY DEF Over, NoRun
<1> QED
  BY <1>1, EmptyHands DEF Engaged

\* A run that let go of some of what it held, where it was.
LEMMA FewerHands ==
  ASSUME NEW x, NEW y, Shaped(x), y.pc = x.pc,
         y.todo \subseteq x.todo, y.hashing \subseteq x.hashing,
         y.crew \subseteq x.crew, y.batch \subseteq x.batch,
         y.refused = x.refused \/ (y.refused /\ x.pc \in {"work", "over"})
  PROVE  /\ Shaped(y) /\ HandledOf(y) \subseteq HandledOf(x)
         /\ SpotlessRun(x) => SpotlessRun(y)
         /\ \A K : TrueRun(x, K) => TrueRun(y, K)
<1>1. HandledOf(y) \subseteq HandledOf(x)
  BY DEF HandledOf
<1>2. Shaped(y)
  BY <1>1 DEF Shaped
<1> QED
  BY <1>1, <1>2 DEF SpotlessRun, TrueRun

\* What the invariant says of one run.
LEMMA RunFacts ==
  ASSUME IInv, RInv, NEW n \in Run
  PROVE  /\ Shaped(run[n]) /\ TrueRun(run[n], Vouched)
         /\ Clean => SpotlessRun(run[n])
         /\ Handled(n) = HandledOf(run[n]) /\ (Running(n) <=> Engaged(run[n]))
         /\ run[n].pc \notin {"work", "over"} =>
              /\ run[n].todo = {} /\ run[n].hashing = {} /\ run[n].crew = {}
              /\ ~run[n].refused
         /\ run[n].pc = "over" => run[n].hashing = {}
  BY HandledIs DEF RInv, Truth, Unspoilt, Shaped

\* The archive left alone vouches for what it did.
LEMMA StoreKept ==
  ASSUME IInv, RInv, store' = store, seen' = seen, photo' = photo,
         left' = left \/ \E k \in {"outages", "faults", "wishes", "upheavals"} : Spend(k)
  PROVE  StoreMove /\ Vouched' = Vouched
<1>1. Vouched' = Vouched /\ meddled' = meddled /\ mapping' = mapping /\ held' = held
  BY DEF store, seen, Vouched
<1>2. left'.faults <= left.faults /\ left.faults \in Nat /\ left'.faults \in Nat
  <2>1. left \in Bounds
    BY DEF IInv, Plain
  <2> QED
    BY <2>1 DEF Spend, Bounds
<1>3. (Clean' => Clean) /\ left'.faults <= MaxFaults
  <2>1. left.faults <= MaxFaults /\ MaxFaults \in Nat
    BY BackupAssumption DEF RInv
  <2> QED
    BY <1>2, <2>1 DEF Clean
<1> QED
  BY <1>1, <1>3 DEF StoreMove, RInv, Truth

\* A step of a run that lets go of something, and writes nothing.
LEMMA LetsGo ==
  ASSUME IInv, IInv', RInv, UNCHANGED <<queue, photo, store, seen>>,
         left' = left \/ \E k \in {"outages", "faults", "wishes", "upheavals"} : Spend(k),
         NEW n \in Run, NEW x, run' = [run EXCEPT ![n] = x],
         Shaped(x), HandledOf(x) \subseteq HandledOf(run[n]),
         SpotlessRun(run[n]) => SpotlessRun(x),
         TrueRun(run[n], Vouched) => TrueRun(x, Vouched),
         Engaged(x) => Running(n) /\ x.albums = run[n].albums,
         Engaged(x) /\ x.pc # "enumerate" => run[n].pc # "enumerate",
         run[n].refused => Running(n) \/ x.refused
  PROVE  RInv'
<1>1. StoreMove /\ Vouched' = Vouched
  BY StoreKept
<1>2. RunMove(n, x)
  <2>1. /\ TrueRun(run[n], Vouched) /\ (Clean => SpotlessRun(run[n]))
        /\ Handled(n) = HandledOf(run[n])
    BY RunFacts
  <2>2. TrueRun(x, Vouched') /\ (Clean => SpotlessRun(x))
    BY <1>1, <2>1, Zenon
  <2> QED
    BY <2>1, <2>2 DEF RunMove
<1> QED
  BY <1>1, <1>2, QueueKept, RunStep

\* A run that ends with nothing left going.
LEMMA Ends ==
  ASSUME IInv, IInv', RInv, UNCHANGED <<queue, photo, store, seen, left>>,
         NEW n \in Run, Running(n), run' = [run EXCEPT ![n] = Over]
  PROVE  RInv'
  BY LetsGo, OverHands

\* Stop, Stopped, Lapse, Idle, Rest, Sleep and Wake: nothing changes hands.
LEMMA IdleKeeps ==
  ASSUME IInv, IInv', RInv, NEW n \in Run,
         Stop(n) \/ Stopped(n) \/ Lapse(n) \/ Idle(n) \/ Rest(n) \/ Sleep(n) \/ Wake(n)
  PROVE  RInv'
<1>1. run[n] \in RunState /\ run \in [Run -> RunState] /\ Shaped(run[n])
  BY RunTypes, RunFacts DEF IInv, Runs
<1>2. CASE Stop(n)
  <2> DEFINE x == [run[n] EXCEPT !.stop = TRUE]
  <2>1. run' = [run EXCEPT ![n] = x]
    BY <1>1, <1>2 DEF Stop
  <2>2. /\ x.pc = run[n].pc /\ x.todo = run[n].todo /\ x.hashing = run[n].hashing
        /\ x.crew = run[n].crew /\ x.batch = run[n].batch /\ x.refused = run[n].refused
        /\ x.albums = run[n].albums
    BY <1>1 DEF RunState
  <2> HIDE DEF x
  <2>3. Running(n) /\ (Engaged(x) => Running(n))
    BY <1>2 DEF Stop
  <2>4. left' = left \/ \E k \in {"outages", "faults", "wishes", "upheavals"} : Spend(k)
    BY <1>2 DEF Stop
  <2>5. /\ Shaped(x) /\ HandledOf(x) \subseteq HandledOf(run[n])
        /\ SpotlessRun(run[n]) => SpotlessRun(x)
        /\ TrueRun(run[n], Vouched) => TrueRun(x, Vouched)
    BY <1>1, <2>2, FewerHands
  <2> QED
    BY <1>2, <2>1, <2>2, <2>3, <2>4, <2>5, LetsGo DEF Stop
<1>3. CASE Lapse(n)
  <2> DEFINE x == [run[n] EXCEPT !.open = FALSE]
  <2>1. run' = [run EXCEPT ![n] = x]
    BY <1>1, <1>3 DEF Lapse
  <2>2. /\ x.pc = run[n].pc /\ x.todo = run[n].todo /\ x.hashing = run[n].hashing
        /\ x.crew = run[n].crew /\ x.batch = run[n].batch /\ x.refused = run[n].refused
        /\ x.albums = run[n].albums
    BY <1>1 DEF RunState
  <2> HIDE DEF x
  <2>5. /\ Shaped(x) /\ HandledOf(x) \subseteq HandledOf(run[n])
        /\ SpotlessRun(run[n]) => SpotlessRun(x)
        /\ TrueRun(run[n], Vouched) => TrueRun(x, Vouched)
    BY <1>1, <2>2, FewerHands
  <2>6. Engaged(x) => Running(n)
    BY <2>2 DEF Engaged, Running
  <2> QED
    BY <1>3, <2>1, <2>2, <2>5, <2>6, LetsGo DEF Lapse
<1>4. CASE Stopped(n) \/ Rest(n)
  BY <1>4, Ends DEF Stopped, Rest, End, Running
<1>5. CASE Idle(n) \/ Sleep(n) \/ Wake(n)
  <2>1. PICK pc \in {"rest", "asleep", "look"} :
          run' = [run EXCEPT ![n] = [run[n] EXCEPT !.pc = pc]]
    BY <1>1, <1>5 DEF Idle, Sleep, Wake
  <2>2. Running(n) /\ run[n].pc \notin {"work", "over", "enumerate", "check", "apply"}
    BY <1>5 DEF Idle, Sleep, Wake, Looking, Running
  <2> DEFINE x == [run[n] EXCEPT !.pc = pc]
  <2>3. /\ x.pc = pc /\ x.todo = {} /\ x.hashing = {} /\ x.crew = {} /\ x.batch = {}
        /\ ~x.refused /\ x.albums = run[n].albums /\ ~run[n].refused
    <3>1. /\ run[n].todo = {} /\ run[n].hashing = {} /\ run[n].crew = {}
          /\ run[n].batch = {} /\ ~run[n].refused
      BY <2>2, RunFacts, RunTypes
    <3> QED
      BY <1>1, <3>1 DEF RunState
  <2>4. run' = [run EXCEPT ![n] = x]
    BY <2>1
  <2> HIDE DEF x
  <2> QED
    BY <1>5, <2>2, <2>3, <2>4, EmptyHands, LetsGo DEF Idle, Sleep, Wake
<1> QED
  BY <1>2, <1>3, <1>4, <1>5

\* A step of a run that looked, and took rows that were due.
LEMMA Takes ==
  ASSUME IInv, IInv', RInv, UNCHANGED <<queue, photo, store, seen, left>>,
         NEW n \in Run, run[n].pc = "look", NEW x, run' = [run EXCEPT ![n] = x],
         Shaped(x), x.albums = run[n].albums, \A K : TrueRun(x, K),
         \A h \in HandledOf(x) : h \in queue /\ h.state \in Retryable,
         \A u \in x.crew : u.stage = "open"
  PROVE  RInv'
<1>1. StoreMove /\ Vouched' = Vouched
  BY StoreKept
<1>2. Running(n) /\ ~run[n].refused
  BY RunFacts DEF Running
<1>3. Clean => SpotlessRun(x)
  <2>1. Clean => \A r \in queue : r.md5 \in {None, 0}
    BY DEF RInv, Unspoilt, Spotless
  <2> QED
    BY <2>1 DEF SpotlessRun
<1>4. RunMove(n, x)
  BY <1>1, <1>2, <1>3 DEF RunMove
<1> QED
  BY <1>1, <1>4, QueueKept, RunStep

\* CheckRound: the batch is of rows due.
LEMMA CheckRoundKeeps ==
  ASSUME IInv, IInv', RInv, NEW n \in Run, NEW digest \in BOOLEAN, CheckRound(n, digest)
  PROVE  RInv'
<1>1. PICK B \in UpTo(CheckBatch, Due(IF digest THEN "hashed" ELSE "pending")) :
        run' = [run EXCEPT ![n].pc = "check", ![n].digest = digest, ![n].batch = B]
  BY DEF CheckRound
<1>2. \A h \in B : h \in queue /\ h.state \in Retryable /\ h.due
  <2>1. B \subseteq Due(IF digest THEN "hashed" ELSE "pending")
    BY <1>1, UpToIn
  <2> QED
    BY <2>1 DEF Due, Retryable
<1> DEFINE x == [run[n] EXCEPT !.pc = "check", !.digest = digest, !.batch = B]
<1>3. run' = [run EXCEPT ![n] = x]
  BY <1>1 DEF IInv, Runs
<1>4. run[n].pc = "look" /\ run[n] \in RunState
  BY RunTypes DEF CheckRound, Looking
<1>5. run[n].todo = {} /\ run[n].hashing = {} /\ run[n].crew = {} /\ ~run[n].refused
  BY <1>4, RunFacts
<1>6. /\ x.pc = "check" /\ x.todo = {} /\ x.hashing = {} /\ x.crew = {} /\ ~x.refused
      /\ x.batch = B /\ x.albums = run[n].albums
  BY <1>4, <1>5 DEF RunState
<1> HIDE DEF x
<1>7. HandledOf(x) = B
  BY <1>6 DEF HandledOf
<1>8. Shaped(x) /\ \A K : TrueRun(x, K)
  BY <1>2, <1>6, <1>7 DEF Shaped, TrueRun
<1> QED
  BY <1>2, <1>3, <1>4, <1>6, <1>7, <1>8, Takes DEF CheckRound

\* Work: what is hashed, sent and kept for later are rows due, each once.
LEMMA WorkKeeps ==
  ASSUME IInv, IInv', RInv, NEW n \in Run, Work(n)
  PROVE  RInv'
<1>1. PICK W \in UpTo(4 * UploadConcurrency, Due("want")),
           H \in UpTo(HashBatch, Due("unknown")) :
        \E first \in UpTo(UploadConcurrency, W) :
          run' = [run EXCEPT ![n].pc = "work", ![n].hashing = H, ![n].todo = W \ first,
                             ![n].crew = {Taken(r) : r \in first}]
  BY DEF Work
<1>2. PICK first \in UpTo(UploadConcurrency, W) :
        run' = [run EXCEPT ![n].pc = "work", ![n].hashing = H, ![n].todo = W \ first,
                           ![n].crew = {Taken(r) : r \in first}]
  BY <1>1
<1>3. W \subseteq Due("want") /\ H \subseteq Due("unknown") /\ first \subseteq W
  BY <1>1, <1>2, UpToIn
<1> DEFINE crew == {Taken(r) : r \in first}
           x == [run[n] EXCEPT !.pc = "work", !.hashing = H, !.todo = W \ first, !.crew = crew]
<1>4. run' = [run EXCEPT ![n] = x]
  BY <1>2 DEF IInv, Runs
<1>5. /\ \A u \in crew : u.stage = "open" /\ u.row \in first /\ u = Taken(u.row)
      /\ {u.row : u \in crew} = first
  <2>1. \A r \in first : Taken(r).row = r /\ Taken(r).stage = "open"
    BY DEF Taken
  <2>2. \A u \in crew : u.stage = "open" /\ u.row \in first /\ u = Taken(u.row)
    BY <2>1
  <2>3. \A r \in first : \E u \in crew : u.row = r
    BY <2>1
  <2> QED
    BY <2>2, <2>3
<1> HIDE DEF crew
<1>6. run[n].pc = "look" /\ run[n] \in RunState /\ run[n].batch = {}
  BY RunTypes DEF Work, Looking
<1>7. ~run[n].refused
  BY <1>6, RunFacts
<1>8. /\ x.pc = "work" /\ x.todo = W \ first /\ x.hashing = H /\ x.crew = crew
      /\ ~x.refused /\ x.batch = {} /\ x.albums = run[n].albums
  BY <1>6, <1>7 DEF RunState
<1> HIDE DEF x
<1>9. HandledOf(x) = W \cup H
  BY <1>3, <1>5, <1>8 DEF HandledOf
<1>10. \A h \in W \cup H : h \in queue /\ h.state \in Retryable /\ h.due
  BY <1>3 DEF Due, Retryable
<1>11. Shaped(x)
  <2>1. \A r \in W : r.state = "want"
    BY <1>3 DEF Due
  <2>2. \A r \in H : r.state = "unknown"
    BY <1>3 DEF Due
  <2> QED
    BY <1>3, <1>5, <1>8, <1>9, <1>10, <2>1, <2>2 DEF Shaped
<1>12. \A K : TrueRun(x, K)
  BY <1>5, <1>8 DEF TrueRun
<1> QED
  BY <1>4, <1>5, <1>6, <1>8, <1>9, <1>10, <1>11, <1>12, Takes DEF Work

\* HashStops: the rows not hashed stay as they are.
LEMMA HashStopsKeeps ==
  ASSUME IInv, IInv', RInv, NEW n \in Run, HashStops(n)
  PROVE  RInv'
<1> DEFINE x == [run[n] EXCEPT !.hashing = {}]
<1>1. run' = [run EXCEPT ![n] = x]
  BY DEF HashStops, IInv, Runs
<1>2. run[n] \in RunState
  BY RunTypes
<1>3. /\ x.pc = run[n].pc /\ x.todo = run[n].todo /\ x.hashing = {}
      /\ x.crew = run[n].crew /\ x.batch = run[n].batch /\ x.refused = run[n].refused
      /\ x.albums = run[n].albums
  BY <1>2 DEF RunState
<1> HIDE DEF x
<1>4. /\ Shaped(x) /\ HandledOf(x) \subseteq HandledOf(run[n])
      /\ SpotlessRun(run[n]) => SpotlessRun(x)
      /\ TrueRun(run[n], Vouched) => TrueRun(x, Vouched)
  BY <1>3, FewerHands, RunFacts
<1>5. Engaged(x) => Running(n)
  BY <1>3 DEF Engaged, Running
<1> QED
  BY <1>1, <1>3, <1>4, <1>5, LetsGo DEF HashStops

\* Denied: the worker is gone and the run is to unwind.
LEMMA DeniedKeeps ==
  ASSUME IInv, IInv', RInv, NEW n \in Run, NEW u \in run[n].crew, Denied(n, u)
  PROVE  RInv'
<1> DEFINE x == [run[n] EXCEPT !.crew = @ \ {u}, !.refused = TRUE]
<1>1. run' = [run EXCEPT ![n] = x]
  BY DEF Denied, IInv, Runs
<1>2. run[n] \in RunState
  BY RunTypes
<1>3. /\ x.pc = run[n].pc /\ x.todo = run[n].todo /\ x.hashing = run[n].hashing
      /\ x.crew = run[n].crew \ {u} /\ x.batch = run[n].batch /\ x.refused
      /\ x.albums = run[n].albums
  BY <1>2 DEF RunState
<1> HIDE DEF x
<1>0. run[n].pc \in {"work", "over"}
  BY RunFacts
<1>4. /\ Shaped(x) /\ HandledOf(x) \subseteq HandledOf(run[n])
      /\ SpotlessRun(run[n]) => SpotlessRun(x)
      /\ TrueRun(run[n], Vouched) => TrueRun(x, Vouched)
  BY <1>0, <1>3, FewerHands, RunFacts
<1>5. Engaged(x) => Running(n)
  BY <1>3 DEF Engaged, Running
<1> QED
  BY <1>1, <1>3, <1>4, <1>5, LetsGo DEF Denied

\* A run that unwinds: nothing was left to hash, and the uploads still going keep
\* the rows they have.
LEMMA UnwindKeeps ==
  ASSUME IInv, IInv', RInv, NEW n \in Run, Unwind(n, run[n]), Running(n),
         run[n].hashing = {}, run[n].crew = {} \/ (run[n].refused /\ run[n].batch = {}),
         UNCHANGED <<queue, photo, ticked, store, seen, left>>
  PROVE  RInv'
<1>1. CASE run[n].crew = {}
  BY <1>1, Ends DEF Unwind
<1>2. CASE run[n].crew # {}
  <2> DEFINE x == [run[n] EXCEPT !.pc = "over", !.batch = {}]
  <2>1. run' = [run EXCEPT ![n] = x]
    BY <1>2 DEF Unwind
  <2>2. run[n] \in RunState
    BY RunTypes
  <2>3. /\ x.pc = "over" /\ x.todo = run[n].todo /\ x.hashing = {}
        /\ x.crew = run[n].crew /\ x.batch = {} /\ x.refused = run[n].refused
    BY <2>2 DEF RunState
  <2> HIDE DEF x
  <2>4. HandledOf(x) \subseteq HandledOf(run[n])
    BY <2>3 DEF HandledOf
  <2>5. Shaped(x)
    BY <1>2, <2>3, <2>4, RunFacts DEF Shaped
  <2>6. /\ SpotlessRun(run[n]) => SpotlessRun(x)
        /\ TrueRun(run[n], Vouched) => TrueRun(x, Vouched)
    BY <2>3, <2>4 DEF SpotlessRun, TrueRun
  <2> QED
    BY <2>1, <2>3, <2>4, <2>5, <2>6, LetsGo DEF Engaged
<1> QED
  BY <1>1, <1>2

\* EndWork: the run looks again, or unwinds.
LEMMA EndWorkKeeps ==
  ASSUME IInv, IInv', RInv, NEW n \in Run, EndWork(n)
  PROVE  RInv'
<1>0. run[n].pc = "work" /\ Running(n) /\ run[n].hashing = {} /\ run[n].batch = {}
      /\ run[n] \in RunState
  BY RunTypes DEF EndWork, Running
<1>1. CASE run[n].refused
  BY <1>0, <1>1, UnwindKeeps DEF EndWork
<1>2. CASE ~run[n].refused
  <2> DEFINE x == [run[n] EXCEPT !.pc = "look", !.todo = {}]
  <2>1. run' = [run EXCEPT ![n] = x] /\ run[n].crew = {}
    BY <1>2 DEF EndWork, IInv, Runs
  <2>2. /\ x.pc = "look" /\ x.todo = {} /\ x.hashing = {} /\ x.crew = {} /\ x.batch = {}
        /\ ~x.refused /\ x.albums = run[n].albums
    BY <1>0, <1>2, <2>1 DEF RunState
  <2> HIDE DEF x
  <2> QED
    BY <1>0, <1>2, <2>1, <2>2, EmptyHands, LetsGo DEF EndWork
<1> QED
  BY <1>1, <1>2

\* CheckRefused: the run unwinds, with nothing left going.
LEMMA CheckRefusedKeeps ==
  ASSUME IInv, IInv', RInv, NEW n \in Run, CheckRefused(n)
  PROVE  RInv'
<1>1. run[n].pc = "check" /\ Running(n) /\ run[n].hashing = {} /\ run[n].crew = {}
  BY RunFacts DEF CheckRefused, Running
<1> QED
  BY <1>1, UnwindKeeps DEF CheckRefused

-----------------------------------------------------------------------------
(* sync/check.                                                             *)

\* What a row that matched by content is mapped to is held, and no mapping else is
\* new.
LEMMA LearnKept ==
  ASSUME IInv, RInv, NEW rows \in SUBSET Live, NEW digest, Learn(rows, digest)
  PROVE  \A i \in Item : mapping'[i].asset # None => <<i, mapping'[i].asset>> \in held
<1> SUFFICES ASSUME NEW i \in Item, mapping'[i].asset # None
             PROVE  <<i, mapping'[i].asset>> \in held
  OBVIOUS
<1>1. CASE \E r \in rows : r.item = i /\ Matched(r, digest)
  <2> DEFINE r == CHOOSE r \in rows : r.item = i /\ Matched(r, digest)
  <2>1. r \in rows /\ r.item = i /\ Matched(r, digest)
    BY <1>1
  <2>2. mapping'[i] = [asset |-> r.md5, modified |-> r.modified]
    BY <1>1 DEF Learn
  <2> HIDE DEF r
  <2> QED
    BY <2>1, <2>2 DEF Matched
<1>2. CASE ~\E r \in rows : r.item = i /\ Matched(r, digest)
  <2>1. mapping'[i] = mapping[i]
    BY <1>2 DEF Learn
  <2> QED
    BY <2>1 DEF RInv, Truth
<1> QED
  BY <1>1, <1>2

\* What the archive says it has, it has or has purged.
LEMMA AnswerSure ==
  ASSUME IInv, RInv, NEW b \in Live, NEW digest
  PROVE  Answer(b, digest).status = "have" =>
           Sure(b.item, Answer(b, digest).asset, Vouched)
<1>0. b.item \in Item
  BY LiveTypes
<1>1. CASE Known(b)
  <2>1. Answer(b, digest) = [status |-> "have", asset |-> mapping[b.item].asset]
    BY <1>1 DEF Answer, Known, Matched
  <2> QED
    BY <1>0, <2>1 DEF Sure, Vouched, RInv, Truth
<1>2. CASE ~Known(b) /\ Matched(b, digest)
  <2>1. Answer(b, digest) = [status |-> "have", asset |-> b.md5]
    BY <1>2 DEF Answer, Matched
  <2>2. Answer(b, digest).asset = b.md5
    BY <2>1
  <2>3. <<b.item, b.md5>> \in held
    BY <1>2, Zenon DEF Matched
  <2> QED
    BY <2>2, <2>3 DEF Sure, Vouched
<1>3. CASE ~Known(b) /\ ~Matched(b, digest)
  <2>1. Answer(b, digest).asset = None
    BY <1>3 DEF Answer
  <2> QED
    BY <2>1 DEF Sure
<1> QED
  BY <1>1, <1>2, <1>3

\* AnswerCheck: the rows of the batch are the rows of the answers.
LEMMA AnswerCheckKeeps ==
  ASSUME IInv, IInv', RInv, NEW n \in Run, AnswerCheck(n)
  PROVE  RInv'
<1> DEFINE B == run[n].batch
           digest == run[n].digest
           A == {[row |-> b, answer |-> Answer(b, digest)] : b \in B}
           x == [run[n] EXCEPT !.pc = "apply", !.batch = A]
           y == [run[n] EXCEPT !.pc = "look", !.batch = {}, !.open = TRUE]
<1>1. /\ run[n].pc = "check" /\ run[n] \in RunState /\ B \in SUBSET Live /\ Running(n)
      /\ Learn(B, digest)
  BY RunTypes DEF AnswerCheck, Good, Running
<1>2. /\ run[n].todo = {} /\ run[n].hashing = {} /\ run[n].crew = {} /\ ~run[n].refused
      /\ Shaped(run[n]) /\ (Clean => SpotlessRun(run[n])) /\ HandledOf(run[n]) = Handled(n)
  BY <1>1, RunFacts
<1>3. HandledOf(run[n]) = B
  BY <1>1, <1>2 DEF HandledOf
<1>4. StoreMove /\ Vouched' = Vouched
  <2>1. UNCHANGED <<photo, held, purged, suspect, meddled>>
    BY DEF AnswerCheck, seen
  <2>2. (Clean' => Clean) /\ left'.faults <= MaxFaults
    <3>1. left' = left \/ Spend("outages")
      BY DEF AnswerCheck
    <3>2. left'.faults = left.faults
      BY <3>1 DEF Spend, Bounds, IInv, Plain
    <3> QED
      BY <2>1, <3>2 DEF Clean, RInv
  <2> QED
    BY <1>1, <2>1, <2>2, LearnKept DEF StoreMove, Vouched
<1>5. CASE run' = [run EXCEPT ![n].pc = "apply", ![n].batch = A]
  <2>1. run' = [run EXCEPT ![n] = x]
    BY <1>5 DEF IInv, Runs
  <2>2. /\ x.pc = "apply" /\ x.todo = {} /\ x.hashing = {} /\ x.crew = {} /\ ~x.refused
        /\ x.batch = A /\ x.albums = run[n].albums
    BY <1>1, <1>2 DEF RunState
  <2>3. \A a \in A : a.row \in B /\ a = [row |-> a.row, answer |-> Answer(a.row, digest)]
    OBVIOUS
  <2>4. \A a \in A : a.answer.status = "have" => Sure(a.row.item, a.answer.asset, Vouched)
    BY <1>1, <2>3, AnswerSure
  <2> HIDE DEF A, x
  <2>5. HandledOf(x) \subseteq B
    BY <2>2, <2>3 DEF HandledOf
  <2>6. Shaped(x)
    BY <1>2, <1>3, <2>2, <2>3, <2>5 DEF Shaped
  <2>7. Clean => SpotlessRun(x)
    BY <1>2, <1>3, <2>2, <2>5 DEF SpotlessRun
  <2>8. TrueRun(x, Vouched)
    BY <2>2, <2>4 DEF TrueRun
  <2>9. RunMove(n, x)
    BY <1>1, <1>2, <1>3, <1>4, <2>1, <2>2, <2>5, <2>6, <2>7, <2>8 DEF RunMove
  <2> QED
    BY <1>4, <2>9, QueueKept, RunStep DEF AnswerCheck
<1>6. CASE run' = [run EXCEPT ![n].pc = "look", ![n].batch = {}, ![n].open = TRUE]
  <2>1. run' = [run EXCEPT ![n] = y]
    BY <1>6 DEF IInv, Runs
  <2>2. /\ y.pc = "look" /\ y.todo = {} /\ y.hashing = {} /\ y.crew = {} /\ ~y.refused
        /\ y.batch = {} /\ y.albums = run[n].albums
    BY <1>1, <1>2 DEF RunState
  <2> HIDE DEF y
  <2>9. RunMove(n, y)
    BY <1>1, <2>1, <2>2, EmptyHands DEF RunMove
  <2> QED
    BY <1>4, <2>9, QueueKept, RunStep DEF AnswerCheck
<1> QED
  BY <1>5, <1>6 DEF AnswerCheck

-----------------------------------------------------------------------------
(* The steps of a run that write a row.                                    *)

\* A queue written row by row, each as a Patch, and only rows of the items W.
LEMMA PatchMove ==
  ASSUME NEW n \in Run, NEW W, NEW hands, NEW f, queue' = {f[r] : r \in queue},
         \A r \in queue : f[r] = r \/ (r.item \in W /\ Patch(n, r, f[r])),
         NoStray => \A h \in hands : h \in queue => h.item \notin W
  PROVE  QueueMove(n, W, hands)
<1>1. \A r \in queue : Patch(n, r, r)
  BY DEF Patch
<1>2. \A q \in queue' : \E r \in queue : Patch(n, r, q)
  BY <1>1
<1>3. \A r \in queue : r.item \in W \/ r \in queue'
  OBVIOUS
<1> QED
  BY <1>2, <1>3 DEF QueueMove

\* The rows a run still has in hand are not those of the item it wrote.
LEMMA NotInHand ==
  ASSUME IInv, RInv, NEW n \in Run, NEW r \in Handled(n), NEW hands,
         \A h \in hands : h \in Handled(n) /\ h # r
  PROVE  NoStray => \A h \in hands : h \in queue => h.item \notin {r.item}
  BY OnlyOne

\* Penalize: a row is charged, and stays as much work as it was or is given up.
LEMMA PenalizeMove ==
  ASSUME IInv, RInv, NEW n \in Run, NEW b \in Live, b \in Handled(n), NEW hands,
         \A h \in hands : h \in Handled(n) /\ h # b,
         Penalize(b), ~(Clean /\ Clean')
  PROVE  QueueMove(n, {b.item}, hands)
<1> DEFINE f == [r \in queue |-> IF r.item = b.item THEN Penalized(r, b.attempts + 1) ELSE r]
<1>1. queue' = {f[r] : r \in queue}
  BY DEF Penalize, Update
<1>2. ASSUME NEW r \in queue
      PROVE  f[r] = r \/ (r.item \in {b.item} /\ Patch(n, r, f[r]))
  <2>1. CASE r.item # b.item
    BY <2>1
  <2>2. CASE r.item = b.item
    <3>1. PICK q \in Row : /\ q = Penalized(r, b.attempts + 1)
                           /\ q.item = r.item /\ q.asset = r.asset
                           /\ q.state \in {r.state, "failed"}
      BY PenalizedTypes, LiveTypes DEF IInv, QueueOK
    <3>2. Patch(n, r, q)
      BY <3>1 DEF Patch, Retryable
    <3>3. f[r] = q
      BY <2>2, <3>1
    <3> QED
      BY <2>2, <3>2, <3>3
  <2> QED
    BY <2>1, <2>2
<1> HIDE DEF f
<1> QED
  BY <1>1, <1>2, PatchMove, NotInHand

\* A row settled owes no attempt.
LEMMA SettledZero ==
  ASSUME NEW r \in Row, NEW s \in State
  PROVE  Settled(r, s).attempts = 0
  BY DEF Settled, Row

\* A row settled short of done, with a digest or without, that the run has in hand
\* or that is of the camera roll.
LEMMA SettleMd5Move ==
  ASSUME IInv, RInv, NEW n \in Run, NEW b \in Handled(n), NEW hands,
         \A h \in hands : h \in Handled(n) /\ h # b,
         NEW v \in Version \cup {None}, Clean => v \in {None, 0},
         NEW s \in State \ {"done", "failed"},
         b.item \notin Shared \/ (Running(n) /\ run[n].pc # "enumerate"),
         Update(b.item, LAMBDA r : [Settled(r, s) EXCEPT !.md5 = v])
  PROVE  QueueMove(n, {b.item}, hands)
<1> DEFINE f == [r \in queue |-> IF r.item = b.item
                   THEN [Settled(r, s) EXCEPT !.md5 = v] ELSE r]
<1>1. queue' = {f[r] : r \in queue}
  BY DEF Update
<1>2. ASSUME NEW r \in queue
      PROVE  f[r] = r \/ (r.item \in {b.item} /\ Patch(n, r, f[r]))
  <2>1. CASE r.item # b.item
    BY <2>1
  <2>2. CASE r.item = b.item
    <3>1. PICK q \in Row : /\ q = Settled(r, s) /\ q.item = r.item /\ q.state = s
                           /\ q.attempts = 0
      BY SettledTypes, SettledZero DEF IInv, QueueOK
    <3>2. PICK p \in Row : /\ p = [q EXCEPT !.md5 = v] /\ p.item = r.item /\ p.state = s
                           /\ p.attempts = 0 /\ p.md5 = v
      BY <3>1 DEF Row
    <3>3. Patch(n, r, p)
      BY <2>2, <3>2 DEF Patch, Spotless
    <3>4. f[r] = p
      BY <2>2, <3>1, <3>2
    <3> QED
      BY <2>2, <3>3, <3>4
  <2> QED
    BY <2>1, <2>2
<1> HIDE DEF f
<1> QED
  BY <1>1, <1>2, PatchMove, NotInHand

\* A row settled short of done, its digest kept, that the run has in hand.
LEMMA SettleMove ==
  ASSUME IInv, RInv, NEW n \in Run, NEW b \in Handled(n), NEW hands,
         \A h \in hands : h \in Handled(n) /\ h # b,
         NEW s \in State \ {"done", "failed"}, Running(n), run[n].pc # "enumerate",
         Update(b.item, LAMBDA r : Settled(r, s))
  PROVE  QueueMove(n, {b.item}, hands)
<1> DEFINE f == [r \in queue |-> IF r.item = b.item THEN Settled(r, s) ELSE r]
<1>1. queue' = {f[r] : r \in queue}
  BY DEF Update
<1>2. ASSUME NEW r \in queue
      PROVE  f[r] = r \/ (r.item \in {b.item} /\ Patch(n, r, f[r]))
  <2>1. CASE r.item # b.item
    BY <2>1
  <2>2. CASE r.item = b.item
    <3>1. PICK q \in Row : /\ q = Settled(r, s) /\ q.item = r.item /\ q.state = s
                           /\ q.attempts = 0 /\ q.md5 = r.md5
      BY SettledTypes, SettledZero DEF IInv, QueueOK
    <3>2. Patch(n, r, q)
      BY <2>2, <3>1 DEF Patch, Spotless
    <3>3. f[r] = q
      BY <2>2, <3>1
    <3> QED
      BY <2>2, <3>2, <3>3
  <2> QED
    BY <2>1, <2>2
<1> HIDE DEF f
<1> QED
  BY <1>1, <1>2, PatchMove, NotInHand

\* A row of the camera roll sent back to be hashed keeps its attempts.
LEMMA UnhashedMove ==
  ASSUME IInv, RInv, NEW n \in Run, NEW b \in Handled(n), NEW hands,
         \A h \in hands : h \in Handled(n) /\ h # b, b.item \notin Shared,
         Update(b.item, LAMBDA r : [r EXCEPT !.state = "unknown", !.due = TRUE])
  PROVE  QueueMove(n, {b.item}, hands)
<1> DEFINE f == [r \in queue |-> IF r.item = b.item
                   THEN [r EXCEPT !.state = "unknown", !.due = TRUE] ELSE r]
<1>1. queue' = {f[r] : r \in queue}
  BY DEF Update
<1>2. ASSUME NEW r \in queue
      PROVE  f[r] = r \/ (r.item \in {b.item} /\ Patch(n, r, f[r]))
  <2>1. CASE r.item # b.item
    BY <2>1
  <2>2. CASE r.item = b.item
    <3>0. r \in Row
      BY DEF IInv, QueueOK
    <3> DEFINE q == [r EXCEPT !.state = "unknown", !.due = TRUE]
    <3>1. /\ q.item = r.item /\ q.state = "unknown" /\ q.attempts = r.attempts
          /\ q.md5 = r.md5
      BY <3>0 DEF Row
    <3>3. f[r] = q
      BY <2>2
    <3> HIDE DEF q
    <3>2. Patch(n, r, q)
      BY <2>2, <3>1 DEF Patch, Spotless
    <3> QED
      BY <2>2, <3>2, <3>3
  <2> QED
    BY <2>1, <2>2
<1> HIDE DEF f
<1> QED
  BY <1>1, <1>2, PatchMove, NotInHand

\* A row marked done of what the archive vouches for.
LEMMA DoneMove ==
  ASSUME IInv, RInv, NEW n \in Run, NEW b \in Handled(n), NEW hands,
         \A h \in hands : h \in Handled(n) /\ h # b,
         NEW v \in Version \cup {None}, Sure(b.item, v, Vouched'),
         Update(b.item, LAMBDA r : [Settled(r, "done") EXCEPT !.asset = v])
  PROVE  QueueMove(n, {b.item}, hands)
<1> DEFINE f == [r \in queue |-> IF r.item = b.item
                   THEN [Settled(r, "done") EXCEPT !.asset = v] ELSE r]
<1>1. queue' = {f[r] : r \in queue}
  BY DEF Update
<1>2. ASSUME NEW r \in queue
      PROVE  f[r] = r \/ (r.item \in {b.item} /\ Patch(n, r, f[r]))
  <2>1. CASE r.item # b.item
    BY <2>1
  <2>2. CASE r.item = b.item
    <3>1. PICK q \in Row : /\ q = Settled(r, "done") /\ q.item = r.item
                           /\ q.state = "done" /\ q.attempts = 0 /\ q.md5 = r.md5
      BY SettledTypes, SettledZero DEF IInv, QueueOK, State
    <3>2. PICK p \in Row : /\ p = [q EXCEPT !.asset = v] /\ p.item = r.item
                           /\ p.state = "done" /\ p.attempts = 0 /\ p.md5 = r.md5
                           /\ p.asset = v
      BY <3>1 DEF Row
    <3>3. Patch(n, r, p)
      BY <2>2, <3>2 DEF Patch, Spotless, Retryable
    <3>4. f[r] = p
      BY <2>2, <3>1, <3>2
    <3> QED
      BY <2>2, <3>3, <3>4
  <2> QED
    BY <2>1, <2>2
<1> HIDE DEF f
<1> QED
  BY <1>1, <1>2, PatchMove, NotInHand

\* A row marked done of what was sent.
LEMMA AckMove ==
  ASSUME IInv, RInv, NEW n \in Run, NEW b \in Handled(n), NEW hands,
         \A h \in hands : h \in Handled(n) /\ h # b,
         NEW v \in Version, Clean => v = 0, Sure(b.item, v, Vouched'),
         Update(b.item, LAMBDA r : [Settled(r, "done") EXCEPT !.asset = v, !.md5 = v])
  PROVE  QueueMove(n, {b.item}, hands)
<1> DEFINE f == [r \in queue |-> IF r.item = b.item
                   THEN [Settled(r, "done") EXCEPT !.asset = v, !.md5 = v] ELSE r]
<1>1. queue' = {f[r] : r \in queue}
  BY DEF Update
<1>2. ASSUME NEW r \in queue
      PROVE  f[r] = r \/ (r.item \in {b.item} /\ Patch(n, r, f[r]))
  <2>1. CASE r.item # b.item
    BY <2>1
  <2>2. CASE r.item = b.item
    <3>1. PICK q \in Row : /\ q = Settled(r, "done") /\ q.item = r.item
                           /\ q.state = "done" /\ q.attempts = 0
      BY SettledTypes, SettledZero DEF IInv, QueueOK, State
    <3> DEFINE o == [q EXCEPT !.asset = v]
               p == [o EXCEPT !.md5 = v]
    <3>0. /\ o \in Row /\ o.item = r.item /\ o.state = "done" /\ o.attempts = 0
          /\ o.asset = v
      BY <3>1 DEF Row
    <3> HIDE DEF o
    <3>2. /\ p \in Row /\ p.item = r.item /\ p.state = "done" /\ p.attempts = 0
          /\ p.md5 = v /\ p.asset = v
      BY <3>0 DEF Row
    <3>5. f[r] = p
      BY <2>2, <3>1 DEF o
    <3> HIDE DEF p
    <3>3. Patch(n, r, p)
      BY <2>2, <3>2 DEF Patch, Spotless, Retryable
    <3> QED
      BY <2>2, <3>3, <3>5
  <2> QED
    BY <2>1, <2>2
<1> HIDE DEF f
<1> QED
  BY <1>1, <1>2, PatchMove, NotInHand

\* A run that goes on with less in hand, having written a row.
LEMMA GoesOn ==
  ASSUME IInv, RInv, NEW n \in Run, NEW x, run' = [run EXCEPT ![n] = x],
         Shaped(x), HandledOf(x) \subseteq Handled(n),
         SpotlessRun(run[n]) => SpotlessRun(x),
         TrueRun(run[n], Vouched) => TrueRun(x, Vouched'),
         x.pc = run[n].pc \/ (Running(n) /\ run[n].pc # "enumerate"),
         x.albums = run[n].albums, run[n].refused => x.refused \/ Running(n),
         Handled(n) # {}
  PROVE  RunMove(n, x)
<1>1. TrueRun(run[n], Vouched) /\ (Clean => SpotlessRun(run[n]))
  BY RunFacts
<1>2. TrueRun(x, Vouched') /\ (Clean => SpotlessRun(x))
  BY <1>1, Zenon
<1>3. Engaged(x) => Running(n)
  BY DEF Engaged, Running
<1> QED
  BY <1>2, <1>3 DEF RunMove

\* Apply: the row of one answer is settled, and is the answer's own.
LEMMA ApplyKeeps ==
  ASSUME IInv, IInv', RInv, NEW n \in Run, Apply(n)
  PROVE  RInv'
<1>1. PICK a \in run[n].batch :
       /\ Update(a.row.item, LAMBDA r :
            CASE a.answer.status = "have" ->
                   [Settled(r, "done") EXCEPT !.asset = a.answer.asset]
              [] a.answer.status = "want" -> Settled(r, "want")
              [] a.answer.status = "unknown" ->
                   Settled(r, IF r.item \in Shared THEN "want" ELSE "unknown"))
       /\ run' = [run EXCEPT
            ![n].batch = @ \ {a},
            ![n].pc = IF run[n].batch = {a} THEN "look" ELSE "apply"]
  BY DEF Apply
<1>2. run[n].pc = "apply" /\ Running(n) /\ a \in Answered /\ run[n] \in RunState
  BY <1>1, RunTypes DEF Good, Apply, Running
<1>3. /\ a.row \in Live /\ a.answer.status \in {"have", "unknown", "want"}
      /\ a.answer.asset \in Version \cup {None} /\ a.row.item \in Item
  BY <1>2, LiveTypes DEF Answered
<1>4. /\ run[n].todo = {} /\ run[n].hashing = {} /\ run[n].crew = {} /\ ~run[n].refused
      /\ Shaped(run[n]) /\ TrueRun(run[n], Vouched) /\ HandledOf(run[n]) = Handled(n)
  BY <1>2, RunFacts
<1>5. StoreMove /\ Vouched' = Vouched
  BY StoreKept DEF Apply
<1> DEFINE x == [run[n] EXCEPT !.batch = run[n].batch \ {a},
                               !.pc = IF run[n].batch = {a} THEN "look" ELSE "apply"]
<1>6. run' = [run EXCEPT ![n] = x]
  BY <1>1 DEF IInv, Runs
<1>7. /\ x.pc \in {"look", "apply"} /\ (x.pc = "look" => x.batch = {})
      /\ x.todo = {} /\ x.hashing = {} /\ x.crew = {} /\ ~x.refused
      /\ x.batch = run[n].batch \ {a} /\ x.albums = run[n].albums
  BY <1>2, <1>4 DEF RunState
<1> HIDE DEF x
<1>8. /\ a.row \in Handled(n)
      /\ \A h \in HandledOf(x) : h \in Handled(n) /\ h # a.row
  <2>1. Handled(n) = {b.row : b \in run[n].batch}
    BY <1>2, <1>4 DEF HandledOf
  <2>2. HandledOf(x) = {b.row : b \in run[n].batch \ {a}}
    BY <1>7 DEF HandledOf
  <2>3. \A b \in run[n].batch : b.row = a.row => b = a
    BY <1>1, <1>2, <1>4 DEF Shaped
  <2> QED
    BY <1>1, <2>1, <2>2, <2>3
<1>9. Shaped(x)
  BY <1>2, <1>4, <1>7, <1>8 DEF Shaped
<1>10. RunMove(n, x)
  <2>1. SpotlessRun(run[n]) => SpotlessRun(x)
    BY <1>4, <1>7, <1>8 DEF SpotlessRun
  <2>2. TrueRun(run[n], Vouched) => TrueRun(x, Vouched')
    BY <1>2, <1>5, <1>7 DEF TrueRun
  <2> QED
    BY <1>2, <1>4, <1>6, <1>7, <1>8, <1>9, <2>1, <2>2, GoesOn
<1>11. QueueMove(n, {a.row.item}, HandledOf(x))
  <2>0. {"want", "unknown"} \subseteq State \ {"done", "failed"}
    BY DEF State
  <2>1. CASE a.answer.status = "have"
    <3>1. Update(a.row.item, LAMBDA r : [Settled(r, "done") EXCEPT !.asset = a.answer.asset])
      BY <1>1, <2>1 DEF Update
    <3>2. Sure(a.row.item, a.answer.asset, Vouched')
      BY <1>1, <1>2, <1>4, <1>5, <2>1 DEF TrueRun
    <3> QED
      BY <1>3, <1>8, <3>1, <3>2, DoneMove
  <2>2. CASE a.answer.status = "want" \/ (a.answer.status = "unknown" /\ a.row.item \in Shared)
    <3>1. Update(a.row.item, LAMBDA r : Settled(r, "want"))
      BY <1>1, <2>2 DEF Update
    <3> QED
      BY <1>2, <1>8, <2>0, <3>1, SettleMove
  <2>3. CASE a.answer.status = "unknown" /\ a.row.item \notin Shared
    <3>1. Update(a.row.item, LAMBDA r : Settled(r, "unknown"))
      BY <1>1, <2>3 DEF Update
    <3> QED
      BY <1>2, <1>8, <2>0, <3>1, SettleMove
  <2> QED
    BY <1>3, <2>1, <2>2, <2>3
<1> QED
  BY <1>5, <1>10, <1>11, RunStep

\* Hash: the row gets the digest of what the phone shows, or is charged.
LEMMA HashKeeps ==
  ASSUME IInv, IInv', RInv, NEW n \in Run, NEW r \in run[n].hashing, Hash(n, r)
  PROVE  RInv'
<1>1. run[n] \in RunState /\ r \in Live /\ r.item \in Item
  <2>1. run[n] \in RunState /\ r \in Live
    BY RunTypes DEF RunState
  <2> QED
    BY <2>1, LiveTypes
<1>2. /\ run[n].pc = "work" /\ Running(n) /\ run[n].batch = {} /\ Shaped(run[n])
      /\ Handled(n) = HandledOf(run[n])
  <2>1. run[n].pc \notin {"idle", "enumerate", "look", "rest", "asleep", "check", "apply", "over"}
    BY RunFacts
  <2> QED
    BY <1>1, <2>1, RunFacts, RunTypes DEF RunState, Running
<1> DEFINE x == [run[n] EXCEPT !.hashing = @ \ {r}]
<1>3. run' = [run EXCEPT ![n] = x]
  BY DEF Hash, IInv, Runs
<1>4. /\ x.pc = run[n].pc /\ x.todo = run[n].todo /\ x.hashing = run[n].hashing \ {r}
      /\ x.crew = run[n].crew /\ x.batch = run[n].batch /\ x.refused = run[n].refused
      /\ x.albums = run[n].albums
  BY <1>1 DEF RunState
<1> HIDE DEF x
<1>5. /\ Shaped(x) /\ HandledOf(x) \subseteq HandledOf(run[n])
      /\ SpotlessRun(run[n]) => SpotlessRun(x)
      /\ TrueRun(run[n], Vouched) => TrueRun(x, Vouched)
  BY <1>2, <1>4, FewerHands
<1>6. r \in Handled(n) /\ \A h \in HandledOf(x) : h \in Handled(n) /\ h # r
  <2>1. r.state = "unknown" /\ r \in HandledOf(run[n])
    BY <1>2 DEF Shaped, HandledOf
  <2>2. \A h \in HandledOf(x) : h.state = "want" \/ h \in run[n].hashing \ {r}
    BY <1>2, <1>4 DEF Shaped, HandledOf
  <2> QED
    BY <1>2, <1>5, <2>1, <2>2
<1>7. StoreMove /\ Vouched' = Vouched
  BY StoreKept DEF Hash
<1>8. RunMove(n, x)
  BY <1>2, <1>3, <1>4, <1>5, <1>6, <1>7, GoesOn
<1>9. QueueMove(n, {r.item}, HandledOf(x))
  <2>1. CASE Update(r.item, LAMBDA q : [Settled(q, "hashed") EXCEPT !.md5 = Latest(r.item)])
    <3>1. PICK v \in Version \cup {None} : v = Latest(r.item)
      BY <1>1, LatestTypes
    <3>2. Update(r.item, LAMBDA q : [Settled(q, "hashed") EXCEPT !.md5 = v])
      BY <2>1, <3>1 DEF Update
    <3>3. "hashed" \in State \ {"done", "failed"}
      BY DEF State
    <3>4. Clean => v \in {None, 0}
      BY <3>1 DEF Clean, Latest
    <3> QED
      BY <1>2, <1>6, <3>1, <3>2, <3>3, <3>4, SettleMd5Move
  <2>2. CASE Spend("faults") /\ Penalize(r)
    <3>1. ~(Clean /\ Clean')
      BY <2>2, BackupAssumption DEF Clean, Spend, IInv, Plain, Bounds
    <3> QED
      BY <1>1, <1>6, <2>2, <3>1, PenalizeMove
  <2> QED
    BY <2>1, <2>2 DEF Hash
<1> QED
  BY <1>7, <1>8, <1>9, RunStep

\* What a worker has in hand is of a run at work, or of one that left it going.
LEMMA CrewFacts ==
  ASSUME IInv, RInv, NEW n \in Run, NEW u \in run[n].crew
  PROVE  /\ run[n] \in RunState /\ run[n].pc \in {"work", "over"} /\ run[n].batch = {}
         /\ Shaped(run[n]) /\ Handled(n) = HandledOf(run[n])
         /\ u.row \in Handled(n) /\ u.row \in Live /\ u.row.item \in Item
         /\ u.row.state = "want"
<1>1. run[n].pc \in {"work", "over"}
  BY RunFacts
<1>2. run[n].batch = {} /\ run[n] \in RunState /\ Shaped(run[n])
      /\ Handled(n) = HandledOf(run[n])
  BY <1>1, RunTypes, RunFacts
<1>3. u.row \in HandledOf(run[n]) /\ u.row.state = "want"
  BY <1>2 DEF HandledOf, Shaped
<1> QED
  BY <1>1, <1>2, <1>3, CrewTypes

\* A worker let go, and the row it takes next: its own row is in no one's hands.
LEMMA FreeMove ==
  ASSUME IInv, RInv, NEW n \in Run, NEW u \in run[n].crew, NEW open \in BOOLEAN,
         Free(n, u, open), Vouched' = Vouched
  PROVE  \E x : /\ RunMove(n, x)
                /\ \A h \in HandledOf(x) : h \in Handled(n) /\ h # u.row
<1> DEFINE rest == [run[n] EXCEPT !.open = open, !.crew = @ \ {u}]
<1>1. /\ run[n] \in RunState /\ run[n].pc \in {"work", "over"} /\ run[n].batch = {}
      /\ Shaped(run[n]) /\ Handled(n) = HandledOf(run[n]) /\ Handled(n) # {}
  BY CrewFacts
<1>2. /\ rest.pc = run[n].pc /\ rest.todo = run[n].todo /\ rest.hashing = run[n].hashing
      /\ rest.crew = run[n].crew \ {u} /\ rest.batch = {} /\ rest.refused = run[n].refused
      /\ rest.albums = run[n].albums /\ rest \in RunState
  BY <1>1 DEF RunState
<1>3. /\ Shaped(rest) /\ HandledOf(rest) \subseteq HandledOf(run[n])
      /\ SpotlessRun(run[n]) => SpotlessRun(rest)
      /\ TrueRun(run[n], Vouched) => TrueRun(rest, Vouched)
  <2> HIDE DEF rest
  <2> QED
    BY <1>1, <1>2, FewerHands
<1>4. \A h \in run[n].todo \cup run[n].hashing \cup {v.row : v \in run[n].crew \ {u}} :
        h \in Handled(n) /\ h # u.row
  <2>1. \A h \in run[n].todo : h \in Handled(n) /\ h # u.row
    BY <1>1 DEF Shaped, HandledOf
  <2>2. \A h \in run[n].hashing : h \in Handled(n) /\ h # u.row
    BY <1>1 DEF Shaped, HandledOf
  <2>3. \A v \in run[n].crew \ {u} : v.row \in Handled(n) /\ v.row # u.row
    BY <1>1 DEF Shaped, HandledOf
  <2> QED
    BY <2>1, <2>2, <2>3
<1>5. HandledOf(rest) \subseteq run[n].todo \cup run[n].hashing
                                 \cup {v.row : v \in run[n].crew \ {u}}
  BY <1>2 DEF HandledOf
<1>6. CASE run' = [run EXCEPT ![n] = rest]
  <2> HIDE DEF rest
  <2>1. RunMove(n, rest)
    BY <1>1, <1>2, <1>3, <1>6, GoesOn
  <2> QED
    BY <1>4, <1>5, <2>1
<1>7. ASSUME NEW s \in run[n].todo,
             run' = [run EXCEPT ![n] = [rest EXCEPT !.todo = @ \ {s},
                                                    !.crew = @ \cup {Taken(s)}]]
      PROVE  \E x : /\ RunMove(n, x)
                    /\ \A h \in HandledOf(x) : h \in Handled(n) /\ h # u.row
  <2> DEFINE x == [rest EXCEPT !.todo = @ \ {s}, !.crew = @ \cup {Taken(s)}]
  <2> HIDE DEF rest
  <2>1. /\ x.pc = rest.pc /\ x.todo = rest.todo \ {s} /\ x.hashing = rest.hashing
        /\ x.crew = rest.crew \cup {Taken(s)} /\ x.batch = {} /\ x.refused = rest.refused
        /\ x.albums = rest.albums
    BY <1>2 DEF RunState
  <2>0. run' = [run EXCEPT ![n] = x]
    BY <1>7
  <2> HIDE DEF x
  <2>2. Taken(s).row = s /\ Taken(s).stage = "open"
    BY DEF Taken
  <2>3. HandledOf(x) \subseteq run[n].todo \cup run[n].hashing
                                 \cup {v.row : v \in run[n].crew \ {u}}
    BY <1>2, <1>7, <2>1, <2>2 DEF HandledOf
  <2>4. Shaped(x)
    <3>1. s \in HandledOf(rest) /\ s \in rest.todo
      BY <1>2, <1>7 DEF HandledOf
    <3>2. \A r \in HandledOf(x) : r.due
      BY <1>1, <1>4, <2>3 DEF Shaped
    <3>3. \A v \in x.crew : v.row.state = "want" /\ v.row \notin x.todo
      BY <1>3, <2>1, <2>2, <3>1 DEF Shaped
    <3>4. \A v, w \in x.crew : v.row = w.row => v = w
      BY <1>3, <2>1, <2>2, <3>1 DEF Shaped
    <3> QED
      BY <1>1, <1>2, <1>3, <2>1, <3>2, <3>3, <3>4 DEF Shaped
  <2>5. SpotlessRun(run[n]) => SpotlessRun(x)
    BY <1>1, <1>2, <1>4, <2>1, <2>2, <2>3 DEF SpotlessRun
  <2>6. TrueRun(run[n], Vouched) => TrueRun(x, Vouched')
    BY <1>1, <1>2, <2>1, <2>2 DEF TrueRun
  <2>7. RunMove(n, x)
    BY <1>1, <1>2, <1>4, <2>0, <2>1, <2>3, <2>4, <2>5, <2>6, GoesOn
  <2> QED
    BY <1>4, <2>3, <2>7
<1> QED
  BY <1>6, <1>7 DEF Free

\* A worker further along with the row it has.
LEMMA BecomesMove ==
  ASSUME IInv, RInv, NEW n \in Run, NEW u \in run[n].crew, NEW v,
         Becomes(n, u, v), v.row = u.row, Vouched \subseteq Vouched',
         Clean => v.stage # "refused" /\ (v.stage # "open" => v.md5 = 0),
         v.stage = "acked" => <<v.row.item, v.md5>> \in Vouched'
  PROVE  \E x : RunMove(n, x)
<1> DEFINE x == [run[n] EXCEPT !.crew = (@ \ {u}) \cup {v}]
<1>1. /\ run[n] \in RunState /\ run[n].pc \in {"work", "over"} /\ run[n].batch = {}
      /\ Shaped(run[n]) /\ Handled(n) = HandledOf(run[n]) /\ Handled(n) # {}
  BY CrewFacts
<1>2. run' = [run EXCEPT ![n] = x]
  BY DEF Becomes, IInv, Runs
<1>3. /\ x.pc = run[n].pc /\ x.todo = run[n].todo /\ x.hashing = run[n].hashing
      /\ x.crew = (run[n].crew \ {u}) \cup {v} /\ x.batch = {}
      /\ x.refused = run[n].refused /\ x.albums = run[n].albums
  BY <1>1 DEF RunState
<1> HIDE DEF x
<1>4. HandledOf(x) \subseteq HandledOf(run[n])
  BY <1>1, <1>3 DEF HandledOf
<1>5. Shaped(x)
  <2>1. \A w \in x.crew : w.row.state = "want" /\ w.row \notin x.todo
    BY <1>1, <1>3 DEF Shaped
  <2>2. \A t, w \in x.crew : t.row = w.row => t = w
    BY <1>1, <1>3 DEF Shaped
  <2> QED
    BY <1>1, <1>3, <1>4, <2>1, <2>2 DEF Shaped
<1>6. TrueRun(x, Vouched') /\ (Clean => SpotlessRun(x))
  <2>1. TrueRun(run[n], Vouched) /\ (Clean => SpotlessRun(run[n]))
    BY RunFacts
  <2>2. TrueRun(x, Vouched')
    BY <1>1, <1>3, <2>1 DEF TrueRun
  <2>3. Clean => SpotlessRun(x)
    BY <1>3, <1>4, <2>1 DEF SpotlessRun
  <2> QED
    BY <2>2, <2>3
<1>7. Engaged(x) => Running(n)
  BY <1>3 DEF Engaged, Running
<1>8. RunMove(n, x)
  BY <1>1, <1>2, <1>3, <1>4, <1>5, <1>6, <1>7 DEF RunMove
<1> QED
  BY <1>8

\* Open: the row goes back to be hashed, or on to be sent with its digest.
LEMMA OpenKeeps ==
  ASSUME IInv, IInv', RInv, NEW n \in Run, NEW u \in run[n].crew, Open(n, u)
  PROVE  RInv'
<1> DEFINE i == u.row.item
           md5 == IF i \in Shared THEN Latest(i) ELSE u.row.md5
<1>1. StoreMove /\ Vouched' = Vouched
  BY StoreKept DEF Open
<1>2. /\ i \in Item /\ md5 \in Version \cup {None} /\ run[n].open \in BOOLEAN
      /\ u.row \in Handled(n) /\ 0 \in Version /\ None \notin Version
  <2>1. /\ i \in Item /\ u.row.md5 \in Version \cup {None} /\ u.row \in Handled(n)
        /\ run[n].open \in BOOLEAN
    BY CrewTypes, CrewFacts DEF RunState
  <2>2. Latest(i) \in Version
    BY <2>1, LatestTypes
  <2>3. 0 \in Version /\ None \notin Version
    BY BackupAssumption DEF Version
  <2> QED
    BY <2>1, <2>2, <2>3
<1>3. i \in Shared => md5 = 0 /\ Latest(i) = 0
  BY BackupAssumption DEF Latest
<1>4. Clean => md5 \in {None, 0}
  BY <1>2, <1>3, RunFacts DEF SpotlessRun
<1>5. CASE md5 = None
  <2>1. Update(i, LAMBDA r : [r EXCEPT !.state = "unknown", !.due = TRUE])
        /\ Free(n, u, run[n].open)
    BY <1>5 DEF Open
  <2>2. i \notin Shared
    BY <1>2, <1>3, <1>5
  <2>3. PICK x : RunMove(n, x) /\ \A h \in HandledOf(x) : h \in Handled(n) /\ h # u.row
    BY <1>1, <1>2, <2>1, FreeMove
  <2>4. QueueMove(n, {u.row.item}, HandledOf(x))
    BY <1>2, <2>1, <2>2, <2>3, UnhashedMove
  <2> QED
    BY <1>1, <2>3, <2>4, RunStep
<1>6. CASE md5 # None /\ Length(Latest(i)) # Length(md5)
  <2>1. Update(i, LAMBDA r : [Settled(r, "unknown") EXCEPT !.md5 = None])
        /\ Free(n, u, run[n].open)
    BY <1>6 DEF Open
  <2>2. i \notin Shared
    BY <1>3, <1>6
  <2>3. PICK x : RunMove(n, x) /\ \A h \in HandledOf(x) : h \in Handled(n) /\ h # u.row
    BY <1>1, <1>2, <2>1, FreeMove
  <2>4. QueueMove(n, {u.row.item}, HandledOf(x))
    <3>1. "unknown" \in State \ {"done", "failed"} /\ None \in Version \cup {None}
      BY DEF State
    <3> QED
      BY <1>2, <2>1, <2>2, <2>3, <3>1, SettleMd5Move
  <2> QED
    BY <1>1, <2>3, <2>4, RunStep
<1>7. CASE md5 # None /\ Length(Latest(i)) = Length(md5)
  <2> DEFINE v == [u EXCEPT !.md5 = md5, !.stage = "send"]
  <2>1. Becomes(n, u, v) /\ queue' = queue
    BY <1>7 DEF Open
  <2>2. v.row = u.row /\ v.md5 = md5 /\ v.stage = "send"
    BY CrewTypes DEF Uploading
  <2> HIDE DEF v, md5
  <2>3. PICK x : RunMove(n, x)
    BY <1>1, <1>4, <1>7, <2>1, <2>2, BecomesMove
  <2> QED
    BY <1>1, <2>1, <2>3, QueueKept, RunStep
<1> QED
  BY <1>5, <1>6, <1>7

\* Deliver: the archive vouches for what it acknowledges.
LEMMA DeliverKeeps ==
  ASSUME IInv, IInv', RInv, NEW n \in Run, NEW u \in run[n].crew, Deliver(n, u)
  PROVE  RInv'
<1> DEFINE i == u.row.item
           c == <<i, u.md5>>
<1>1. u \in Uploading /\ i \in Item /\ u.md5 \in Version
  BY CrewTypes DEF Deliver
<1>2. Clean => u.md5 = 0
  BY RunFacts DEF SpotlessRun, Deliver
<1>3. UNCHANGED <<queue, photo, purged, meddled, left>>
  BY DEF Deliver
<1>4. CASE Latest(i) = u.md5
  <2> DEFINE v == [u EXCEPT !.stage = "acked"]
  <2>1. /\ held' = held \cup {c} /\ suspect' = suspect \ {c}
        /\ mapping' = [mapping EXCEPT ![i] = [asset |-> u.md5, modified |-> u.row.modified]]
        /\ Becomes(n, u, v)
    BY <1>4 DEF Deliver
  <2>2. v.row = u.row /\ v.md5 = u.md5 /\ v.stage = "acked"
    BY <1>1 DEF Uploading
  <2> HIDE DEF v
  <2>3. Vouched \subseteq Vouched' /\ c \in Vouched'
    BY <1>3, <2>1 DEF Vouched
  <2>4. \A j \in Item : mapping'[j].asset # None => <<j, mapping'[j].asset>> \in held'
    <3>1. \A j \in Item : mapping[j].asset # None => <<j, mapping[j].asset>> \in held
      BY DEF RInv, Truth
    <3>2. \A j \in Item : mapping'[j] = IF j = i THEN [asset |-> u.md5, modified |-> u.row.modified]
                                        ELSE mapping[j]
      BY <2>1 DEF IInv, Plain
    <3> QED
      BY <2>1, <3>1, <3>2
  <2>5. StoreMove
    BY <1>3, <2>3, <2>4 DEF StoreMove, Clean, RInv
  <2>6. PICK x : RunMove(n, x)
    BY <1>2, <2>1, <2>2, <2>3, BecomesMove
  <2> QED
    BY <1>3, <2>5, <2>6, QueueKept, RunStep
<1>5. CASE Latest(i) # u.md5
  <2> DEFINE v == [u EXCEPT !.stage = "refused"]
  <2>1. Becomes(n, u, v) /\ UNCHANGED <<held, ever, mapping, suspect>>
    BY <1>5 DEF Deliver
  <2>2. v.row = u.row /\ v.stage = "refused"
    BY <1>1 DEF Uploading
  <2> HIDE DEF v
  <2>3. StoreMove /\ Vouched' = Vouched
    BY <1>3, <2>1 DEF StoreMove, Clean, RInv, Truth, Vouched
  <2>4. ~Clean
    BY <1>1, <1>2, <1>5 DEF Clean, Latest
  <2>5. PICK x : RunMove(n, x)
    BY <2>1, <2>2, <2>3, <2>4, BecomesMove
  <2> QED
    BY <1>3, <2>3, <2>5, QueueKept, RunStep
<1> QED
  BY <1>4, <1>5

\* Acked: the row claims what was delivered.
LEMMA AckedKeeps ==
  ASSUME IInv, IInv', RInv, NEW n \in Run, NEW u \in run[n].crew, Acked(n, u)
  PROVE  RInv'
<1>1. StoreMove /\ Vouched' = Vouched
  BY StoreKept DEF Acked
<1>2. u.md5 \in Version /\ u.row \in Handled(n) /\ <<u.row.item, u.md5>> \in Vouched
  BY CrewTypes, CrewFacts, RunFacts DEF Acked, TrueRun
<1>3. Clean => u.md5 = 0
  BY RunFacts DEF SpotlessRun, Acked
<1>4. PICK x : RunMove(n, x) /\ \A h \in HandledOf(x) : h \in Handled(n) /\ h # u.row
  BY <1>1, FreeMove DEF Acked
<1>5. QueueMove(n, {u.row.item}, HandledOf(x))
  BY <1>1, <1>2, <1>3, <1>4, AckMove DEF Acked, Sure
<1> QED
  BY <1>1, <1>4, <1>5, RunStep

\* An upload that failed, whoever was at fault.
LEMMA FailedKeeps ==
  ASSUME IInv, IInv', RInv, NEW n \in Run, NEW u \in run[n].crew, NEW kind \in Kind,
         OpenFails(n, u) \/ Refused(n, u) \/ SendFails(n, u, kind)
  PROVE  RInv'
<1>1. StoreMove /\ Vouched' = Vouched
  <2>1. Cost(kind) \in {"outages", "faults", "wishes", "upheavals"}
    BY DEF Cost
  <2>2. UNCHANGED <<photo, ticked, pairing, store, seen>>
    BY DEF OpenFails, Refused, SendFails
  <2>3. left' = left \/ Spend("faults") \/ Spend(Cost(kind))
    BY DEF OpenFails, Refused, SendFails
  <2> QED
    BY <2>1, <2>2, <2>3, StoreKept
<1>2. PICK open \in BOOLEAN : Free(n, u, open)
  <2>1. run[n].open \in BOOLEAN
    BY RunTypes DEF RunState
  <2>2. CASE Free(n, u, run[n].open)
    BY <2>1, <2>2
  <2>3. CASE Free(n, u, run[n].open \/ Trips(kind))
    <3>1. PICK open \in BOOLEAN : open = (run[n].open \/ Trips(kind))
      <4>1. CASE run[n].open \/ Trips(kind)
        BY <4>1
      <4>2. CASE ~(run[n].open \/ Trips(kind))
        <5>1. (run[n].open \/ Trips(kind)) = FALSE
          BY <4>2
        <5> QED
          BY <5>1
      <4> QED
        BY <4>1, <4>2
    <3> QED
      BY <2>3, <3>1
  <2> QED
    BY <2>2, <2>3 DEF OpenFails, Refused, SendFails
<1>3. PICK x : RunMove(n, x) /\ \A h \in HandledOf(x) : h \in Handled(n) /\ h # u.row
  BY <1>1, <1>2, FreeMove
<1>4. CASE queue' = queue
  BY <1>1, <1>3, <1>4, QueueKept, RunStep
<1>5. CASE Penalize(u.row) /\ (Spend("faults") \/ Refused(n, u))
  <2>1. ~(Clean /\ Clean')
    <3>1. CASE Spend("faults")
      BY <3>1, BackupAssumption DEF Clean, Spend, IInv, Plain, Bounds
    <3>2. CASE Refused(n, u)
      BY <3>2, RunFacts DEF SpotlessRun, Refused
    <3> QED
      BY <1>5, <3>1, <3>2
  <2>2. QueueMove(n, {u.row.item}, HandledOf(x))
    BY <1>3, <1>5, <2>1, CrewFacts, PenalizeMove
  <2> QED
    BY <1>1, <1>3, <2>2, RunStep
<1>6. SendFails(n, u, kind) /\ kind # "unreachable" => Penalize(u.row) /\ Spend("faults")
  BY DEF SendFails, Cost
<1> QED
  BY <1>4, <1>5, <1>6 DEF OpenFails, Refused, SendFails

\* A request given up: what it carried is charged, and nothing is left in hand.
LEMMA CheckFailsKeeps ==
  ASSUME IInv, IInv', RInv, NEW n \in Run, NEW kind \in Kind, CheckFails(n, kind)
  PROVE  RInv'
<1> DEFINE x == [run[n] EXCEPT !.pc = "look", !.batch = {}, !.open = Trips(kind)]
           B == run[n].batch
           of(r) == {b \in B : b.item = r.item}
           f == [r \in queue |-> IF kind = "unreachable" \/ of(r) = {} THEN r
                   ELSE Penalized(r, (CHOOSE b \in of(r) : TRUE).attempts + 1)]
           W == {b.item : b \in B}
<1>1. /\ run[n].pc = "check" /\ run[n] \in RunState /\ B \subseteq Live /\ Running(n)
      /\ run[n].todo = {} /\ run[n].hashing = {} /\ run[n].crew = {} /\ ~run[n].refused
  BY RunTypes, RunFacts DEF CheckFails, Good, Running
<1>2. StoreMove /\ Vouched' = Vouched
  <2>1. Cost(kind) \in {"outages", "faults", "wishes", "upheavals"}
    BY DEF Cost
  <2> QED
    BY <2>1, StoreKept DEF CheckFails
<1>3. run' = [run EXCEPT ![n] = x]
  BY DEF CheckFails, IInv, Runs
<1>4. /\ x.pc = "look" /\ x.todo = {} /\ x.hashing = {} /\ x.crew = {} /\ x.batch = {}
      /\ ~x.refused /\ x.albums = run[n].albums
  BY <1>1 DEF RunState
<1> HIDE DEF x
<1>5. RunMove(n, x)
  BY <1>1, <1>3, <1>4, EmptyHands DEF RunMove
<1>6. HandledOf(x) = {}
  BY <1>4, EmptyHands
<1>7. queue' = {f[r] : r \in queue}
  BY DEF CheckFails, Charge
<1>8. ASSUME NEW r \in queue
      PROVE  f[r] = r \/ (r.item \in W /\ Patch(n, r, f[r]))
  <2>1. CASE kind = "unreachable" \/ of(r) = {}
    BY <2>1
  <2>2. CASE ~(kind = "unreachable" \/ of(r) = {})
    <3> DEFINE b == CHOOSE b \in of(r) : TRUE
    <3>1. b \in Live /\ b.item = r.item /\ b \in B
      BY <1>1, <2>2
    <3>2. f[r] = Penalized(r, b.attempts + 1)
      BY <2>2
    <3> HIDE DEF b, f
    <3>3. PICK q \in Row : /\ q = Penalized(r, b.attempts + 1)
                           /\ q.item = r.item /\ q.asset = r.asset
                           /\ q.state \in {r.state, "failed"}
      BY <3>1, PenalizedTypes, LiveTypes DEF IInv, QueueOK
    <3>4. ~(Clean /\ Clean')
      BY <2>2, BackupAssumption DEF CheckFails, Cost, Clean, Spend, IInv, Plain, Bounds
    <3>5. Patch(n, r, q)
      BY <3>3, <3>4 DEF Patch, Retryable
    <3> QED
      BY <3>1, <3>2, <3>3, <3>5
  <2> QED
    BY <2>1, <2>2
<1> HIDE DEF f, W
<1>9. QueueMove(n, W, HandledOf(x))
  BY <1>6, <1>7, <1>8, PatchMove
<1> QED
  BY <1>2, <1>5, <1>9, RunStep

-----------------------------------------------------------------------------
(* What starts a run, and what enumerates.                                 *)

\* Nobody holds the lock.
LEMMA NobodyRuns ==
  (Holder = {}) <=> \A n \in Run : ~Running(n)
  BY DEF Holder

\* Start: the run is the only one, and has nothing in hand.
LEMMA StartKeeps ==
  ASSUME IInv, IInv', RInv, NEW n \in Run, NEW who \in {"foreground", "background"},
         Start(n, who)
  PROVE  RInv'
<1> DEFINE x == [run[n] EXCEPT !.pc = "enumerate", !.who = who,
                               !.device = pairing.device, !.albums = ticked]
<1>1. run' = [run EXCEPT ![n] = x]
  BY DEF Start, IInv, Runs
<1>2. run[n].pc = "idle" /\ run[n].batch = {} /\ run[n] \in RunState
      /\ \A m \in Run : ~Running(m)
  BY RunTypes, NobodyRuns DEF Start
<1>3. run[n].todo = {} /\ run[n].hashing = {} /\ run[n].crew = {} /\ ~run[n].refused
  BY <1>2, RunFacts
<1>4. /\ x.pc = "enumerate" /\ x.todo = {} /\ x.hashing = {} /\ x.crew = {} /\ x.batch = {}
      /\ ~x.refused
  BY <1>2, <1>3 DEF RunState
<1> HIDE DEF x
<1>5. Shaped(x) /\ HandledOf(x) = {} /\ SpotlessRun(x) /\ \A K : TrueRun(x, K)
  BY <1>4, EmptyHands
<1>6. \A m \in Run : run'[m] = IF m = n THEN x ELSE run[m]
  BY <1>1 DEF IInv, Runs
<1>7. StoreMove /\ Vouched' = Vouched
  BY StoreKept DEF Start
<1>8. UNCHANGED <<queue, store, meddled, left, photo>>
  BY DEF Start, seen
<1>9. \A m \in Run : Shaped(run'[m])
  BY <1>5, <1>6 DEF RInv
<1>10. \A m \in Run : Engaged(run'[m]) => m = n /\ run'[m].pc = "enumerate"
  BY <1>2, <1>4, <1>6 DEF Engaged, Running
<1>11. Alone' /\ Ticked'
  BY <1>10 DEF Alone, Ticked, Running, Engaged
<1>12. Fresh'
  <2> SUFFICES ASSUME NoStray', NEW m \in Run, NEW r \in HandledOf(run'[m])
               PROVE  Current(r)'
    BY DEF Fresh, Handled, HandledOf
  <2>1. NoStray
    <3>1. \A k \in Run \ {n} : ~run[k].refused
      BY <1>6, <1>10 DEF NoStray, Running, Engaged
    <3> QED
      BY <1>3, <3>1 DEF NoStray
  <2>2. r \in Handled(m)
    BY <1>5, <1>6, HandledIs
  <2> QED
    BY <1>8, <2>1, <2>2 DEF RInv, Fresh, Current, Queued
<1>13. Unspoilt'
  <2>1. Clean' => Clean
    BY <1>7 DEF StoreMove
  <2> QED
    BY <1>5, <1>6, <1>8, <2>1 DEF RInv, Unspoilt, Spotless, SpotlessRun, HandledOf
<1>14. Truth'
  <2>1. \A m \in Run : TrueRun(run'[m], Vouched')
    BY <1>5, <1>6, <1>7 DEF RInv, Truth
  <2>2. \A q \in queue' : q.state = "done" => Sure(q.item, q.asset, Vouched')
    BY <1>7, <1>8 DEF RInv, Truth
  <2> QED
    BY <1>7, <2>1, <2>2 DEF Truth, StoreMove, TrueRun, Sure
<1> QED
  BY <1>7, <1>9, <1>11, <1>12, <1>13, <1>14 DEF RInv, Shaped, HandledOf, StoreMove

\* Enumerate: the shared photographs that are work are those of the albums.
LEMMA EnumerateKeeps ==
  ASSUME IInv, IInv', RInv, NEW n \in Run, Enumerate(n)
  PROVE  RInv'
<1> DEFINE x == [run[n] EXCEPT !.pc = "look"]
<1>1. PICK offered \in Offers(n) : queue' = PruneShared(Enqueued(offered), offered)
  BY DEF Enumerate
<1>2. /\ run[n].pc = "enumerate" /\ run[n].batch = {} /\ run[n] \in RunState /\ Running(n)
      /\ run' = [run EXCEPT ![n] = x]
  BY RunTypes DEF Enumerate, Running, IInv, Runs
<1>3. run[n].todo = {} /\ run[n].hashing = {} /\ run[n].crew = {} /\ ~run[n].refused
  BY <1>2, RunFacts
<1>4. /\ x.pc = "look" /\ x.todo = {} /\ x.hashing = {} /\ x.crew = {} /\ x.batch = {}
      /\ ~x.refused /\ x.albums = run[n].albums
  BY <1>2, <1>3 DEF RunState
<1> HIDE DEF x
<1>5. Shaped(x) /\ HandledOf(x) = {} /\ SpotlessRun(x) /\ \A K : TrueRun(x, K)
  BY <1>4, EmptyHands
<1>6. \A m \in Run : run'[m] = IF m = n THEN x ELSE run[m]
  BY <1>2 DEF IInv, Runs
<1>7. UNCHANGED <<photo, store, ever, suspect, left>>
  BY DEF Enumerate
<1>8. Vouched' = Vouched /\ (Clean' <=> Clean)
  BY <1>7 DEF Vouched, Clean, store
<1>9. offered \subseteq Library \cup run[n].albums /\ offered \subseteq Item
  BY <1>1, <1>2 DEF Offers, RunState, Item
<1>10. /\ \A q \in queue' : /\ q \in queue \/ \E i \in Item : q = NewRow(i)
                            /\ q.item \in Library \cup offered \/ q.state = "done"
       /\ queue' \subseteq queue \cup {NewRow(i) : i \in Item}
  BY <1>1, <1>9 DEF PruneShared, Enqueued
<1>11. \A m \in Run : Shaped(run'[m])
  BY <1>5, <1>6 DEF RInv
<1>12. \A m \in Run : Engaged(run'[m]) => m = n
  BY <1>2, <1>6 DEF Engaged, Running, RInv, Alone
<1>13. Alone'
  BY <1>12 DEF Alone, Running, Engaged
<1>14. Fresh'
  <2> SUFFICES ASSUME NoStray', NEW m \in Run, NEW r \in HandledOf(run'[m])
               PROVE  FALSE
    BY DEF Fresh, Handled, HandledOf
  <2>1. m # n /\ run'[m] = run[m]
    BY <1>5, <1>6
  <2>2. ~Running(m) /\ ~run[m].refused
    BY <1>2, <2>1 DEF RInv, Alone, NoStray, Running
  <2> QED
    BY <2>1, <2>2, RestEmpty
<1>15. Ticked'
  <2> SUFFICES ASSUME NEW m \in Run, Engaged(run'[m])
               PROVE  TickedBy(m)'
    BY DEF Ticked, Running, Engaged
  <2>1. m = n /\ run'[m] = x
    BY <1>6, <1>12
  <2>2. ASSUME NEW q \in queue', q.item \in Shared, q.state \in Retryable
        PROVE  q.item \in run[n].albums
    <3>1. q.item \in offered /\ q.item \notin Library
      BY <1>10, <2>2, BackupAssumption DEF Retryable
    <3> QED
      BY <1>9, <3>1
  <2> QED
    BY <1>4, <1>5, <2>1, <2>2 DEF TickedBy, Handled, HandledOf
<1>16. Unspoilt'
  <2>1. \A i \in Item : Spotless(NewRow(i))
    BY DEF Spotless, NewRow
  <2> QED
    BY <1>5, <1>6, <1>8, <1>10, <2>1 DEF RInv, Unspoilt, Spotless, SpotlessRun, HandledOf
<1>17. Truth'
  <2>1. \A m \in Run : TrueRun(run'[m], Vouched')
    BY <1>5, <1>6, <1>8 DEF RInv, Truth
  <2>2. \A q \in queue' : q.state = "done" => Sure(q.item, q.asset, Vouched')
    <3>1. \A i \in Item : NewRow(i).state = "pending"
      BY DEF NewRow
    <3> QED
      BY <1>8, <1>10, <3>1 DEF RInv, Truth
  <2>3. \A i \in Item : mapping'[i].asset # None => <<i, mapping'[i].asset>> \in held'
    BY <1>7 DEF RInv, Truth, store
  <2> QED
    BY <2>1, <2>2, <2>3 DEF Truth, TrueRun, Sure
<1> QED
  BY <1>7, <1>11, <1>13, <1>14, <1>15, <1>16, <1>17 DEF RInv, Shaped, HandledOf

-----------------------------------------------------------------------------
(* The buttons, and what happens around the runs.                          *)

\* A step of no run, that writes rows no run has in hand: what else it must keep is
\* said of the queue and of the archive.
LEMMA NoRunMoves ==
  ASSUME IInv, IInv', RInv, run' = run,
         Queued' \subseteq Queued,
         \A n \in Run : \A h \in Handled(n) : h \in queue => h \in queue' \/ h.item \notin Queued',
         meddled' \/ (\A n \in Run : ~Running(n))
           \/ ( /\ ~meddled
                /\ \A q \in queue' : q.state \in Retryable =>
                     \E r \in queue : r.item = q.item /\ r.state \in Retryable ),
         Clean' => Clean, left'.faults <= MaxFaults,
         Clean' => \A q \in queue' : Spotless(q),
         Truth'
  PROVE  RInv'
<1>1. (\A n \in Run : Shaped(run'[n])) /\ Alone'
  BY DEF RInv, Alone, Running
<1>2. Fresh'
  <2> SUFFICES ASSUME NoStray, NEW n \in Run, NEW h \in Handled(n)
               PROVE  Current(h)'
    BY DEF Fresh, NoStray, Running, Handled
  <2>1. Current(h)
    BY DEF RInv, Fresh
  <2> QED
    BY <2>1 DEF Current
<1>3. Ticked'
  <2> SUFFICES ASSUME ~meddled', NEW n \in Run, Running(n), run[n].pc # "enumerate"
               PROVE  TickedBy(n)'
    BY DEF Ticked, Running
  <2>1. TickedBy(n)
    BY DEF RInv, Ticked
  <2> QED
    BY <2>1 DEF TickedBy, Handled
<1>4. Unspoilt'
  <2>1. Clean' => \A n \in Run : SpotlessRun(run[n])
    BY DEF RInv, Unspoilt
  <2> QED
    BY <2>1 DEF Unspoilt, Spotless, SpotlessRun, HandledOf
<1> QED
  BY <1>1, <1>2, <1>3, <1>4 DEF RInv, Shaped, HandledOf

\* A row a run has in hand is neither done nor given up, and is due.
LEMMA InHand ==
  ASSUME IInv, RInv, NEW n \in Run, NEW h \in Handled(n)
  PROVE  h.state \in Retryable /\ h.due
<1>1. /\ Good(run[n], ever, purged) /\ run[n] \in RunState /\ Shaped(run[n])
      /\ Handled(n) = HandledOf(run[n])
  BY RunTypes, RunFacts
<1>2. h \in Live
  BY <1>1 DEF HandledOf, Good, RunState, Uploading, Answered
<1> QED
  BY <1>1, <1>2 DEF Shaped, Live

\* What a run was told stays vouched for, unless Recheck forgets what it lost.
LEMMA RecheckTruth ==
  ASSUME IInv, RInv, Recheck
  PROVE  Truth'
<1>1. /\ run' = run /\ store' = store /\ queue' = Reopened("done")
      /\ suspect' = suspect \ ({<<r.item, r.asset>> : r \in {q \in queue : q.state = "done"}}
                                \ Told)
  BY DEF Recheck, Press
<1>2. held' = held /\ purged' = purged /\ mapping' = mapping
  BY <1>1 DEF store
<1>3. \A c \in Told : c \in Vouched => c \in Vouched'
  BY <1>1, <1>2 DEF Vouched
<1>4. ASSUME NEW n \in Run
      PROVE  TrueRun(run[n], Vouched')
  <2>1. TrueRun(run[n], Vouched)
    BY DEF RInv, Truth
  <2>2. \A u \in run[n].crew : u.stage = "acked" => <<u.row.item, u.md5>> \in Told
    BY DEF Told
  <2>3. run[n].pc = "apply" => \A a \in run[n].batch :
          a.answer.status = "have" => <<a.row.item, a.answer.asset>> \in Told
    BY DEF Told
  <2>4. \A u \in run[n].crew : u.stage = "acked" => <<u.row.item, u.md5>> \in Vouched'
    BY <1>3, <2>1, <2>2 DEF TrueRun
  <2>5. run[n].pc = "apply" => \A a \in run[n].batch :
          a.answer.status = "have" => Sure(a.row.item, a.answer.asset, Vouched')
    BY <1>3, <2>1, <2>3 DEF TrueRun, Sure
  <2> QED
    BY <2>4, <2>5 DEF TrueRun
<1>5. \A q \in queue' : q.state # "done"
  <2> SUFFICES ASSUME NEW r \in queue, r.state = "done"
               PROVE  [Settled(r, IF r.md5 = None THEN "pending" ELSE "hashed")
                        EXCEPT !.asset = None].state # "done"
    BY <1>1 DEF Reopened
  <2>1. PICK h \in Row : /\ h = Settled(r, IF r.md5 = None THEN "pending" ELSE "hashed")
                         /\ h.state # "done"
    BY SettledTypes DEF State, IInv, QueueOK
  <2>2. [h EXCEPT !.asset = None].state = h.state
    BY <2>1, NamedTypes
  <2> QED
    BY <2>1, <2>2
<1> QED
  BY <1>1, <1>2, <1>4, <1>5 DEF Truth, RInv, TrueRun, Sure

\* RetryFailed, Recheck and ForgetShared write no row a run has in hand.
LEMMA ButtonsKeep ==
  ASSUME IInv, IInv', RInv, RetryFailed \/ Recheck \/ ForgetShared
  PROVE  RInv'
<1>1. /\ UNCHANGED <<photo, run, pairing, store, ever>> /\ Spend("wishes")
      /\ meddled' = (meddled \/ Holder # {})
  BY DEF RetryFailed, Recheck, ForgetShared, Press
<1>2. meddled' \/ \A n \in Run : ~Running(n)
  BY <1>1, NobodyRuns
<1>3. (Clean' => Clean) /\ left'.faults <= MaxFaults
  <2>1. left'.faults = left.faults
    BY <1>1 DEF Spend, Bounds, IInv, Plain
  <2> QED
    BY <1>1, <2>1 DEF Clean, RInv
<1>4. Clean => \A r \in queue : Spotless(r)
  BY DEF RInv, Unspoilt
<1>5. CASE ForgetShared
  <2>1. queue' = {r \in queue : r.item \notin Shared} /\ suspect' = suspect
    BY <1>5 DEF ForgetShared
  <2>2. Vouched' = Vouched /\ held' = held /\ mapping' = mapping
    BY <1>1, <2>1 DEF Vouched, store
  <2>3. Truth'
    BY <1>1, <2>1, <2>2 DEF RInv, Truth, TrueRun, Sure
  <2>4. Queued' \subseteq Queued
    BY <2>1 DEF Queued
  <2>5. \A h \in queue : h \in queue' \/ h.item \notin Queued'
    BY <2>1 DEF Queued
  <2> QED
    BY <1>1, <1>2, <1>3, <1>4, <2>1, <2>3, <2>4, <2>5, NoRunMoves
<1>6. ASSUME NEW s \in {"done", "failed"}, queue' = Reopened(s), Truth'
      PROVE  RInv'
  <2> DEFINE g(r) == Settled(r, IF r.md5 = None THEN "pending" ELSE "hashed")
             f == [r \in queue |-> IF r.state # s THEN r
                     ELSE [g(r) EXCEPT !.asset = IF s = "done" THEN None ELSE @]]
  <2>1. queue' = {f[r] : r \in queue}
    BY <1>6 DEF Reopened
  <2>2. ASSUME NEW r \in queue
        PROVE  /\ f[r].item = r.item
               /\ r.state # s => f[r] = r
               /\ Spotless(r) => Spotless(f[r])
    <3>1. CASE r.state # s
      BY <3>1
    <3>2. CASE r.state = s
      <4>0. r \in Row /\ r.asset \in Version \cup {None}
        BY DEF IInv, QueueOK, Row
      <4>1. PICK h \in Row : /\ h = g(r) /\ h.item = r.item /\ h.asset = r.asset
                              /\ h.md5 = r.md5 /\ h.attempts = 0 /\ h.state # "failed"
        BY <4>0, SettledTypes, SettledZero DEF State
      <4>2. PICK v \in Version \cup {None} : v = IF s = "done" THEN None ELSE h.asset
        BY <4>0, <4>1
      <4> DEFINE p == [h EXCEPT !.asset = v]
      <4>3. f[r] = p
        BY <3>2, <4>1, <4>2
      <4>4. /\ p.item = h.item /\ p.md5 = h.md5 /\ p.attempts = h.attempts
            /\ p.state = h.state
        BY <4>1, <4>2 DEF Row
      <4> HIDE DEF p, f
      <4> QED
        BY <3>2, <4>1, <4>3, <4>4 DEF Spotless
    <3> QED
      BY <3>1, <3>2
  <2> HIDE DEF f
  <2>3. Queued' \subseteq Queued
    BY <2>1, <2>2 DEF Queued
  <2>4. \A n \in Run : \A h \in Handled(n) : h \in queue => h \in queue'
    BY <2>1, <2>2, InHand DEF Retryable
  <2>5. Clean' => \A q \in queue' : Spotless(q)
    BY <1>3, <1>4, <2>1, <2>2
  <2> QED
    BY <1>1, <1>2, <1>3, <1>6, <2>3, <2>4, <2>5, NoRunMoves
<1>7. CASE RetryFailed
  <2>1. queue' = Reopened("failed") /\ suspect' = suspect
    BY <1>7 DEF RetryFailed
  <2>2. Vouched' = Vouched /\ held' = held /\ mapping' = mapping
    BY <1>1, <2>1 DEF Vouched, store
  <2>3. NoNewClaim
    BY <2>1, ReopenedQueue DEF IInv
  <2>4. Truth'
    BY <1>1, <2>2, <2>3 DEF RInv, Truth, TrueRun, Sure, NoNewClaim
  <2> QED
    BY <1>6, <2>1, <2>4
<1>8. CASE Recheck
  BY <1>6, <1>8, RecheckTruth DEF Recheck
<1> QED
  BY <1>5, <1>7, <1>8

\* ComesDue: the rows runs have in hand are due already.
LEMMA ComesDueKeeps ==
  ASSUME IInv, IInv', RInv, NEW r \in queue, ComesDue(r)
  PROVE  RInv'
<1>1. UNCHANGED <<photo, ticked, run, pairing, store, seen, left>> /\ ~r.due
  BY DEF ComesDue
<1>2. /\ Vouched' = Vouched /\ mapping' = mapping /\ held' = held /\ meddled' = meddled
      /\ (Clean' <=> Clean)
  BY <1>1 DEF Vouched, store, seen, Clean
<1> DEFINE f == [q \in queue |-> IF q.item = r.item THEN [q EXCEPT !.due = TRUE] ELSE q]
<1>3. queue' = {f[q] : q \in queue}
  BY DEF ComesDue, Update
<1>4. ASSUME NEW q \in queue
      PROVE  /\ f[q].item = q.item /\ f[q].state = q.state /\ f[q].asset = q.asset
             /\ f[q].md5 = q.md5 /\ f[q].attempts = q.attempts
             /\ q # r => f[q] = q
  <2>1. q \in Row /\ (q.item = r.item => q = r)
    BY DEF IInv, QueueOK
  <2> QED
    BY <2>1 DEF Row
<1> HIDE DEF f
<1>5. Queued' \subseteq Queued
  BY <1>3, <1>4 DEF Queued
<1>6. \A n \in Run : \A h \in Handled(n) : h \in queue => h \in queue'
  BY <1>1, <1>3, <1>4, InHand
<1>7. Truth'
  BY <1>1, <1>2, <1>3, <1>4 DEF RInv, Truth, TrueRun, Sure
<1>8. Clean' => \A q \in queue' : Spotless(q)
  BY <1>2, <1>3, <1>4 DEF RInv, Unspoilt, Spotless
<1>9. \A q \in queue' : q.state \in Retryable =>
        \E p \in queue : p.item = q.item /\ p.state \in Retryable
  BY <1>3, <1>4
<1>10. left'.faults <= MaxFaults /\ meddled \in BOOLEAN
  BY <1>1 DEF RInv, IInv, Plain
<1> QED
  BY <1>1, <1>2, <1>5, <1>6, <1>7, <1>8, <1>9, <1>10, NoRunMoves

\* A step of neither the queue nor a run.
LEMMA OthersMove ==
  ASSUME IInv, IInv', RInv, UNCHANGED <<queue, run, meddled>>, Clean' => Clean,
         left'.faults <= MaxFaults, Vouched \subseteq Vouched',
         \A i \in Item : mapping'[i].asset # None => <<i, mapping'[i].asset>> \in held'
  PROVE  RInv'
<1>1. Queued' = Queued
  BY DEF Queued
<1>2. Truth'
  <2>1. \A n \in Run : TrueRun(run'[n], Vouched')
    BY DEF RInv, Truth, TrueRun, Sure
  <2>2. \A r \in queue' : r.state = "done" => Sure(r.item, r.asset, Vouched')
    BY DEF RInv, Truth, Sure
  <2> QED
    BY <2>1, <2>2 DEF Truth, TrueRun, Sure
<1>3. Clean' => \A q \in queue' : Spotless(q)
  BY DEF RInv, Unspoilt
<1>4. meddled \in BOOLEAN
  BY DEF IInv, Plain
<1> QED
  BY <1>1, <1>2, <1>3, <1>4, NoRunMoves

\* What the archive does and the phone's owner does, short of the app being killed.
LEMMA WorldKeeps ==
  ASSUME IInv, IInv', RInv,
         \/ \E i \in Shared : Toggle(i)
         \/ Pair \/ Revoke
         \/ \E i \in Library : Edit(i)
         \/ \E c \in held : Purge(c) \/ Lose(c)
  PROVE  RInv'
<1>0. \A i \in Item : mapping[i].asset # None => <<i, mapping[i].asset>> \in held
  BY DEF RInv, Truth
<1>1. CASE (\E i \in Shared : Toggle(i)) \/ Revoke
  <2>1. UNCHANGED <<queue, run, photo, store, seen>>
        /\ \E k \in {"outages", "faults", "wishes", "upheavals"} : Spend(k)
    BY <1>1 DEF Toggle, Revoke
  <2> QED
    BY <2>1, StoreKept, OthersMove DEF StoreMove
<1>2. CASE Pair
  <2>1. /\ UNCHANGED <<queue, run, photo, held, purged, seen, left>>
        /\ mapping' = [i \in Item |-> NoMapping]
    BY <1>2 DEF Pair
  <2>2. \A i \in Item : mapping'[i].asset = None
    BY <2>1 DEF NoMapping
  <2> QED
    BY <2>1, <2>2, OthersMove DEF Vouched, seen, Clean, RInv
<1>3. ASSUME NEW i \in Library, Edit(i)
      PROVE  RInv'
  <2>1. UNCHANGED <<queue, run, store, seen, left>> /\ photo' = [photo EXCEPT ![i] = @ + 1]
    BY <1>3 DEF Edit
  <2>2. ~Clean'
    BY <2>1, BackupAssumption DEF Clean, IInv, Plain, Version
  <2> QED
    BY <1>0, <2>1, <2>2, OthersMove DEF Vouched, store, seen, RInv
<1>4. ASSUME NEW c \in held, Purge(c) \/ Lose(c)
      PROVE  RInv'
  <2>1. Gone(c) /\ Spend("upheavals") /\ meddled' = meddled
    BY <1>4 DEF Purge, Lose, seen
  <2>2. /\ held' = held \ {c} /\ queue' = queue /\ photo' = photo /\ run' = run
        /\ mapping' = [mapping EXCEPT ![c[1]] = IF @.asset = c[2] THEN NoMapping ELSE @]
    BY <2>1 DEF Gone
  <2>3. left'.faults = left.faults
    BY <2>1 DEF Spend, Bounds, IInv, Plain
  <2>4. Vouched \subseteq Vouched'
    <3>1. c \in purged' \cup suspect' /\ purged \subseteq purged' /\ suspect \subseteq suspect'
      BY <1>4 DEF Purge, Lose, seen
    <3> QED
      BY <2>2, <3>1 DEF Vouched
  <2>5. ASSUME NEW i \in Item, mapping'[i].asset # None
        PROVE  <<i, mapping'[i].asset>> \in held'
    <3>1. c \in Item \X Version /\ mapping \in [Item -> [asset : Version \cup {None}, modified : Version]]
      BY DEF IInv, Plain, Content
    <3>2. mapping'[i] = mapping[i] \/ mapping'[i] = NoMapping
      BY <2>2, <3>1
    <3>3. mapping'[i] = mapping[i]
      BY <2>5, <3>2 DEF NoMapping
    <3>4. i = c[1] => mapping[i].asset # c[2]
      <4> SUFFICES ASSUME i = c[1], mapping[i].asset = c[2]
                   PROVE  FALSE
        OBVIOUS
      <4>1. mapping'[i] = NoMapping
        BY <2>2, <3>1
      <4> QED
        BY <2>5, <4>1 DEF NoMapping
    <3>5. <<i, mapping[i].asset>> # c
      BY <3>1, <3>4
    <3> QED
      BY <1>0, <2>2, <2>5, <3>3, <3>5
  <2> QED
    BY <2>1, <2>2, <2>3, <2>4, <2>5, OthersMove DEF Clean, RInv
<1> QED
  BY <1>1, <1>2, <1>3, <1>4

\* Kill: every run is over, and nothing is left going.
LEMMA KillKeeps ==
  ASSUME IInv, IInv', RInv, Kill
  PROVE  RInv'
<1>1. /\ run' = [n \in Run |-> IF run[n].pc = "idle" THEN run[n] ELSE Over]
      /\ UNCHANGED <<queue, photo, store, seen>> /\ Spend("upheavals")
  BY DEF Kill
<1>2. StoreMove /\ Vouched' = Vouched
  BY <1>1, StoreKept
<1>3. ASSUME NEW n \in Run
      PROVE  /\ Shaped(run'[n]) /\ HandledOf(run'[n]) = {} /\ ~Engaged(run'[n])
             /\ SpotlessRun(run'[n]) /\ TrueRun(run'[n], Vouched')
  <2>1. CASE run[n].pc = "idle"
    <3>1. run'[n] = run[n]
      BY <1>1, <2>1
    <3>2. /\ run[n].todo = {} /\ run[n].hashing = {} /\ run[n].crew = {} /\ ~run[n].refused
          /\ run[n].batch = {}
      BY <2>1, RunFacts, RunTypes
    <3> QED
      BY <2>1, <3>1, <3>2, EmptyHands DEF Engaged
  <2>2. CASE run[n].pc # "idle"
    BY <1>1, <2>2, OverHands
  <2> QED
    BY <2>1, <2>2
<1>4. Alone' /\ Ticked' /\ Fresh'
  BY <1>3 DEF Alone, Ticked, Fresh, Running, Engaged, Handled, HandledOf
<1>5. Unspoilt'
  <2>1. \A n \in Run : SpotlessRun(run'[n])
    BY <1>3
  <2>2. Clean' => \A q \in queue' : Spotless(q)
    BY <1>1, <1>2 DEF StoreMove, RInv, Unspoilt
  <2> QED
    BY <2>1, <2>2 DEF Unspoilt, Spotless, SpotlessRun, HandledOf
<1>6. Truth'
  <2>1. \A q \in queue' : q.state = "done" => Sure(q.item, q.asset, Vouched')
    BY <1>1, <1>2 DEF RInv, Truth
  <2> QED
    BY <1>2, <1>3, <2>1 DEF Truth, StoreMove, TrueRun, Sure
<1> QED
  BY <1>2, <1>3, <1>4, <1>5, <1>6 DEF RInv, StoreMove, Shaped, HandledOf

-----------------------------------------------------------------------------
(* The theorems.                                                           *)

\* Initially no run has begun and nothing is queued.
LEMMA RunsInitially ==
  ASSUME Init
  PROVE  RInv
<1>1. \A n \in Run : run[n] = NoRun
  BY DEF Init
<1>2. Shaped(NoRun) /\ HandledOf(NoRun) = {} /\ SpotlessRun(NoRun) /\ ~Engaged(NoRun)
      /\ \A K : TrueRun(NoRun, K)
  <2>1. /\ NoRun.pc = "idle" /\ NoRun.todo = {} /\ NoRun.hashing = {} /\ NoRun.crew = {}
        /\ NoRun.batch = {} /\ NoRun.refused = FALSE
    BY DEF NoRun
  <2> QED
    BY <2>1, EmptyHands DEF Engaged
<1>3. Alone /\ Fresh /\ Ticked
  BY <1>1, <1>2, HandledIs DEF Alone, Fresh, Ticked
<1>4. Unspoilt /\ Truth
  BY <1>1, <1>2 DEF Init, Unspoilt, Truth, NoMapping
<1>5. left.faults <= MaxFaults
  BY BackupAssumption DEF Init
<1> QED
  BY <1>1, <1>2, <1>3, <1>4, <1>5 DEF RInv

\* Every step keeps it.
LEMMA EveryStepKeeps ==
  ASSUME IInv, IInv', RInv, [Next]_vars
  PROVE  RInv'
<1>1. ASSUME NEW n \in Run, Progress(n)
      PROVE  RInv'
  <2>1. ASSUME NEW u \in run[n].crew, Upload(n, u)
        PROVE  RInv'
    <3>1. Refused(n, u) => RInv'
      BY FailedKeeps DEF Kind
    <3> QED
      BY <2>1, <3>1, OpenKeeps, DeliverKeeps, AckedKeeps, DeniedKeeps DEF Upload
  <2> QED
    BY <1>1, <2>1, EnumerateKeeps, IdleKeeps, CheckRoundKeeps, AnswerCheckKeeps,
       CheckRefusedKeeps, ApplyKeeps, WorkKeeps, HashKeeps, HashStopsKeeps, EndWorkKeeps
       DEF Progress
<1>2. ASSUME NEW n \in Run, Trouble(n)
      PROVE  RInv'
  <2>1. ASSUME NEW u \in run[n].crew, OpenFails(n, u)
        PROVE  RInv'
    BY <2>1, FailedKeeps DEF Kind
  <2> QED
    BY <1>2, <2>1, CheckFailsKeeps, FailedKeeps DEF Trouble
<1>3. CASE Screen
  BY <1>3, StartKeeps, IdleKeeps, ButtonsKeep, WorldKeeps DEF Screen
<1>4. CASE World
  BY <1>4, ComesDueKeeps, WorldKeeps, KillKeeps DEF World
<1>5. CASE UNCHANGED vars
  <2>1. UNCHANGED <<queue, photo, run, store, seen, left>>
    BY <1>5 DEF vars
  <2> QED
    BY <2>1, StoreKept, OthersMove DEF StoreMove, seen
<1> QED
  BY <1>1, <1>2, <1>3, <1>4, <1>5 DEF Next

\* Both invariants hold of every behaviour.
LEMMA RunsInvariant == Spec => [](IInv /\ RInv)
<1>1. Init => IInv /\ RInv
  BY Initially, RunsInitially
<1>2. IInv /\ RInv /\ [Next]_vars => (IInv /\ RInv)'
  BY EveryStep, EveryStepKeeps
<1> QED
  BY <1>1, <1>2, PTL DEF Spec

\* A row is wrong about the archive only where the archive lost the content since the
\* row was settled against it, or since it gave the answer the row was settled from.
THEOREM DoneIsTrueCorrect == Spec => []DoneIsTrue
<1>1. RInv => DoneIsTrue
  BY DEF RInv, Truth, DoneIsTrue, Sure, Vouched
<1> QED
  BY <1>1, RunsInvariant, PTL

\* No attempt is spent, and no row given up, until an item or an answer was at fault
\* (backoff.ts): however many requests reached nobody and tokens were refused.
THEOREM OutageCostsNothingCorrect == Spec => []OutageCostsNothing
<1>1. RInv => OutageCostsNothing
  BY DEF RInv, Unspoilt, Clean, Spotless, OutageCostsNothing
<1> QED
  BY <1>1, RunsInvariant, PTL

\* A run fetches no shared photograph but of the albums it was started with, unless
\* rows were reopened under it (background/run.ts).
THEOREM OnlyTickedIsFetchedCorrect == Spec => []OnlyTickedIsFetched
<1>1. IInv /\ RInv => OnlyTickedIsFetched
  <2> SUFFICES ASSUME IInv, RInv, NEW n \in Run, Running(n), ~meddled,
                      NEW r \in Handled(n), r.item \in Shared
               PROVE  r.item \in run[n].albums
    BY DEF OnlyTickedIsFetched
  <2>1. CASE run[n].pc = "enumerate"
    <3>1. HandledOf(run[n]) = {}
      BY <2>1, RunFacts, RunTypes DEF HandledOf
    <3> QED
      BY <3>1, HandledIs
  <2>2. CASE run[n].pc # "enumerate"
    BY <2>2 DEF RInv, Ticked, TickedBy
  <2> QED
    BY <2>1, <2>2
<1> QED
  BY <1>1, RunsInvariant, PTL

\* The row a run works from is the row in the queue, or has been deleted, unless an
\* earlier run unwound and left an upload writing (exclusive.ts).
THEOREM NoStaleRowCorrect == Spec => []NoStaleRow
<1>1. RInv => NoStaleRow
  BY DEF RInv, Fresh, NoStray, Current, Queued, NoStaleRow
<1> QED
  BY <1>1, RunsInvariant, PTL
=============================================================================
