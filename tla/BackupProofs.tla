---------------------------- MODULE BackupProofs ----------------------------
(***************************************************************************)
(* What is proved of Backup, for every library, any number of runs and any *)
(* bounds: its types, that a row is done only of what the archive has had, *)
(* and that the phone keeps the promise Custody states.  The argument is   *)
(* one inductive invariant, IInv: besides the types, that what a run has   *)
(* been told and has not written yet (an answer of sync/check, an upload   *)
(* acknowledged) is true when it arrives, and that it stays true however   *)
(* late it is written, because what the archive has had and what it has    *)
(* purged only grow.                                                       *)
(***************************************************************************)
EXTENDS Backup, TLAPS

-----------------------------------------------------------------------------
(* Rows, and the statements of the queue.                                  *)

\* A row settled in a state is a row of its item, with its digest and its asset.
LEMMA SettledTypes ==
  ASSUME NEW r \in Row, NEW s \in State
  PROVE  /\ Settled(r, s) \in Row
         /\ Settled(r, s).item = r.item /\ Settled(r, s).state = s
         /\ Settled(r, s).asset = r.asset /\ Settled(r, s).md5 = r.md5
  BY DEF Settled, Row

\* Naming the content a row stands for, or forgetting it, disturbs nothing else.
LEMMA NamedTypes ==
  ASSUME NEW r \in Row, NEW v \in Version \cup {None}
  PROVE  /\ [r EXCEPT !.asset = v] \in Row /\ [r EXCEPT !.md5 = v] \in Row
         /\ [r EXCEPT !.asset = v].item = r.item /\ [r EXCEPT !.md5 = v].item = r.item
         /\ [r EXCEPT !.asset = v].state = r.state /\ [r EXCEPT !.md5 = v].state = r.state
         /\ [r EXCEPT !.asset = v].asset = v /\ [r EXCEPT !.md5 = v].asset = r.asset
  BY DEF Row

\* A row charged for a failure is a row of its item, in its state or parked.
LEMMA PenalizedTypes ==
  ASSUME NEW r \in Row, NEW a \in Nat
  PROVE  /\ Penalized(r, a) \in Row
         /\ Penalized(r, a).item = r.item
         /\ Penalized(r, a).asset = r.asset
         /\ Penalized(r, a).state \in {r.state, "failed"}
<1>2. MaxAttempts \in Nat /\ a \in Nat /\ (a >= MaxAttempts \/ a < MaxAttempts)
  BY BackupAssumption
<1>3. /\ Penalized(r, a) \in Row
      /\ Penalized(r, a).attempts = a
      /\ Penalized(r, a).state = IF a >= MaxAttempts THEN "failed" ELSE r.state
  <2>1. CASE a >= MaxAttempts
    <3>1. Penalized(r, a) = [r EXCEPT !.attempts = a, !.due = TRUE, !.state = "failed"]
      BY <2>1 DEF Penalized
    <3> QED
      BY <2>1, <3>1 DEF Row, State
  <2>2. CASE ~(a >= MaxAttempts)
    <3>1. Penalized(r, a) = [r EXCEPT !.attempts = a, !.due = FALSE, !.state = r.state]
      <4>1. (a >= MaxAttempts) = FALSE
        BY <1>2, <2>2
      <4> QED
        BY <4>1, Zenon DEF Penalized
    <3> QED
      BY <2>2, <3>1 DEF Row, State
  <2> QED
    BY <2>1, <2>2
<1> QED
  BY <1>3 DEF Penalized, Row

\* A row a run was handed is a row, and one more attempt of it is a number.
LEMMA LiveTypes ==
  ASSUME NEW b \in Live
  PROVE  b \in Row /\ b.item \in Item /\ b.attempts + 1 \in Nat
  BY DEF Live, Row

QueueOK == queue \subseteq Row /\ \A r, q \in queue : r.item = q.item => r = q

\* No row claims what none claimed before.
NoNewClaim ==
  \A q \in queue' : q.state = "done" =>
    \E r \in queue : r.state = "done" /\ r.item = q.item /\ r.asset = q.asset

\* Rewriting rows one by one, each as a row of its item, keeps the queue a queue.
LEMMA Rewritten ==
  ASSUME QueueOK, NEW f,
         \A r \in queue : f[r] \in Row /\ f[r].item = r.item,
         queue' = {f[r] : r \in queue}
  PROVE  QueueOK'
  BY DEF QueueOK

\* A row rewritten, as a row of its item, in a state that is not done or as it was.
LEMMA Unclaimed ==
  ASSUME QueueOK, NEW f,
         \A r \in queue :
           /\ f[r] \in Row /\ f[r].item = r.item
           /\ f[r].state = "done" => r.state = "done" /\ f[r].asset = r.asset,
         queue' = {f[r] : r \in queue}
  PROVE  QueueOK' /\ NoNewClaim
<1>1. QueueOK'
  BY Rewritten
<1>2. NoNewClaim
  BY DEF QueueOK, NoNewClaim
<1> QED
  BY <1>1, <1>2

\* Penalize keeps the queue a queue, and makes no claim.
LEMMA PenalizeQueue ==
  ASSUME QueueOK, NEW b \in Live, Penalize(b)
  PROVE  QueueOK' /\ NoNewClaim
<1> DEFINE f == [r \in queue |-> IF r.item = b.item THEN Penalized(r, b.attempts + 1) ELSE r]
<1>1. queue' = {f[r] : r \in queue}
  BY DEF Penalize, Update
<1>2. \A r \in queue :
        /\ f[r] \in Row /\ f[r].item = r.item
        /\ f[r].state = "done" => r.state = "done" /\ f[r].asset = r.asset
  BY PenalizedTypes, LiveTypes DEF QueueOK
<1> HIDE DEF f
<1> QED
  BY <1>1, <1>2, Unclaimed

\* So does charging a whole batch, whatever went wrong.
LEMMA ChargeQueue ==
  ASSUME QueueOK, NEW B \in SUBSET Live, NEW kind, Charge(kind, B)
  PROVE  QueueOK' /\ NoNewClaim
<1> DEFINE of(r) == {b \in B : b.item = r.item}
           f == [r \in queue |-> IF kind = "unreachable" \/ of(r) = {} THEN r
                   ELSE Penalized(r, (CHOOSE b \in of(r) : TRUE).attempts + 1)]
<1>1. queue' = {f[r] : r \in queue}
  BY DEF Charge
<1>2. ASSUME NEW r \in queue
      PROVE  /\ f[r] \in Row /\ f[r].item = r.item
             /\ f[r].state = "done" => r.state = "done" /\ f[r].asset = r.asset
  <2>1. r \in Row
    BY DEF QueueOK
  <2>2. CASE kind = "unreachable" \/ of(r) = {}
    BY <2>1, <2>2
  <2>3. CASE ~(kind = "unreachable" \/ of(r) = {})
    <3> DEFINE b == CHOOSE b \in of(r) : TRUE
    <3>1. b \in Live
      BY <2>3
    <3>2. f[r] = Penalized(r, b.attempts + 1)
      BY <2>3
    <3>3. b.attempts + 1 \in Nat
      BY <3>1, LiveTypes
    <3> HIDE DEF b, f
    <3> QED
      BY <2>1, <3>2, <3>3, PenalizedTypes
  <2> QED
    BY <2>2, <2>3
<1> HIDE DEF f
<1> QED
  BY <1>1, <1>2, Unclaimed

\* So do the buttons that reopen rows: a claim is withdrawn with its state.
LEMMA ReopenedQueue ==
  ASSUME QueueOK, NEW s \in {"done", "failed"}, queue' = Reopened(s)
  PROVE  QueueOK' /\ NoNewClaim
<1> DEFINE g(r) == Settled(r, IF r.md5 = None THEN "pending" ELSE "hashed")
           f == [r \in queue |-> IF r.state # s THEN r
                   ELSE [g(r) EXCEPT !.asset = IF s = "done" THEN None ELSE @]]
<1>1. queue' = {f[r] : r \in queue}
  BY DEF Reopened
<1>2. ASSUME NEW r \in queue
      PROVE  /\ f[r] \in Row /\ f[r].item = r.item
             /\ f[r].state = "done" => r.state = "done" /\ f[r].asset = r.asset
  <2>1. r \in Row /\ r.asset \in Version \cup {None}
    BY DEF QueueOK, Row
  <2>2. CASE r.state # s
    BY <2>1, <2>2
  <2>3. CASE r.state = s
    <3>1. PICK h \in Row : /\ h = g(r) /\ h.item = r.item
                            /\ h.state # "done" /\ h.asset = r.asset
      BY <2>1, SettledTypes DEF State
    <3>2. f[r] = [h EXCEPT !.asset = IF s = "done" THEN None ELSE h.asset]
      BY <2>3, <3>1
    <3>3. PICK v \in Version \cup {None} : v = IF s = "done" THEN None ELSE h.asset
      BY <2>1, <3>1
    <3> HIDE DEF f, g
    <3>4. f[r] = [h EXCEPT !.asset = v]
      BY <3>2, <3>3
    <3>5. /\ [h EXCEPT !.asset = v] \in Row /\ [h EXCEPT !.asset = v].item = h.item
          /\ [h EXCEPT !.asset = v].state = h.state
      BY <3>1, <3>3, NamedTypes
    <3> QED
      BY <3>1, <3>4, <3>5
  <2> QED
    BY <2>2, <2>3
<1> HIDE DEF f
<1> QED
  BY <1>1, <1>2, Unclaimed

\* A row is added for an item that has none, and rows are taken out.
LEMMA EnqueueQueue ==
  ASSUME QueueOK, photo \in [Library -> Version], NEW offered \in SUBSET Item,
         queue' = PruneShared(Enqueued(offered), offered)
  PROVE  QueueOK' /\ NoNewClaim
<1>1. \A i \in Item : NewRow(i) \in Row /\ NewRow(i).item = i /\ NewRow(i).state = "pending"
  <2> SUFFICES ASSUME NEW i \in Item
               PROVE  NewRow(i) \in Row /\ NewRow(i).item = i /\ NewRow(i).state = "pending"
    OBVIOUS
  <2>1. 0 \in Version
    BY BackupAssumption DEF Version
  <2>2. Latest(i) \in Version
    BY <2>1 DEF Latest
  <2> QED
    BY <2>2 DEF NewRow, Row, State
<1>2. \A q \in queue' : q \in queue \/ \E i \in offered : /\ q = NewRow(i)
                                                         /\ i \notin {r.item : r \in queue}
  BY DEF PruneShared, Enqueued
<1> QED
  BY <1>1, <1>2 DEF QueueOK, NoNewClaim

\* The only row that may claim what none claimed before is the row of item i, and
\* it claims v.
OnlyClaim(i, v) ==
  \A q \in queue' : q.state = "done" =>
    \/ \E r \in queue : r.state = "done" /\ r.item = q.item /\ r.asset = q.asset
    \/ q.item = i /\ q.asset = v

\* A row rewritten, as a row of its item, that may become a claim of v.
LEMMA Claimed ==
  ASSUME QueueOK, NEW i, NEW v, NEW f,
         \A r \in queue :
           /\ f[r] \in Row /\ f[r].item = r.item
           /\ f[r] = r \/ (r.item = i /\ (f[r].state = "done" => f[r].asset = v)),
         queue' = {f[r] : r \in queue}
  PROVE  QueueOK' /\ OnlyClaim(i, v)
<1>1. QueueOK'
  BY Rewritten
<1>2. OnlyClaim(i, v)
  BY DEF QueueOK, OnlyClaim
<1> QED
  BY <1>1, <1>2

\* A row settled short of done, with a digest or without.
LEMMA SettleMd5Queue ==
  ASSUME QueueOK, NEW i, NEW v \in Version \cup {None}, NEW s \in State \ {"done"},
         Update(i, LAMBDA r : [Settled(r, s) EXCEPT !.md5 = v])
  PROVE  QueueOK' /\ NoNewClaim
<1> DEFINE f == [r \in queue |-> IF r.item = i THEN [Settled(r, s) EXCEPT !.md5 = v] ELSE r]
<1>1. queue' = {f[r] : r \in queue}
  BY DEF Update
<1>2. ASSUME NEW r \in queue
      PROVE  /\ f[r] \in Row /\ f[r].item = r.item
             /\ f[r].state = "done" => r.state = "done" /\ f[r].asset = r.asset
  <2>1. r \in Row
    BY DEF QueueOK
  <2>2. PICK h \in Row : /\ h = Settled(r, s) /\ h.item = r.item /\ h.state = s
    BY <2>1, SettledTypes
  <2>3. /\ [h EXCEPT !.md5 = v] \in Row /\ [h EXCEPT !.md5 = v].item = h.item
        /\ [h EXCEPT !.md5 = v].state = h.state
    BY <2>2, NamedTypes
  <2>4. f[r] = [h EXCEPT !.md5 = v] \/ f[r] = r
    BY <2>2
  <2> HIDE DEF f
  <2> QED
    BY <2>1, <2>2, <2>3, <2>4
<1> HIDE DEF f
<1> QED
  BY <1>1, <1>2, Unclaimed

\* A row settled short of done.
LEMMA SettleQueue ==
  ASSUME QueueOK, NEW i, NEW s \in State \ {"done"},
         Update(i, LAMBDA r : Settled(r, s))
  PROVE  QueueOK' /\ NoNewClaim
<1> DEFINE f == [r \in queue |-> IF r.item = i THEN Settled(r, s) ELSE r]
<1>1. queue' = {f[r] : r \in queue}
  BY DEF Update
<1>2. ASSUME NEW r \in queue
      PROVE  /\ f[r] \in Row /\ f[r].item = r.item
             /\ f[r].state = "done" => r.state = "done" /\ f[r].asset = r.asset
  BY SettledTypes DEF QueueOK
<1> HIDE DEF f
<1> QED
  BY <1>1, <1>2, Unclaimed

\* A row that sync/check says is in the archive claims what it was told.
LEMMA SettleDoneQueue ==
  ASSUME QueueOK, NEW i, NEW v \in Version \cup {None},
         Update(i, LAMBDA r : [Settled(r, "done") EXCEPT !.asset = v])
  PROVE  QueueOK' /\ OnlyClaim(i, v)
<1> DEFINE f == [r \in queue |-> IF r.item = i
                   THEN [Settled(r, "done") EXCEPT !.asset = v] ELSE r]
<1>1. queue' = {f[r] : r \in queue}
  BY DEF Update
<1>2. ASSUME NEW r \in queue
      PROVE  /\ f[r] \in Row /\ f[r].item = r.item
             /\ f[r] = r \/ (r.item = i /\ (f[r].state = "done" => f[r].asset = v))
  <2>1. r \in Row
    BY DEF QueueOK
  <2>2. PICK h \in Row : h = Settled(r, "done") /\ h.item = r.item
    BY <2>1, SettledTypes DEF State
  <2>3. /\ [h EXCEPT !.asset = v] \in Row /\ [h EXCEPT !.asset = v].item = h.item
        /\ [h EXCEPT !.asset = v].asset = v
    BY <2>2, NamedTypes
  <2>4. (r.item = i /\ f[r] = [h EXCEPT !.asset = v]) \/ f[r] = r
    BY <2>2
  <2> HIDE DEF f
  <2> QED
    BY <2>1, <2>2, <2>3, <2>4
<1> HIDE DEF f
<1> QED
  BY <1>1, <1>2, Claimed

\* A row acknowledged claims what was sent.
LEMMA AckQueue ==
  ASSUME QueueOK, NEW i, NEW v \in Version,
         Update(i, LAMBDA r : [Settled(r, "done") EXCEPT !.asset = v, !.md5 = v])
  PROVE  QueueOK' /\ OnlyClaim(i, v)
<1> DEFINE f == [r \in queue |-> IF r.item = i
                   THEN [Settled(r, "done") EXCEPT !.asset = v, !.md5 = v] ELSE r]
<1>1. queue' = {f[r] : r \in queue}
  BY DEF Update
<1>2. ASSUME NEW r \in queue
      PROVE  /\ f[r] \in Row /\ f[r].item = r.item
             /\ f[r] = r \/ (r.item = i /\ (f[r].state = "done" => f[r].asset = v))
  <2>1. r \in Row
    BY DEF QueueOK
  <2>2. PICK h \in Row : h = Settled(r, "done") /\ h.item = r.item
    BY <2>1, SettledTypes DEF State
  <2>0. v \in Version \cup {None}
    OBVIOUS
  <2>3. PICK k \in Row : k = [h EXCEPT !.asset = v] /\ k.item = h.item /\ k.asset = v
    BY <2>0, <2>2, NamedTypes
  <2>4. /\ [k EXCEPT !.md5 = v] \in Row /\ [k EXCEPT !.md5 = v].item = k.item
        /\ [k EXCEPT !.md5 = v].asset = k.asset
    BY <2>0, <2>3, NamedTypes
  <2>5. (r.item = i /\ f[r] = [k EXCEPT !.md5 = v]) \/ f[r] = r
    BY <2>2, <2>3
  <2> HIDE DEF f
  <2> QED
    BY <2>1, <2>2, <2>3, <2>4, <2>5
<1> HIDE DEF f
<1> QED
  BY <1>1, <1>2, Claimed

\* A row made due again, or sent back to be hashed, is otherwise the row it was.
LEMMA DueQueue ==
  ASSUME QueueOK, NEW i, Update(i, LAMBDA r : [r EXCEPT !.due = TRUE])
  PROVE  QueueOK' /\ NoNewClaim
<1> DEFINE f == [r \in queue |-> IF r.item = i THEN [r EXCEPT !.due = TRUE] ELSE r]
<1>1. queue' = {f[r] : r \in queue}
  BY DEF Update
<1>2. ASSUME NEW r \in queue
      PROVE  /\ f[r] \in Row /\ f[r].item = r.item
             /\ f[r].state = "done" => r.state = "done" /\ f[r].asset = r.asset
  <2>1. r \in Row
    BY DEF QueueOK
  <2>2. /\ [r EXCEPT !.due = TRUE] \in Row
        /\ [r EXCEPT !.due = TRUE].item = r.item
        /\ [r EXCEPT !.due = TRUE].state = r.state
        /\ [r EXCEPT !.due = TRUE].asset = r.asset
    BY <2>1 DEF Row
  <2> QED
    BY <2>1, <2>2
<1> HIDE DEF f
<1> QED
  BY <1>1, <1>2, Unclaimed

\* A row without a digest sent back to be hashed keeps its attempts.
LEMMA UnhashedQueue ==
  ASSUME QueueOK, NEW i,
         Update(i, LAMBDA r : [r EXCEPT !.state = "unknown", !.due = TRUE])
  PROVE  QueueOK' /\ NoNewClaim
<1> DEFINE f == [r \in queue |-> IF r.item = i
                   THEN [r EXCEPT !.state = "unknown", !.due = TRUE] ELSE r]
<1>1. queue' = {f[r] : r \in queue}
  BY DEF Update
<1>2. ASSUME NEW r \in queue
      PROVE  /\ f[r] \in Row /\ f[r].item = r.item
             /\ f[r].state = "done" => r.state = "done" /\ f[r].asset = r.asset
  <2>1. r \in Row
    BY DEF QueueOK
  <2>2. /\ [r EXCEPT !.state = "unknown", !.due = TRUE] \in Row
        /\ [r EXCEPT !.state = "unknown", !.due = TRUE].item = r.item
        /\ [r EXCEPT !.state = "unknown", !.due = TRUE].state = "unknown"
    BY <2>1 DEF Row, State
  <2> QED
    BY <2>1, <2>2
<1> HIDE DEF f
<1> QED
  BY <1>1, <1>2, Unclaimed

-----------------------------------------------------------------------------
(* The inductive invariant.                                                *)

\* What a claim about item i rests on.
Backed(i, v, E, P) == IF v # None THEN <<i, v>> \in E ELSE \E w \in Version : <<i, w>> \in P

\* A run has its type, and what it has been told and not yet written is true: an
\* upload acked is of a content that was kept, an answer to apply is Backed.
Good(x, E, P) ==
  /\ x \in RunState
  /\ x.batch \subseteq IF x.pc = "check" THEN Live
                       ELSE IF x.pc = "apply" THEN Answered ELSE {}
  /\ \A u \in x.crew : u.stage = "acked" => <<u.row.item, u.md5>> \in E
  /\ x.pc = "apply" => \A a \in x.batch :
       a.answer.status = "have" => Backed(a.row.item, a.answer.asset, E, P)

Runs == run \in [Run -> RunState] /\ \A n \in Run : Good(run[n], ever, purged)

Bounds == [{"outages", "faults", "wishes", "upheavals"} -> Nat]

Plain ==
  /\ photo \in [Library -> Version] /\ ticked \subseteq Shared
  /\ pairing \in [device : Nat, paired : BOOLEAN, good : BOOLEAN]
  /\ held \subseteq Content /\ purged \subseteq Content
  /\ mapping \in [Item -> [asset : Version \cup {None}, modified : Version]]
  /\ ever \subseteq Content /\ suspect \subseteq Content /\ meddled \in BOOLEAN
  /\ left \in Bounds

\* What the archive has it has had, and it maps an item only to what it has had.
Archived ==
  /\ held \subseteq ever
  /\ \A i \in Item : mapping[i] = NoMapping \/ <<i, mapping[i].asset>> \in ever

Claims == \A r \in queue : r.state = "done" => Backed(r.item, r.asset, ever, purged)

IInv == QueueOK /\ Plain /\ Runs /\ Archived /\ Claims

OwnerStep == Owner!Next \/ UNCHANGED <<ever, claimed>>

\* What a run has been told stays true as the archive goes on.
LEMMA GoodGrows ==
  ASSUME NEW x, NEW E, NEW P, NEW F, NEW Q, Good(x, E, P), E \subseteq F, P \subseteq Q
  PROVE  Good(x, F, Q)
  BY DEF Good, Backed

\* So it does for a run that has forgotten some of it.
LEMMA StillGood ==
  ASSUME NEW x, NEW y, NEW E, NEW P, Good(x, E, P), y \in RunState, y.crew \subseteq x.crew,
         y.batch = {} \/ (y.batch \subseteq x.batch /\ y.pc = x.pc)
  PROVE  Good(y, E, P)
  BY DEF Good

\* A step of one run.
LEMMA RunsMove ==
  ASSUME Runs, ever \subseteq ever', purged \subseteq purged',
         NEW n \in Run, NEW x, Good(x, ever', purged'),
         run' = [run EXCEPT ![n] = x]
  PROVE  Runs'
<1>1. x \in RunState
  BY DEF Good
<1>2. run' \in [Run -> RunState]
  BY <1>1 DEF Runs
<1>3. ASSUME NEW m \in Run
      PROVE  Good(run'[m], ever', purged')
  <2>1. run'[m] = IF m = n THEN x ELSE run[m]
    BY DEF Runs
  <2>2. Good(run[m], ever', purged')
    BY GoodGrows DEF Runs
  <2> QED
    BY <2>1, <2>2
<1> QED
  BY <1>2, <1>3 DEF Runs

\* A step of none.
LEMMA RunsStay ==
  ASSUME Runs, ever \subseteq ever', purged \subseteq purged', run' = run
  PROVE  Runs'
  BY GoodGrows DEF Runs

\* A step on the queue after which no row claims anything new.
LEMMA QueueMoves ==
  ASSUME IInv, store' = store, ever' = ever, Plain', Runs', QueueOK', NoNewClaim
  PROVE  IInv' /\ OwnerStep
<1>1. Archived'
  BY DEF IInv, Archived, store
<1>2. Claims'
  BY DEF IInv, Claims, NoNewClaim, Backed, store
<1>3. claimed' \subseteq claimed
  BY DEF claimed, NoNewClaim
<1>4. Owner!Withdraw
  BY <1>3 DEF Owner!Withdraw, claimed
<1> QED
  BY <1>1, <1>2, <1>4 DEF IInv, OwnerStep, Owner!Next

\* A step on the queue after which the row of one item claims what it rests on.
LEMMA QueueClaims ==
  ASSUME IInv, store' = store, ever' = ever, Plain', Runs', QueueOK',
         NEW i \in Item, NEW v, Backed(i, v, ever, purged), OnlyClaim(i, v)
  PROVE  IInv' /\ OwnerStep
<1>1. Archived'
  BY DEF IInv, Archived, store
<1>2. Claims'
  BY DEF IInv, Claims, OnlyClaim, Backed, store
<1>3. claimed' \subseteq claimed \cup {c \in {<<i, v>>} : v # None}
  BY DEF claimed, OnlyClaim
<1>4. OwnerStep
  <2>1. CASE v = None
    <3>1. Owner!Withdraw
      BY <1>3, <2>1 DEF Owner!Withdraw, claimed
    <3> QED
      BY <3>1 DEF OwnerStep, Owner!Next
  <2>2. CASE v # None
    <3>1. <<i, v>> \in ever /\ ever \subseteq Content
      BY <2>2 DEF Backed, IInv, Plain
    <3>2. Owner!Claim(<<i, v>>)
      BY <1>3, <3>1 DEF Owner!Claim, claimed
    <3> QED
      BY <3>1, <3>2 DEF OwnerStep, Owner!Next
  <2> QED
    BY <2>1, <2>2
<1> QED
  BY <1>1, <1>2, <1>4 DEF IInv

\* A step of the archive.
LEMMA ArchiveMoves ==
  ASSUME IInv, queue' = queue, ever \subseteq ever', purged \subseteq purged',
         Plain', Runs', Archived'
  PROVE  IInv' /\ OwnerStep
<1>1. QueueOK'
  BY DEF IInv, QueueOK
<1>2. Claims'
  BY DEF IInv, Claims, Backed
<1>3. claimed' = claimed
  BY DEF claimed
<1>4. PICK S \in SUBSET Content : S = ever'
  BY DEF Plain
<1>5. Owner!Keep(S)
  BY <1>3, <1>4 DEF Owner!Keep, claimed
<1>6. OwnerStep
  BY <1>4, <1>5 DEF OwnerStep, Owner!Next
<1> QED
  BY <1>1, <1>2, <1>6 DEF IInv

\* The queue left alone makes no claim.
LEMMA QueueStays ==
  ASSUME QueueOK, queue' = queue
  PROVE  QueueOK' /\ NoNewClaim
  BY DEF QueueOK, NoNewClaim

\* A step of one run, and of nothing else but the bounds.
LEMMA RunMoves ==
  ASSUME IInv, UNCHANGED <<queue, photo, ticked, pairing, store, seen>>, left' \in Bounds,
         NEW n \in Run, NEW x, Good(x, ever, purged), run' = [run EXCEPT ![n] = x]
  PROVE  IInv' /\ OwnerStep
<1>1. ever' = ever /\ purged' = purged /\ store' = store
  BY DEF store, seen
<1>2. Plain'
  BY DEF IInv, Plain, store, seen
<1>3. Runs'
  BY <1>1, RunsMove DEF IInv
<1> QED
  BY <1>1, <1>2, <1>3, QueueStays, QueueMoves DEF IInv

\* A bound spent from is still a number.
LEMMA SpendTypes ==
  ASSUME left \in Bounds, NEW kind \in {"outages", "faults", "wishes", "upheavals"},
         Spend(kind)
  PROVE  left' \in Bounds
  BY DEF Spend, Bounds

-----------------------------------------------------------------------------
(* One lemma an action.                                                    *)

\* What the invariant says of one run, and of the rows it may take.
LEMMA RunTypes ==
  ASSUME IInv, NEW n \in Run
  PROVE  /\ Good(run[n], ever, purged) /\ run[n] \in RunState /\ left \in Bounds
         /\ \A s \in Retryable : Due(s) \subseteq Live
         /\ run[n].pc \notin {"check", "apply"} => run[n].batch = {}
  BY DEF IInv, Runs, Good, Plain, QueueOK, Due, Live

\* A batch is taken from what is due.
LEMMA UpToIn ==
  ASSUME NEW k, NEW S, NEW B \in UpTo(k, S)
  PROVE  B \subseteq S
  BY DEF UpTo

\* A worker begins by opening.
LEMMA TakenTypes ==
  ASSUME NEW r \in Live
  PROVE  Taken(r) \in Uploading /\ Taken(r).stage = "open"
  BY DEF Taken, Uploading

\* A run that is over holds nothing.
LEMMA OverGood ==
  ASSUME NEW E, NEW P
  PROVE  Good(Over, E, P)
  BY DEF Good, Over, NoRun, RunState

\* Start: the run begins with nothing in hand.
LEMMA StartStep ==
  ASSUME IInv, NEW n \in Run, NEW who \in {"foreground", "background"}, Start(n, who)
  PROVE  IInv' /\ OwnerStep
<1> DEFINE x == [run[n] EXCEPT !.pc = "enumerate", !.who = who,
                               !.device = pairing.device, !.albums = ticked]
<1>1. run' = [run EXCEPT ![n] = x]
  BY DEF Start, IInv, Runs
<1>2. Good(x, ever, purged)
  <2>1. Good(run[n], ever, purged) /\ run[n] \in RunState
         /\ run[n].batch = {} /\ pairing.device \in Nat /\ ticked \subseteq Shared
    BY RunTypes DEF Start, IInv, Plain
  <2>2. x \in RunState /\ x.crew = run[n].crew /\ x.batch = {}
    BY <2>1 DEF RunState
  <2> QED
    BY <2>1, <2>2, StillGood
<1> HIDE DEF x
<1> QED
  BY <1>1, <1>2, RunMoves, RunTypes DEF Start

\* The steps of a run that leave it with nothing in hand, and nothing else changed.
LEMMA IdleSteps ==
  ASSUME IInv, NEW n \in Run,
         Stop(n) \/ Stopped(n) \/ Lapse(n) \/ Idle(n) \/ Rest(n) \/ Sleep(n) \/ Wake(n)
  PROVE  IInv' /\ OwnerStep
<1>1. ASSUME Stop(n) \/ Lapse(n)
      PROVE  IInv' /\ OwnerStep
  <2>1. PICK stop \in BOOLEAN, open \in BOOLEAN :
          run' = [run EXCEPT ![n] = [run[n] EXCEPT !.stop = stop, !.open = open]]
    <3>1. run \in [Run -> RunState] /\ run[n] \in RunState
      BY DEF IInv, Runs
    <3>2. CASE Stop(n)
      <4>1. run' = [run EXCEPT ![n] = [run[n] EXCEPT !.stop = TRUE, !.open = run[n].open]]
        BY <3>1, <3>2 DEF Stop, RunState
      <4> QED
        BY <3>1, <4>1 DEF RunState
    <3>3. CASE Lapse(n)
      <4>1. run' = [run EXCEPT ![n] = [run[n] EXCEPT !.stop = run[n].stop, !.open = FALSE]]
        BY <3>1, <3>3 DEF Lapse, RunState
      <4> QED
        BY <3>1, <4>1 DEF RunState
    <3> QED
      BY <1>1, <3>2, <3>3
  <2>2. Good([run[n] EXCEPT !.stop = stop, !.open = open], ever, purged)
    <3>1. Good(run[n], ever, purged) /\ run[n] \in RunState
      BY <2>1, RunTypes
    <3>2. /\ [run[n] EXCEPT !.stop = stop, !.open = open] \in RunState
          /\ [run[n] EXCEPT !.stop = stop, !.open = open].crew = run[n].crew
          /\ [run[n] EXCEPT !.stop = stop, !.open = open].batch = run[n].batch
          /\ [run[n] EXCEPT !.stop = stop, !.open = open].pc = run[n].pc
      BY <2>1, <3>1 DEF RunState
    <3> QED
      BY <3>1, <3>2, StillGood
  <2>3. left' \in Bounds
    BY <1>1, RunTypes, SpendTypes DEF Stop, Lapse
  <2> QED
    BY <1>1, <2>1, <2>2, <2>3, RunMoves DEF Stop, Lapse
<1>2. ASSUME Stopped(n) \/ Rest(n)
      PROVE  IInv' /\ OwnerStep
  BY <1>2, OverGood, RunMoves, RunTypes DEF Stopped, Rest, End
<1>3. ASSUME Idle(n) \/ Sleep(n) \/ Wake(n)
      PROVE  IInv' /\ OwnerStep
  <2>1. PICK pc \in {"rest", "asleep", "look"} :
          run' = [run EXCEPT ![n] = [run[n] EXCEPT !.pc = pc]]
    BY <1>3 DEF Idle, Sleep, Wake, IInv, Runs
  <2>2. Good([run[n] EXCEPT !.pc = pc], ever, purged)
    <3>1. Good(run[n], ever, purged) /\ run[n] \in RunState /\ run[n].batch = {}
      BY <1>3, <2>1, RunTypes DEF Idle, Looking, Sleep, Wake
    <3>2. /\ [run[n] EXCEPT !.pc = pc] \in RunState /\ [run[n] EXCEPT !.pc = pc].crew = run[n].crew
          /\ [run[n] EXCEPT !.pc = pc].batch = {}
      BY <1>3, <2>1, <3>1 DEF RunState
    <3> QED
      BY <3>1, <3>2, StillGood
  <2> QED
    BY <1>3, <2>1, <2>2, RunMoves, RunTypes DEF Idle, Sleep, Wake
<1> QED
  BY <1>1, <1>2, <1>3

\* Enumerate: rows are added as pending and taken out.
LEMMA EnumerateStep ==
  ASSUME IInv, NEW n \in Run, Enumerate(n)
  PROVE  IInv' /\ OwnerStep
<1>1. PICK offered \in Offers(n) : queue' = PruneShared(Enqueued(offered), offered)
  BY DEF Enumerate
<1>2. offered \in SUBSET Item
  BY <1>1, RunTypes DEF Offers, RunState, Item
<1>3. QueueOK' /\ NoNewClaim
  BY <1>1, <1>2, EnqueueQueue DEF IInv, Plain
<1>4. Plain'
  BY DEF Enumerate, IInv, Plain, store
<1>5. Runs'
  <2>1. run' = [run EXCEPT ![n] = [run[n] EXCEPT !.pc = "look"]]
    BY DEF Enumerate, IInv, Runs
  <2>2. Good([run[n] EXCEPT !.pc = "look"], ever, purged)
    BY RunTypes DEF Good, RunState, Enumerate
  <2> QED
    BY <2>1, <2>2, RunsMove DEF Enumerate, store, IInv
<1> QED
  BY <1>3, <1>4, <1>5, QueueMoves DEF Enumerate

\* CheckRound: the batch is of rows due.
LEMMA CheckRoundStep ==
  ASSUME IInv, NEW n \in Run, NEW digest \in BOOLEAN, CheckRound(n, digest)
  PROVE  IInv' /\ OwnerStep
<1>1. PICK B \in UpTo(CheckBatch, Due(IF digest THEN "hashed" ELSE "pending")) :
        run' = [run EXCEPT ![n].pc = "check", ![n].digest = digest, ![n].batch = B]
  BY DEF CheckRound
<1>2. B \subseteq Live
  <2>1. B \subseteq Due(IF digest THEN "hashed" ELSE "pending")
    BY <1>1, UpToIn
  <2> QED
    BY <2>1, RunTypes DEF Retryable
<1> DEFINE x == [run[n] EXCEPT !.pc = "check", !.digest = digest, !.batch = B]
<1>3. run' = [run EXCEPT ![n] = x]
  BY <1>1 DEF IInv, Runs
<1>4. Good(x, ever, purged)
  <2>1. Good(run[n], ever, purged) /\ run[n] \in RunState
    BY RunTypes
  <2>2. /\ x \in RunState /\ x.crew = run[n].crew
        /\ x.batch = B /\ x.pc = "check"
    BY <1>2, <2>1 DEF RunState
  <2> HIDE DEF x
  <2> QED
    BY <1>2, <2>1, <2>2 DEF Good
<1> HIDE DEF x
<1> QED
  BY <1>3, <1>4, RunMoves, RunTypes DEF CheckRound

\* Work: what is hashed, sent and kept for later is of rows due.
LEMMA WorkStep ==
  ASSUME IInv, NEW n \in Run, Work(n)
  PROVE  IInv' /\ OwnerStep
<1>1. PICK W \in UpTo(4 * UploadConcurrency, Due("want")),
           H \in UpTo(HashBatch, Due("unknown")) :
        \E first \in UpTo(UploadConcurrency, W) :
          run' = [run EXCEPT ![n].pc = "work", ![n].hashing = H, ![n].todo = W \ first,
                             ![n].crew = {Taken(r) : r \in first}]
  BY DEF Work
<1>2. PICK first \in UpTo(UploadConcurrency, W) :
        run' = [run EXCEPT ![n].pc = "work", ![n].hashing = H, ![n].todo = W \ first,
                           ![n].crew = {Taken(r) : r \in first}]
  BY <1>1
<1>3. W \subseteq Live /\ H \subseteq Live /\ first \subseteq Live
  <2>1. W \subseteq Due("want") /\ H \subseteq Due("unknown") /\ first \subseteq W
    BY <1>1, <1>2, UpToIn
  <2> QED
    BY <2>1, RunTypes DEF Retryable
<1> DEFINE crew == {Taken(r) : r \in first}
           x == [run[n] EXCEPT !.pc = "work", !.hashing = H, !.todo = W \ first, !.crew = crew]
<1>4. run' = [run EXCEPT ![n] = x]
  BY <1>2 DEF IInv, Runs
<1>5. crew \subseteq Uploading /\ \A u \in crew : u.stage = "open"
  BY <1>3, TakenTypes
<1> HIDE DEF crew
<1>6. Good(x, ever, purged)
  <2>1. run[n] \in RunState /\ run[n].batch = {}
    BY RunTypes DEF Work, Looking
  <2>2. x \in RunState /\ x.crew = crew /\ x.batch = {} /\ x.pc = "work"
    BY <1>3, <1>5, <2>1 DEF RunState
  <2> HIDE DEF x
  <2> QED
    BY <1>5, <2>2 DEF Good
<1> HIDE DEF x
<1> QED
  BY <1>4, <1>6, RunMoves, RunTypes DEF Work

\* What the archive answers is typed, and what it says it has it has had.
LEMMA AnswerTypes ==
  ASSUME IInv, NEW b \in Live, NEW digest \in BOOLEAN
  PROVE  /\ [row |-> b, answer |-> Answer(b, digest)] \in Answered
         /\ Answer(b, digest).status = "have"
              => Backed(b.item, Answer(b, digest).asset, ever, purged)
<1>1. b.item \in Item /\ b.md5 \in Version \cup {None}
  BY DEF Live, Row
<1>2. /\ mapping[b.item] = NoMapping \/ <<b.item, mapping[b.item].asset>> \in ever
      /\ held \subseteq ever /\ ever \subseteq Content /\ purged \subseteq Content
      /\ mapping[b.item].asset \in Version \cup {None} /\ None \notin Version
  BY <1>1, BackupAssumption DEF IInv, Archived, Plain, Version
<1>3. CASE Known(b)
  <2>1. Answer(b, digest) = [status |-> "have", asset |-> mapping[b.item].asset]
    BY <1>3 DEF Answer, Known, Matched
  <2>2. <<b.item, mapping[b.item].asset>> \in ever /\ mapping[b.item].asset # None
    BY <1>2, <1>3 DEF Known, Content
  <2> QED
    BY <1>2, <2>1, <2>2 DEF Backed, Answered
<1>4. CASE ~Known(b) /\ ~digest
  <2>1. Answer(b, digest) = [status |-> "unknown", asset |-> None]
    BY <1>4 DEF Answer, Known, Matched
  <2> QED
    BY <2>1 DEF Answered
<1>5. CASE Matched(b, digest)
  <2>1. Answer(b, digest) = [status |-> "have", asset |-> b.md5]
    BY <1>5 DEF Answer, Known, Matched
  <2>2. <<b.item, b.md5>> \in ever /\ b.md5 # None
    BY <1>2, <1>5 DEF Matched, Content
  <2> QED
    BY <1>1, <2>1, <2>2 DEF Backed, Answered
<1>6. CASE ~Known(b) /\ digest /\ ~Matched(b, digest)
  <2>1. Answer(b, digest) =
          [status |-> IF <<b.item, b.md5>> \in purged THEN "have" ELSE "want", asset |-> None]
    BY <1>6 DEF Answer, Known, Matched
  <2>2. <<b.item, b.md5>> \in purged => b.md5 \in Version
    BY <1>2 DEF Content
  <2> QED
    BY <2>1, <2>2 DEF Backed, Answered
<1> QED
  BY <1>3, <1>4, <1>5, <1>6

\* What a round of sync/check maps, the archive has had.
LEMMA LearnTypes ==
  ASSUME IInv, NEW B \in SUBSET Live, NEW digest, Learn(B, digest)
  PROVE  /\ mapping' \in [Item -> [asset : Version \cup {None}, modified : Version]]
         /\ \A i \in Item : mapping'[i] = NoMapping \/ <<i, mapping'[i].asset>> \in ever
<1>1. ASSUME NEW i \in Item
      PROVE  \/ mapping'[i] = mapping[i]
             \/ \E r \in B : /\ <<i, r.md5>> \in held
                             /\ mapping'[i] = [asset |-> r.md5, modified |-> r.modified]
  <2>1. CASE \E r \in B : r.item = i /\ Matched(r, digest)
    <3> DEFINE r == CHOOSE r \in B : r.item = i /\ Matched(r, digest)
    <3>1. r \in B /\ r.item = i /\ Matched(r, digest)
      BY <2>1
    <3>2. mapping'[i] = [asset |-> r.md5, modified |-> r.modified]
      BY <2>1 DEF Learn
    <3> HIDE DEF r
    <3> QED
      BY <3>1, <3>2 DEF Matched
  <2> QED
    BY <2>1 DEF Learn
<1>2. \A r \in B : r.md5 \in Version \cup {None} /\ r.modified \in Version
  BY DEF Live, Row
<1>3. mapping \in [Item -> [asset : Version \cup {None}, modified : Version]]
  BY DEF IInv, Plain
<1>4. ASSUME NEW i \in Item
      PROVE  /\ mapping'[i] \in [asset : Version \cup {None}, modified : Version]
             /\ mapping'[i] = NoMapping \/ <<i, mapping'[i].asset>> \in ever
  <2>1. CASE mapping'[i] = mapping[i]
    BY <1>3, <2>1 DEF IInv, Archived
  <2>2. ASSUME NEW r \in B, <<i, r.md5>> \in held,
               mapping'[i] = [asset |-> r.md5, modified |-> r.modified]
        PROVE  /\ mapping'[i] \in [asset : Version \cup {None}, modified : Version]
               /\ <<i, mapping'[i].asset>> \in ever
    BY <1>2, <2>2 DEF IInv, Archived
  <2> QED
    BY <1>1, <2>1, <2>2
<1>5. mapping' = [i \in Item |-> mapping'[i]]
  BY DEF Learn
<1> QED
  BY <1>4, <1>5

\* AnswerCheck: the archive maps what it has, and its answer is true.
LEMMA AnswerCheckStep ==
  ASSUME IInv, NEW n \in Run, AnswerCheck(n)
  PROVE  IInv' /\ OwnerStep
<1> DEFINE digest == run[n].digest
           B == run[n].batch
           A == {[row |-> b, answer |-> Answer(b, digest)] : b \in B}
           x == [run[n] EXCEPT !.pc = "apply", !.batch = A]
           y == [run[n] EXCEPT !.pc = "look", !.batch = {}, !.open = TRUE]
<1>1. run[n].pc = "check" /\ B \in SUBSET Live /\ digest \in BOOLEAN /\ Learn(B, digest)
  BY RunTypes DEF AnswerCheck, Good, RunState
<1>2. A \subseteq Answered /\ \A a \in A : a.answer.status = "have" =>
                                Backed(a.row.item, a.answer.asset, ever, purged)
  BY <1>1, AnswerTypes
<1>3. (run' = [run EXCEPT ![n] = x] /\ left' = left)
      \/ (run' = [run EXCEPT ![n] = y] /\ Spend("outages"))
  BY DEF AnswerCheck, IInv, Runs
<1>4. left' \in Bounds
  BY <1>3, RunTypes, SpendTypes
<1> HIDE DEF A
<1>5. Good(x, ever, purged) /\ Good(y, ever, purged)
  <2>1. Good(run[n], ever, purged) /\ run[n] \in RunState
    BY RunTypes
  <2>2. /\ x \in RunState /\ x.crew = run[n].crew
        /\ x.batch = A /\ x.pc = "apply"
    BY <1>2, <2>1 DEF RunState
  <2>3. y \in RunState /\ y.crew = run[n].crew /\ y.batch = {}
    BY <2>1 DEF RunState
  <2> HIDE DEF x, y
  <2>4. Good(x, ever, purged)
    BY <1>2, <2>1, <2>2 DEF Good
  <2> QED
    BY <2>1, <2>3, <2>4, StillGood
<1> HIDE DEF x, y, B, digest
<1>6. ever' = ever /\ purged' = purged /\ queue' = queue /\ held' = held
  BY DEF AnswerCheck, seen
<1>7. Runs'
  BY <1>3, <1>5, <1>6, RunsMove DEF IInv
<1>8. Plain'
  BY <1>1, <1>4, LearnTypes DEF IInv, Plain, AnswerCheck, seen
<1>9. Archived'
  BY <1>1, <1>6, LearnTypes DEF IInv, Archived
<1> QED
  BY <1>6, <1>7, <1>8, <1>9, ArchiveMoves

\* A request given up: what it carried is charged, and the run looks again.
LEMMA CheckFailsStep ==
  ASSUME IInv, NEW n \in Run, NEW kind \in Kind, CheckFails(n, kind)
  PROVE  IInv' /\ OwnerStep
<1>0. PICK open \in BOOLEAN : open = Trips(kind)
  <2>1. CASE kind \in {"unreachable", "server"}
    BY <2>1 DEF Trips
  <2>2. CASE kind \notin {"unreachable", "server"}
    <3>1. Trips(kind) = FALSE
      BY <2>2 DEF Trips
    <3> QED
      BY <3>1
  <2> QED
    BY <2>1, <2>2
<1> DEFINE x == [run[n] EXCEPT !.pc = "look", !.batch = {}, !.open = open]
<1>1. run' = [run EXCEPT ![n] = x]
  BY <1>0 DEF CheckFails, IInv, Runs
<1>2. Good(x, ever, purged)
  <2>1. Good(run[n], ever, purged) /\ run[n] \in RunState
    BY <1>0, RunTypes
  <2>2. x \in RunState /\ x.crew = run[n].crew /\ x.batch = {}
    BY <1>0, <2>1 DEF RunState
  <2> QED
    BY <2>1, <2>2, StillGood
<1> HIDE DEF x
<1>3. run[n].batch \in SUBSET Live
  BY RunTypes DEF Good, CheckFails
<1>4. QueueOK' /\ NoNewClaim
  BY <1>3, ChargeQueue DEF CheckFails, IInv
<1>5. left' \in Bounds
  BY RunTypes, SpendTypes DEF CheckFails, Cost, Kind
<1>6. Runs'
  BY <1>1, <1>2, RunsMove DEF CheckFails, store, seen, IInv
<1>7. Plain'
  BY <1>5 DEF CheckFails, IInv, Plain, store, seen
<1> QED
  BY <1>4, <1>6, <1>7, QueueMoves DEF CheckFails, seen

\* A run that unwinds keeps only the uploads that are still going.
LEMMA UnwindStep ==
  ASSUME IInv, NEW n \in Run, Unwind(n, run[n]),
         UNCHANGED <<queue, photo, ticked, store, seen, left>>
  PROVE  IInv' /\ OwnerStep
<1> DEFINE x == IF run[n].crew = {} THEN Over ELSE [run[n] EXCEPT !.pc = "over", !.batch = {}]
<1>1. run' = [run EXCEPT ![n] = x]
  BY DEF Unwind
<1>2. Good(x, ever, purged)
  <2>1. Good([run[n] EXCEPT !.pc = "over", !.batch = {}], ever, purged)
    <3>1. Good(run[n], ever, purged) /\ run[n] \in RunState
      BY RunTypes
    <3>2. /\ [run[n] EXCEPT !.pc = "over", !.batch = {}] \in RunState
          /\ [run[n] EXCEPT !.pc = "over", !.batch = {}].crew = run[n].crew
          /\ [run[n] EXCEPT !.pc = "over", !.batch = {}].batch = {}
      BY <3>1 DEF RunState
    <3> QED
      BY <3>1, <3>2, StillGood
  <2> QED
    BY <2>1, OverGood
<1> HIDE DEF x
<1>3. Runs'
  BY <1>1, <1>2, RunsMove DEF store, seen, IInv
<1>4. pairing' \in [device : Nat, paired : BOOLEAN, good : BOOLEAN]
  <2>1. pairing \in [device : Nat, paired : BOOLEAN, good : BOOLEAN]
    BY DEF IInv, Plain
  <2>2. CASE run[n].who # "foreground"
    BY <2>1, <2>2 DEF Unwind
  <2>3. CASE run[n].who = "foreground"
    <3>1. pairing' = [pairing EXCEPT !.paired = FALSE]
      BY <2>1, <2>3 DEF Unwind
    <3> QED
      BY <2>1, <3>1
  <2> QED
    BY <2>2, <2>3
<1>5. Plain'
  BY <1>4 DEF IInv, Plain, store, seen
<1> QED
  BY <1>3, <1>5, QueueStays, QueueMoves DEF IInv, store, seen

\* Apply: the row of one answer claims what the answer rests on.
LEMMA ApplyStep ==
  ASSUME IInv, NEW n \in Run, Apply(n)
  PROVE  IInv' /\ OwnerStep
<1>1. PICK a \in run[n].batch :
       /\ Update(a.row.item, LAMBDA r :
            CASE a.answer.status = "have" ->
                   [Settled(r, "done") EXCEPT !.asset = a.answer.asset]
              [] a.answer.status = "want" -> Settled(r, "want")
              [] a.answer.status = "unknown" ->
                   Settled(r, IF r.item \in Shared THEN "want" ELSE "unknown"))
       /\ run' = [run EXCEPT
            ![n].batch = @ \ {a},
            ![n].pc = IF run[n].batch = {a} THEN "look" ELSE "apply"]
  BY DEF Apply
<1>2. /\ run[n].pc = "apply" /\ a \in Answered
      /\ a.answer.status = "have" => Backed(a.row.item, a.answer.asset, ever, purged)
  BY <1>1, RunTypes DEF Good, Apply
<1>3. /\ a.row \in Live /\ a.answer.status \in {"have", "unknown", "want"}
      /\ a.answer.asset \in Version \cup {None} /\ a.row.item \in Item
  BY <1>2, LiveTypes DEF Answered
<1>4. Runs'
  <2> DEFINE pc == IF run[n].batch = {a} THEN "look" ELSE "apply"
             x == [run[n] EXCEPT !.batch = @ \ {a}, !.pc = pc]
  <2>1. run' = [run EXCEPT ![n] = x]
    BY <1>1 DEF IInv, Runs
  <2>2. \/ x = [run[n] EXCEPT !.batch = {}, !.pc = "look"]
        \/ x = [run[n] EXCEPT !.batch = run[n].batch \ {a}, !.pc = "apply"]
    <3>1. CASE run[n].batch = {a}
      BY <3>1, RunTypes DEF RunState
    <3>2. CASE run[n].batch # {a}
      BY <3>2, RunTypes DEF RunState
    <3> QED
      BY <3>1, <3>2
  <2> HIDE DEF x
  <2>3. Good([run[n] EXCEPT !.batch = {}, !.pc = "look"], ever, purged)
    <3>1. Good(run[n], ever, purged) /\ run[n] \in RunState
      BY RunTypes
    <3>2. /\ [run[n] EXCEPT !.batch = {}, !.pc = "look"] \in RunState
          /\ [run[n] EXCEPT !.batch = {}, !.pc = "look"].crew = run[n].crew
          /\ [run[n] EXCEPT !.batch = {}, !.pc = "look"].batch = {}
      BY <3>1 DEF RunState
    <3> QED
      BY <3>1, <3>2, StillGood
  <2>4. Good([run[n] EXCEPT !.batch = run[n].batch \ {a}, !.pc = "apply"], ever, purged)
    <3>1. Good(run[n], ever, purged) /\ run[n] \in RunState
      BY <1>2, RunTypes
    <3>2. /\ [run[n] EXCEPT !.batch = run[n].batch \ {a}, !.pc = "apply"] \in RunState
          /\ [run[n] EXCEPT !.batch = run[n].batch \ {a}, !.pc = "apply"].crew = run[n].crew
          /\ [run[n] EXCEPT !.batch = run[n].batch \ {a}, !.pc = "apply"].batch = run[n].batch \ {a}
          /\ [run[n] EXCEPT !.batch = run[n].batch \ {a}, !.pc = "apply"].pc = run[n].pc
      BY <1>2, <3>1 DEF RunState
    <3> QED
      BY <3>1, <3>2, StillGood
  <2> QED
    BY <2>1, <2>2, <2>3, <2>4, RunsMove DEF IInv, Apply, store, seen
<1>5. Plain'
  BY DEF IInv, Plain, Apply, store, seen
<1>6. store' = store /\ ever' = ever
  BY DEF Apply, seen
<1>7. CASE a.answer.status = "have"
  <2>1. Update(a.row.item, LAMBDA r : [Settled(r, "done") EXCEPT !.asset = a.answer.asset])
    BY <1>1, <1>7 DEF Update
  <2>2. QueueOK' /\ OnlyClaim(a.row.item, a.answer.asset)
    BY <1>3, <2>1, SettleDoneQueue DEF IInv
  <2> QED
    BY <1>2, <1>3, <1>4, <1>5, <1>6, <1>7, <2>2, QueueClaims
<1>8. CASE a.answer.status = "want" \/ (a.answer.status = "unknown" /\ a.row.item \in Shared)
  <2>1. Update(a.row.item, LAMBDA r : Settled(r, "want"))
    BY <1>1, <1>8 DEF Update
  <2>2. QueueOK' /\ NoNewClaim
    <3>1. {"want", "unknown"} \subseteq State \ {"done"}
      BY DEF State
    <3> QED
      BY <2>1, <3>1, SettleQueue DEF IInv
  <2> QED
    BY <1>4, <1>5, <1>6, <2>2, QueueMoves
<1>9. CASE a.answer.status = "unknown" /\ a.row.item \notin Shared
  <2>1. Update(a.row.item, LAMBDA r : Settled(r, "unknown"))
    BY <1>1, <1>9 DEF Update
  <2>2. QueueOK' /\ NoNewClaim
    <3>1. {"want", "unknown"} \subseteq State \ {"done"}
      BY DEF State
    <3> QED
      BY <2>1, <3>1, SettleQueue DEF IInv
  <2> QED
    BY <1>4, <1>5, <1>6, <2>2, QueueMoves
<1> QED
  BY <1>3, <1>7, <1>8, <1>9

\* A worker let go, and the row it takes next.
LEMMA FreeRuns ==
  ASSUME IInv, NEW n \in Run, NEW u, NEW open \in BOOLEAN, Free(n, u, open),
         ever' = ever, purged' = purged
  PROVE  Runs'
<1> DEFINE rest == [run[n] EXCEPT !.open = open, !.crew = @ \ {u}]
           next(s) == [rest EXCEPT !.todo = @ \ {s}, !.crew = @ \cup {Taken(s)}]
<1>1. Good(rest, ever, purged)
  <2>1. Good(run[n], ever, purged) /\ run[n] \in RunState
    BY RunTypes
  <2>2. /\ rest \in RunState /\ rest.crew = run[n].crew \ {u}
        /\ rest.batch = run[n].batch /\ rest.pc = run[n].pc
    BY <2>1 DEF RunState
  <2> QED
    BY <2>1, <2>2, StillGood
<1>2. CASE run' = [run EXCEPT ![n] = rest]
  <2> HIDE DEF rest
  <2> QED
    BY <1>1, <1>2, RunsMove DEF IInv
<1>3. ASSUME NEW s \in run[n].todo, run' = [run EXCEPT ![n] = next(s)]
      PROVE  Runs'
  <2>1. s \in Live
    BY RunTypes DEF RunState
  <2>2. PICK t \in Uploading : t = Taken(s) /\ t.stage = "open"
    BY <2>1, TakenTypes
  <2> DEFINE x == [rest EXCEPT !.todo = @ \ {s}, !.crew = @ \cup {t}]
  <2>3. run' = [run EXCEPT ![n] = x]
    BY <1>3, <2>2
  <2> HIDE DEF rest
  <2>4. Good(x, ever, purged)
    BY <1>1, <2>2 DEF Good, RunState
  <2> HIDE DEF x
  <2> QED
    BY <2>3, <2>4, RunsMove DEF IInv
<1> QED
  BY <1>2, <1>3 DEF Free

\* A worker further along with the row it has.
LEMMA BecomesRuns ==
  ASSUME IInv, NEW n \in Run, NEW u \in run[n].crew, NEW v \in Uploading, Becomes(n, u, v),
         ever \subseteq ever', purged \subseteq purged',
         v.stage = "acked" => <<v.row.item, v.md5>> \in ever'
  PROVE  Runs'
<1> DEFINE x == [run[n] EXCEPT !.crew = (@ \ {u}) \cup {v}]
<1>1. run' = [run EXCEPT ![n] = x]
  BY DEF Becomes, IInv, Runs
<1>2. Good(run[n], ever', purged')
  BY RunTypes, GoodGrows
<1>3. Good(x, ever', purged')
  BY <1>2 DEF Good, RunState
<1> HIDE DEF x
<1> QED
  BY <1>1, <1>3, RunsMove DEF IInv

\* What the invariant says of one upload.
LEMMA CrewTypes ==
  ASSUME IInv, NEW n \in Run, NEW u \in run[n].crew
  PROVE  /\ u \in Uploading /\ u.row \in Live /\ u.row.item \in Item
         /\ u.md5 \in Version \cup {None} /\ u.row.md5 \in Version \cup {None}
         /\ u.row.modified \in Version
         /\ u.stage # "open" => u.md5 \in Version
         /\ u.stage = "acked" => <<u.row.item, u.md5>> \in ever
<1>1. u \in Uploading /\ (u.stage = "acked" => <<u.row.item, u.md5>> \in ever)
  BY RunTypes DEF Good, RunState
<1> QED
  BY <1>1 DEF Uploading, Live, Row

\* The version a photograph is at is a version.
LEMMA LatestTypes ==
  ASSUME IInv, NEW i \in Item
  PROVE  Latest(i) \in Version
  BY BackupAssumption DEF Latest, IInv, Plain, Item, Version

\* Hash: the row gets the digest of what the phone shows, or is charged.
LEMMA HashStep ==
  ASSUME IInv, NEW n \in Run, NEW r \in run[n].hashing, Hash(n, r)
  PROVE  IInv' /\ OwnerStep
<1>1. r \in Live
  BY RunTypes DEF RunState
<1>2. QueueOK' /\ NoNewClaim
  <2>1. CASE Update(r.item, LAMBDA q : [Settled(q, "hashed") EXCEPT !.md5 = Latest(r.item)])
    <3>1. PICK v \in Version \cup {None} : v = Latest(r.item)
      BY <1>1, LiveTypes, LatestTypes
    <3>2. Update(r.item, LAMBDA q : [Settled(q, "hashed") EXCEPT !.md5 = v])
      BY <2>1, <3>1 DEF Update
    <3>3. "hashed" \in State \ {"done"}
      BY DEF State
    <3> QED
      BY <3>1, <3>2, <3>3, SettleMd5Queue DEF IInv
  <2>2. CASE Penalize(r)
    BY <1>1, <2>2, PenalizeQueue DEF IInv
  <2> QED
    BY <2>1, <2>2 DEF Hash
<1>3. Runs'
  <2> DEFINE x == [run[n] EXCEPT !.hashing = @ \ {r}]
  <2>1. run' = [run EXCEPT ![n] = x]
    BY DEF Hash, IInv, Runs
  <2>2. Good(x, ever, purged)
    <3>1. Good(run[n], ever, purged) /\ run[n] \in RunState
      BY RunTypes
    <3>2. /\ x \in RunState /\ x.crew = run[n].crew
          /\ x.batch = run[n].batch /\ x.pc = run[n].pc
      BY <3>1 DEF RunState
    <3> QED
      BY <3>1, <3>2, StillGood
  <2> HIDE DEF x
  <2> QED
    BY <2>1, <2>2, RunsMove DEF IInv, Hash, store, seen
<1>4. left' \in Bounds
  BY RunTypes, SpendTypes DEF Hash
<1>5. Plain'
  BY <1>4 DEF IInv, Plain, Hash, store, seen
<1> QED
  BY <1>2, <1>3, <1>5, QueueMoves DEF Hash, seen

\* HashStops: the rows not hashed stay as they are.
LEMMA HashStopsStep ==
  ASSUME IInv, NEW n \in Run, HashStops(n)
  PROVE  IInv' /\ OwnerStep
<1> DEFINE x == [run[n] EXCEPT !.hashing = {}]
<1>1. run' = [run EXCEPT ![n] = x]
  BY DEF HashStops, IInv, Runs
<1>2. Good(x, ever, purged)
  <2>1. Good(run[n], ever, purged) /\ run[n] \in RunState
    BY RunTypes
  <2>2. /\ x \in RunState /\ x.crew = run[n].crew
        /\ x.batch = run[n].batch /\ x.pc = run[n].pc
    BY <2>1 DEF RunState
  <2> QED
    BY <2>1, <2>2, StillGood
<1> HIDE DEF x
<1> QED
  BY <1>1, <1>2, RunMoves, RunTypes DEF HashStops

\* Open: the row goes back to be hashed, or on to be sent.
LEMMA OpenStep ==
  ASSUME IInv, NEW n \in Run, NEW u \in run[n].crew, Open(n, u)
  PROVE  IInv' /\ OwnerStep
<1> DEFINE i == u.row.item
           md5 == IF i \in Shared THEN Latest(i) ELSE u.row.md5
<1>1. Plain' /\ ever' = ever /\ purged' = purged /\ store' = store
  BY DEF Open, IInv, Plain, store, seen
<1>2. i \in Item /\ md5 \in Version \cup {None} /\ run[n].open \in BOOLEAN
  BY CrewTypes, LatestTypes, RunTypes DEF RunState
<1>3. CASE md5 = None
  <2>1. Update(i, LAMBDA r : [r EXCEPT !.state = "unknown", !.due = TRUE])
        /\ Free(n, u, run[n].open)
    BY <1>3 DEF Open
  <2>2. QueueOK' /\ NoNewClaim
    BY <2>1, UnhashedQueue DEF IInv
  <2> QED
    BY <1>1, <1>2, <2>1, <2>2, FreeRuns, QueueMoves
<1>4. CASE md5 # None /\ Length(Latest(i)) # Length(md5)
  <2>1. Update(i, LAMBDA r : [Settled(r, "unknown") EXCEPT !.md5 = None])
        /\ Free(n, u, run[n].open)
    BY <1>4 DEF Open
  <2>2. "unknown" \in State \ {"done"}
    BY DEF State
  <2>3. QueueOK' /\ NoNewClaim
    BY <2>1, <2>2, SettleMd5Queue DEF IInv
  <2> QED
    BY <1>1, <1>2, <2>1, <2>3, FreeRuns, QueueMoves
<1>5. CASE md5 # None /\ Length(Latest(i)) = Length(md5)
  <2> DEFINE v == [u EXCEPT !.md5 = md5, !.stage = "send"]
  <2>1. Becomes(n, u, v) /\ queue' = queue
    BY <1>5 DEF Open
  <2>2. v \in Uploading /\ v.stage = "send"
    BY <1>2, <1>5, CrewTypes DEF Uploading
  <2> HIDE DEF v
  <2>3. Runs'
    BY <1>1, <2>1, <2>2, BecomesRuns
  <2> QED
    BY <1>1, <2>1, <2>3, QueueStays, QueueMoves DEF IInv
<1> QED
  BY <1>3, <1>4, <1>5

\* Deliver: the archive keeps the content before it acknowledges it.
LEMMA DeliverStep ==
  ASSUME IInv, NEW n \in Run, NEW u \in run[n].crew, Deliver(n, u)
  PROVE  IInv' /\ OwnerStep
<1> DEFINE i == u.row.item
           c == <<i, u.md5>>
<1>1. u \in Uploading /\ i \in Item /\ u.md5 \in Version /\ u.row.modified \in Version
  BY CrewTypes DEF Deliver
<1>2. CASE Latest(i) = u.md5
  <2> DEFINE v == [u EXCEPT !.stage = "acked"]
  <2>1. /\ held' = held \cup {c} /\ ever' = ever \cup {c} /\ suspect' = suspect \ {c}
        /\ mapping' = [mapping EXCEPT ![i] = [asset |-> u.md5, modified |-> u.row.modified]]
        /\ Becomes(n, u, v)
    BY <1>2 DEF Deliver
  <2>2. v \in Uploading /\ v.row.item = i /\ v.md5 = u.md5
    BY <1>1 DEF Uploading
  <2> HIDE DEF v
  <2>3. c \in Content
    BY <1>1 DEF Content
  <2>4. Plain'
    BY <1>1, <2>1, <2>3 DEF IInv, Plain, Deliver
  <2>5. Archived'
    BY <1>1, <2>1 DEF IInv, Archived, Plain
  <2>6. ever \subseteq ever' /\ purged' = purged /\ queue' = queue
    BY <2>1 DEF Deliver
  <2>7. Runs'
    BY <2>1, <2>2, <2>6, BecomesRuns
  <2> QED
    BY <2>4, <2>5, <2>6, <2>7, ArchiveMoves
<1>3. CASE Latest(i) # u.md5
  <2> DEFINE v == [u EXCEPT !.stage = "refused"]
  <2>1. Becomes(n, u, v) /\ UNCHANGED <<queue, held, ever, mapping, suspect, purged>>
    BY <1>3 DEF Deliver
  <2>2. v \in Uploading /\ v.stage = "refused"
    BY <1>1 DEF Uploading
  <2> HIDE DEF v
  <2>3. Runs'
    BY <2>1, <2>2, BecomesRuns
  <2>4. Plain' /\ Archived'
    BY <2>1 DEF IInv, Plain, Archived, Deliver
  <2> QED
    BY <2>1, <2>3, <2>4, ArchiveMoves
<1> QED
  BY <1>2, <1>3

\* Acked: the row claims what was delivered.
LEMMA AckedStep ==
  ASSUME IInv, NEW n \in Run, NEW u \in run[n].crew, Acked(n, u)
  PROVE  IInv' /\ OwnerStep
<1>1. /\ u.row.item \in Item /\ u.md5 \in Version
      /\ <<u.row.item, u.md5>> \in ever /\ u.md5 # None
  BY CrewTypes, BackupAssumption DEF Acked, Version
<1>2. Backed(u.row.item, u.md5, ever, purged)
  BY <1>1 DEF Backed
<1>3. Plain' /\ ever' = ever /\ purged' = purged /\ store' = store
  BY DEF Acked, IInv, Plain, store, seen
<1>4. Runs'
  BY <1>3, FreeRuns DEF Acked
<1>5. QueueOK' /\ OnlyClaim(u.row.item, u.md5)
  BY <1>1, AckQueue DEF Acked, IInv
<1> QED
  BY <1>1, <1>2, <1>3, <1>4, <1>5, QueueClaims

\* An upload that failed, whoever was at fault.
LEMMA FailedSteps ==
  ASSUME IInv, NEW n \in Run, NEW u \in run[n].crew, NEW kind \in Kind,
         OpenFails(n, u) \/ Refused(n, u) \/ SendFails(n, u, kind)
  PROVE  IInv' /\ OwnerStep
<1>1. UNCHANGED <<photo, ticked, pairing, store, seen>>
  BY DEF OpenFails, Refused, SendFails
<1>2. left' \in Bounds
  BY RunTypes, SpendTypes DEF OpenFails, Refused, SendFails, Cost, Kind
<1>3. Plain' /\ ever' = ever /\ purged' = purged /\ store' = store
  BY <1>1, <1>2 DEF IInv, Plain, store, seen
<1>4. QueueOK' /\ NoNewClaim
  <2>1. u.row \in Live
    BY CrewTypes
  <2>2. Penalize(u.row) \/ queue' = queue
    BY DEF OpenFails, Refused, SendFails
  <2> QED
    BY <2>1, <2>2, PenalizeQueue, QueueStays DEF IInv
<1>5. PICK open \in BOOLEAN : Free(n, u, open)
  <2>1. run[n].open \in BOOLEAN
    BY RunTypes DEF RunState
  <2>2. CASE Free(n, u, run[n].open)
    BY <2>1, <2>2
  <2>3. CASE Free(n, u, run[n].open \/ Trips(kind))
    <3>1. PICK open \in BOOLEAN : open = (run[n].open \/ Trips(kind))
      <4>1. CASE run[n].open \/ Trips(kind)
        BY <4>1
      <4>2. CASE ~(run[n].open \/ Trips(kind))
        <5>1. (run[n].open \/ Trips(kind)) = FALSE
          BY <4>2
        <5> QED
          BY <5>1
      <4> QED
        BY <4>1, <4>2
    <3> QED
      BY <2>3, <3>1
  <2> QED
    BY <2>2, <2>3 DEF OpenFails, Refused, SendFails
<1>6. Runs'
  BY <1>3, <1>5, FreeRuns
<1> QED
  BY <1>3, <1>4, <1>6, QueueMoves

\* Denied: the worker is gone and the run is to unwind.
LEMMA DeniedStep ==
  ASSUME IInv, NEW n \in Run, NEW u \in run[n].crew, Denied(n, u)
  PROVE  IInv' /\ OwnerStep
<1> DEFINE x == [run[n] EXCEPT !.crew = @ \ {u}, !.refused = TRUE]
<1>1. run' = [run EXCEPT ![n] = x]
  BY DEF Denied, IInv, Runs
<1>2. Good(x, ever, purged)
  <2>1. Good(run[n], ever, purged) /\ run[n] \in RunState
    BY RunTypes
  <2>2. /\ x \in RunState /\ x.crew = run[n].crew \ {u}
        /\ x.batch = run[n].batch /\ x.pc = run[n].pc
    BY <2>1 DEF RunState
  <2> QED
    BY <2>1, <2>2, StillGood
<1> HIDE DEF x
<1> QED
  BY <1>1, <1>2, RunMoves, RunTypes DEF Denied

\* EndWork: the run looks again, or unwinds.
LEMMA EndWorkStep ==
  ASSUME IInv, NEW n \in Run, EndWork(n)
  PROVE  IInv' /\ OwnerStep
<1>1. CASE run[n].refused
  BY <1>1, UnwindStep DEF EndWork
<1>2. CASE ~run[n].refused
  <2> DEFINE x == [run[n] EXCEPT !.pc = "look", !.todo = {}]
  <2>1. run' = [run EXCEPT ![n] = x]
    BY <1>2 DEF EndWork, IInv, Runs
  <2>2. Good(x, ever, purged)
    <3>1. Good(run[n], ever, purged) /\ run[n] \in RunState /\ run[n].batch = {}
      BY RunTypes DEF EndWork
    <3>2. x \in RunState /\ x.crew = run[n].crew /\ x.batch = {}
      BY <3>1 DEF RunState
    <3> QED
      BY <3>1, <3>2, StillGood
  <2> HIDE DEF x
  <2> QED
    BY <1>2, <2>1, <2>2, RunMoves, RunTypes DEF EndWork
<1> QED
  BY <1>1, <1>2

-----------------------------------------------------------------------------
(* The buttons, and what happens around them.                              *)

\* A button leaves the run and the archive alone.
LEMMA PressTypes ==
  ASSUME IInv, Press
  PROVE  /\ photo' = photo /\ run' = run /\ pairing' = pairing /\ store' = store
         /\ ever' = ever /\ purged' = purged /\ meddled' \in BOOLEAN /\ left' \in Bounds
<1>1. left' \in Bounds
  BY RunTypes, SpendTypes DEF Press, IInv, Plain
<1>2. meddled' \in BOOLEAN
  <2>1. CASE meddled \/ Holder # {}
    BY <2>1 DEF Press
  <2>2. CASE ~(meddled \/ Holder # {})
    <3>1. (meddled \/ Holder # {}) = FALSE
      BY <2>2
    <3> QED
      BY <3>1 DEF Press
  <2> QED
    BY <2>1, <2>2
<1> QED
  BY <1>1, <1>2 DEF Press, store

\* The buttons withdraw claims and make none.
LEMMA ButtonSteps ==
  ASSUME IInv, RetryFailed \/ Recheck \/ ForgetShared
  PROVE  IInv' /\ OwnerStep
<1>1. Press
  BY DEF RetryFailed, Recheck, ForgetShared
<1>2. suspect' \subseteq suspect /\ ticked' = ticked
  BY DEF RetryFailed, Recheck, ForgetShared
<1>3. Plain'
  BY <1>1, <1>2, PressTypes DEF IInv, Plain, store
<1>4. Runs'
  BY <1>1, PressTypes, RunsStay DEF IInv
<1>5. QueueOK' /\ NoNewClaim
  <2>1. CASE queue' \subseteq queue
    BY <2>1 DEF IInv, QueueOK, NoNewClaim
  <2>2. CASE queue' = Reopened("failed")
    BY <2>2, ReopenedQueue DEF IInv
  <2>3. CASE queue' = Reopened("done")
    BY <2>3, ReopenedQueue DEF IInv
  <2> QED
    BY <2>1, <2>2, <2>3 DEF RetryFailed, Recheck, ForgetShared
<1> QED
  BY <1>1, <1>3, <1>4, <1>5, PressTypes, QueueMoves

\* Toggle changes the ticked albums alone.
LEMMA ToggleStep ==
  ASSUME IInv, NEW i \in Shared, Toggle(i)
  PROVE  IInv' /\ OwnerStep
<1>1. left' \in Bounds
  BY SpendTypes DEF Toggle, IInv, Plain
<1>2. Plain'
  BY <1>1 DEF IInv, Plain, Toggle, store, seen
<1>3. Runs'
  BY RunsStay DEF IInv, Toggle, store, seen
<1> QED
  BY <1>2, <1>3, QueueStays, QueueMoves DEF IInv, Toggle, seen

\* Pair: a new device has no mappings, and what was kept was kept.
LEMMA PairStep ==
  ASSUME IInv, Pair
  PROVE  IInv' /\ OwnerStep
<1>1. NoMapping \in [asset : Version \cup {None}, modified : Version]
  BY BackupAssumption DEF NoMapping, Version
<1>2. pairing.device + 1 \in Nat
  BY DEF IInv, Plain
<1>3. Plain'
  BY <1>1, <1>2 DEF IInv, Plain, Pair, seen
<1>4. Archived'
  BY DEF IInv, Archived, Pair, seen
<1>5. Runs'
  BY RunsStay DEF IInv, Pair, seen
<1> QED
  BY <1>3, <1>4, <1>5, ArchiveMoves DEF Pair, seen

\* Photographs are edited, the app is killed, the token revoked.
LEMMA WorldSteps ==
  ASSUME IInv, (\E i \in Library : Edit(i)) \/ Kill \/ Revoke
  PROVE  IInv' /\ OwnerStep
<1>1. UNCHANGED <<queue, ticked, store, seen>>
  BY DEF Edit, Kill, Revoke
<1>2. Plain'
  <2>1. CASE \E i \in Library : Edit(i)
    BY <1>1, <2>1, BackupAssumption DEF IInv, Plain, Edit, Version, store, seen
  <2>2. CASE Kill
    BY <1>1, <2>2, SpendTypes DEF IInv, Plain, Kill, store, seen
  <2>3. CASE Revoke
    BY <1>1, <2>3, SpendTypes DEF IInv, Plain, Revoke, store, seen
  <2> QED
    BY <2>1, <2>2, <2>3
<1>3. Runs'
  <2>1. CASE run' = run
    BY <1>1, <2>1, RunsStay DEF IInv, store, seen
  <2>2. CASE run' = [n \in Run |-> IF run[n].pc = "idle" THEN run[n] ELSE Over]
    <3>1. \A n \in Run : Good(run'[n], ever, purged)
      BY <2>2, OverGood DEF IInv, Runs
    <3>2. run' \in [Run -> RunState]
      BY <2>2, <3>1 DEF Good
    <3> QED
      BY <1>1, <3>1, <3>2 DEF Runs, store, seen
  <2> QED
    BY <2>1, <2>2 DEF Edit, Kill, Revoke
<1> QED
  BY <1>1, <1>2, <1>3, QueueStays, QueueMoves DEF IInv, seen

\* ComesDue: a row is due, and is otherwise the row it was.
LEMMA ComesDueStep ==
  ASSUME IInv, NEW r \in queue, ComesDue(r)
  PROVE  IInv' /\ OwnerStep
<1>1. Plain'
  BY DEF IInv, Plain, ComesDue, store, seen
<1>2. Runs'
  BY RunsStay DEF IInv, ComesDue, store, seen
<1>3. QueueOK' /\ NoNewClaim
  BY DueQueue DEF IInv, ComesDue
<1> QED
  BY <1>1, <1>2, <1>3, QueueMoves DEF ComesDue, seen

\* What the archive no longer has it still has had.
LEMMA GoneStep ==
  ASSUME IInv, NEW c \in held, Purge(c) \/ Lose(c)
  PROVE  IInv' /\ OwnerStep
<1>1. Gone(c) /\ left' \in Bounds /\ ever' = ever /\ meddled' = meddled
  BY SpendTypes DEF Purge, Lose, IInv, Plain, seen
<1>2. c \in Content
  BY DEF IInv, Plain
<1>3. /\ purged \subseteq purged' /\ purged' \subseteq purged \cup {c}
      /\ suspect' \subseteq suspect \cup {c}
  BY DEF Purge, Lose, seen
<1>4. NoMapping \in [asset : Version \cup {None}, modified : Version]
  BY BackupAssumption DEF NoMapping, Version
<1>5. Plain'
  BY <1>1, <1>2, <1>3, <1>4 DEF IInv, Plain, Gone
<1>6. Archived'
  <2>1. \A i \in Item : mapping'[i] = mapping[i] \/ mapping'[i] = NoMapping
    BY <1>1 DEF IInv, Plain, Gone
  <2> QED
    BY <1>1, <2>1 DEF IInv, Archived, Gone
<1>7. Runs'
  BY <1>1, <1>3, RunsStay DEF IInv, Gone
<1> QED
  BY <1>1, <1>3, <1>5, <1>6, <1>7, ArchiveMoves DEF Gone

-----------------------------------------------------------------------------
(* The theorems.                                                           *)

\* Initially nothing is kept and nothing is claimed.
LEMMA Initially ==
  ASSUME Init
  PROVE  IInv /\ Owner!Init
<1>1. QueueOK /\ Claims /\ claimed = {}
  BY DEF Init, QueueOK, Claims, claimed
<1>2. NoMapping \in [asset : Version \cup {None}, modified : Version] /\ 0 \in Version
  BY BackupAssumption DEF NoMapping, Version
<1>3. left \in Bounds
  BY BackupAssumption DEF Init, Bounds
<1>6. Plain /\ Archived
  BY <1>2, <1>3 DEF Init, Plain, Archived
<1>4. Runs
  <2>1. Good(NoRun, ever, purged)
    BY DEF Good, NoRun, RunState
  <2>2. NoRun \in RunState
    BY <2>1 DEF Good
  <2> QED
    BY <2>1, <2>2 DEF Init, Runs
<1>5. Owner!Init
  BY <1>1 DEF Init, Owner!Init, claimed
<1> QED
  BY <1>1, <1>4, <1>5, <1>6 DEF IInv

\* Every step keeps the invariant, and is a step of Custody or none.
LEMMA EveryStep ==
  ASSUME IInv, [Next]_vars
  PROVE  IInv' /\ OwnerStep
<1>1. ASSUME NEW n \in Run, Progress(n)
      PROVE  IInv' /\ OwnerStep
  <2>1. CASE CheckRefused(n)
    BY <2>1, UnwindStep DEF CheckRefused
  <2>2. ASSUME NEW u \in run[n].crew, Upload(n, u)
        PROVE  IInv' /\ OwnerStep
    <3>1. Refused(n, u) => IInv' /\ OwnerStep
      BY FailedSteps DEF Kind
    <3> QED
      BY <2>2, <3>1, OpenStep, DeliverStep, AckedStep, DeniedStep DEF Upload
  <2> QED
    BY <1>1, <2>1, <2>2, EnumerateStep, IdleSteps, CheckRoundStep, AnswerCheckStep,
       ApplyStep, WorkStep, HashStep, HashStopsStep, EndWorkStep DEF Progress
<1>2. ASSUME NEW n \in Run, Trouble(n)
      PROVE  IInv' /\ OwnerStep
  <2>1. ASSUME NEW u \in run[n].crew, OpenFails(n, u)
        PROVE  IInv' /\ OwnerStep
    BY <2>1, FailedSteps DEF Kind
  <2> QED
    BY <1>2, <2>1, CheckFailsStep, FailedSteps DEF Trouble
<1>3. CASE Screen
  BY <1>3, StartStep, IdleSteps, ButtonSteps, ToggleStep, PairStep DEF Screen
<1>4. CASE World
  BY <1>4, WorldSteps, ComesDueStep, GoneStep DEF World, IInv, Plain
<1>5. CASE UNCHANGED vars
  <2>1. UNCHANGED <<queue, photo, ticked, run, pairing, store, seen, left>>
    BY <1>5 DEF vars
  <2>2. Plain'
    BY <2>1 DEF IInv, Plain, store, seen
  <2>3. Runs'
    BY <2>1, RunsStay DEF IInv, store, seen
  <2> QED
    BY <2>1, <2>2, <2>3, QueueStays, QueueMoves DEF IInv, store, seen
<1> QED
  BY <1>1, <1>2, <1>3, <1>4, <1>5 DEF Next

\* The invariant holds of every behaviour.
LEMMA Invariant == Spec => []IInv
<1>1. Init => IInv
  BY Initially
<1>2. IInv /\ [Next]_vars => IInv'
  BY EveryStep
<1> QED
  BY <1>1, <1>2, PTL DEF Spec

\* The queue has one row for an item, a run works from rows, and every variable
\* has its type, for any library, any number of runs and any bounds.
THEOREM TypeCorrect == Spec => []TypeOK
<1>1. IInv => TypeOK
  BY DEF IInv, QueueOK, Plain, Runs, Good, Bounds, TypeOK
<1> QED
  BY <1>1, Invariant, PTL

\* A row is done only of a content the archive has had, or of a photograph it has
\* purged (engine.ts, applyServerItems and the end of uploadOne).
THEOREM DoneWasArchivedCorrect == Spec => []DoneWasArchived
<1>1. IInv => DoneWasArchived
  BY DEF IInv, Claims, Backed, DoneWasArchived
<1> QED
  BY <1>1, Invariant, PTL

\* The phone makes its owner the promise Custody states: each step of Backup is a
\* step of Custody or none.
THEOREM ClaimsOnlyKeptCorrect == Spec => ClaimsOnlyKept
<1>1. Init => Owner!Init
  BY Initially
<1>2. IInv /\ [Next]_vars => [Owner!Next]_<<ever, claimed>>
  BY EveryStep DEF OwnerStep
<1>3. Spec => Owner!Init /\ [][Owner!Next]_<<ever, claimed>>
  BY <1>1, <1>2, Invariant, PTL DEF Spec
<1> QED
  BY <1>3, PTL DEF ClaimsOnlyKept, Owner!Spec
=============================================================================
