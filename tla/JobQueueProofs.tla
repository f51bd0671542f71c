--------------------------- MODULE JobQueueProofs ---------------------------
(***************************************************************************)
(* What holds of JobQueue for every set of jobs and workers and every      *)
(* budget of attempts, and of Derivatives for every set of videos, and any *)
(* number of asks and faults.                                              *)
(***************************************************************************)
EXTENDS Derivatives, TLAPS

USE QueueAssumption

-----------------------------------------------------------------------------
(* The operators the actions are built from.                               *)

\* Taking jobs from the workers changes nothing of a worker but its claim, and
\* that only if the worker had one of those jobs and its row was not deleted.
LEMMA WithoutWorkers ==
  ASSUME work \in [Worker -> WorkState],
         NEW J \in SUBSET Job, NEW claim \in {"stale", "gone"}
  PROVE  /\ Without(J, claim) \in [Worker -> WorkState]
         /\ \A w \in Worker :
              /\ Without(J, claim)[w].pc = work[w].pc
              /\ Without(J, claim)[w].job = work[w].job
              /\ Without(J, claim)[w].tries = work[w].tries
              /\ Without(J, claim)[w].claim =
                   IF work[w].job \in J /\ work[w].claim # "gone" THEN claim
                   ELSE work[w].claim
<1> SUFFICES ASSUME NEW w \in Worker
             PROVE  /\ Without(J, claim)[w] \in WorkState
                    /\ Without(J, claim)[w].pc = work[w].pc
                    /\ Without(J, claim)[w].job = work[w].job
                    /\ Without(J, claim)[w].tries = work[w].tries
                    /\ Without(J, claim)[w].claim =
                         IF work[w].job \in J /\ work[w].claim # "gone" THEN claim
                         ELSE work[w].claim
  BY DEF Without
<1>1. Without(J, claim)[w] = IF work[w].job \in J /\ work[w].claim # "gone"
                             THEN [work[w] EXCEPT !.claim = claim] ELSE work[w]
  BY DEF Without
<1>2. work[w] \in WorkState
  OBVIOUS
<1> QED
  BY <1>1, <1>2 DEF WorkState

\* A report leaves its worker where it says, takes its job from everybody else,
\* and changes its row, unless that row was deleted.
LEMMA ReportEffect ==
  ASSUME TypeOK, NEW w \in Worker, work[w].job \in Job,
         NEW r \in RowState, NEW next \in WorkState, Report(w, r, next)
  PROVE  LET j == work[w].job
         IN /\ work' \in [Worker -> WorkState]
            /\ work'[w] = next
            /\ \A v \in Worker \ {w} :
                 /\ work'[v].pc = work[v].pc
                 /\ work'[v].job = work[v].job
                 /\ work'[v].tries = work[v].tries
                 /\ work'[v].claim = IF work[v].job = j /\ work[w].claim # "gone"
                                        /\ work[v].claim # "gone"
                                     THEN "stale" ELSE work[v].claim
            /\ row' = IF work[w].claim = "gone" THEN row ELSE [row EXCEPT ![j] = r]
            /\ meddled' = IF work[w].claim = "stale" THEN meddled \cup {j} ELSE meddled
<1> DEFINE j == work[w].job
<1>1. work \in [Worker -> WorkState]
  BY DEF TypeOK
<1>2. CASE work[w].claim = "gone"
  BY <1>1, <1>2 DEF Report
<1>3. CASE work[w].claim # "gone"
  <2>1. /\ row' = [row EXCEPT ![j] = r]
        /\ work' = [Without({j}, "stale") EXCEPT ![w] = next]
        /\ meddled' = IF work[w].claim = "stale" THEN meddled \cup {j} ELSE meddled
    BY <1>3 DEF Report
  <2>2. Without({j}, "stale") \in [Worker -> WorkState]
    BY <1>1, WithoutWorkers
  <2>3. \A v \in Worker :
          /\ Without({j}, "stale")[v].pc = work[v].pc
          /\ Without({j}, "stale")[v].job = work[v].job
          /\ Without({j}, "stale")[v].tries = work[v].tries
          /\ Without({j}, "stale")[v].claim =
               IF work[v].job \in {j} /\ work[v].claim # "gone" THEN "stale"
               ELSE work[v].claim
    BY <1>1, WithoutWorkers
  <2> QED
    BY <1>3, <2>1, <2>2, <2>3
<1> QED
  BY <1>2, <1>3

\* What a worker may report: the run is done, the row goes back, with the attempt
\* (Defer) or without it, or it is parked and the asset is to be told.
Outcome(w, r, next) ==
  /\ r \in RowState /\ next \in WorkState
  /\ work[w].job \in Job /\ work[w].pc = "running"
  /\ Report(w, r, next)
  /\ r.lapsed = FALSE
  /\ \/ /\ r.state = "done" /\ r.attempts = row[work[w].job].attempts
        /\ next = Idle
     \/ /\ r.state = "pending" /\ r.attempts = row[work[w].job].attempts
        /\ work[w].tries < MaxAttempts /\ next = Idle
     \/ /\ r.state = "pending" /\ r.attempts = row[work[w].job].attempts - 1
        /\ next = Idle
     \/ /\ r.state = "failed" /\ r.attempts = row[work[w].job].attempts
        /\ next.pc = "marking" /\ next.job = work[w].job
        /\ next.tries = work[w].tries /\ next.claim = work[w].claim

\* Complete, Fail, and Defer of a running row, are reports.
LEMMA RunReports ==
  ASSUME TypeOK, NEW w \in Worker,
         \/ Complete(w) \/ \E hopeless \in BOOLEAN : Fail(w, hopeless)
         \/ Defer(w) /\ row[work[w].job].state = "running"
  PROVE  \E r, next : Outcome(w, r, next)
<1> DEFINE j == work[w].job
<1>1. work[w] \in WorkState /\ work[w].pc = "running" /\ work[w].tries \in Nat
  BY DEF TypeOK, WorkState, Complete, Fail, Defer
<1>2. j \in Job /\ row[j] \in RowState
  BY <1>1 DEF TypeOK
<1>3. Idle \in WorkState
  BY DEF Idle, WorkState
<1>4. CASE Complete(w)
  <2> DEFINE r == [row[j] EXCEPT !.state = "done", !.lapsed = FALSE]
  <2>1. r \in RowState /\ r.state = "done" /\ r.lapsed = FALSE /\ r.attempts = row[j].attempts
    BY <1>2 DEF RowState
  <2>2. Report(w, r, Idle)
    BY <1>4 DEF Complete
  <2> QED
    BY <1>1, <1>2, <1>3, <2>1, <2>2 DEF Outcome
<1>5. ASSUME NEW hopeless \in BOOLEAN, Fail(w, hopeless) PROVE \E r, next : Outcome(w, r, next)
  <2> DEFINE permanent == work[w].tries >= MaxAttempts \/ hopeless
             r == [row[j] EXCEPT !.state = IF permanent THEN "failed" ELSE "pending",
                                 !.due = FALSE, !.lapsed = FALSE]
             next == IF permanent THEN [work[w] EXCEPT !.pc = "marking"] ELSE Idle
  <2>1. /\ r \in RowState /\ r.lapsed = FALSE /\ r.attempts = row[j].attempts
        /\ r.state = IF permanent THEN "failed" ELSE "pending"
    BY <1>2 DEF RowState
  <2>2. Report(w, r, next)
    BY <1>5 DEF Fail
  <2>3. CASE permanent
    <3>1. /\ next \in WorkState /\ next.pc = "marking" /\ next.job = j
          /\ next.tries = work[w].tries /\ next.claim = work[w].claim
      BY <1>1, <2>3 DEF WorkState
    <3>2. r.state = "failed"
      BY <2>1, <2>3
    <3> HIDE DEF r, next
    <3> QED
      BY <1>1, <1>2, <2>1, <2>2, <3>1, <3>2 DEF Outcome
  <2>4. CASE ~permanent
    <3>1. next = Idle /\ r.state = "pending" /\ work[w].tries < MaxAttempts
      BY <1>1, <2>1, <2>4
    <3> HIDE DEF r, next
    <3> QED
      BY <1>1, <1>2, <1>3, <2>1, <2>2, <3>1 DEF Outcome
  <2> QED
    BY <2>3, <2>4
<1>6. CASE Defer(w) /\ row[j].state = "running"
  <2> DEFINE r == [row[j] EXCEPT !.state = "pending", !.attempts = @ - 1,
                                 !.due = FALSE, !.lapsed = FALSE]
  <2>1. row[j].attempts \in Nat /\ row[j].attempts > 0
    BY <1>2, <1>6 DEF TypeOK, RowState
  <2>2. row[j].attempts - 1 \in Nat
    BY <2>1
  <2>3. /\ r \in RowState /\ r.state = "pending" /\ r.lapsed = FALSE
        /\ r.attempts = row[j].attempts - 1
    <3> DEFINE n == row[j].attempts - 1
               q == [row[j] EXCEPT !.state = "pending", !.attempts = n,
                                   !.due = FALSE, !.lapsed = FALSE]
    <3>1. r = q
      OBVIOUS
    <3>2. n \in Nat
      BY <2>2
    <3> HIDE DEF n, r
    <3>3. q \in RowState /\ q.state = "pending" /\ q.lapsed = FALSE /\ q.attempts = n
      BY <1>2, <3>2 DEF RowState
    <3> QED
      BY <3>1, <3>3 DEF n
  <2>4. Report(w, r, Idle)
    BY <1>6 DEF Defer
  <2> HIDE DEF r
  <2> QED
    BY <1>1, <1>2, <1>3, <2>3, <2>4 DEF Outcome
<1> QED
  BY <1>4, <1>5, <1>6

\* Defer of a row that is not running leaves the row alone.
LEMMA DeferredElsewhere ==
  ASSUME NEW w \in Worker, Defer(w), row[work[w].job].state # "running"
  PROVE  /\ work' = [work EXCEPT ![w] = Idle]
         /\ UNCHANGED <<row, meddled>>
  BY DEF Defer

\* The rows and the worker that the statements write are typed.
LEMMA RowTypes ==
  /\ NoRow \in RowState /\ Asked \in RowState /\ Idle \in WorkState
  /\ NoRow.state = "none" /\ NoRow.lapsed = FALSE
  /\ Asked.state = "pending" /\ Asked.attempts = 0 /\ Asked.lapsed = FALSE
  /\ Idle.pc = "idle" /\ Idle.claim = "ours"
  BY DEF NoRow, Asked, Idle, RowState, WorkState

\* Whoever asks for work, or withdraws it, sets the rows of J to r and takes their
\* workers' claims.
Renewed(J, r, claim) ==
  /\ row' = [j \in Job |-> IF j \in J THEN r ELSE row[j]]
  /\ work' = Without(J, claim)
  /\ meddled' = meddled \ J

Renewal == (\E j \in Job : Asking(j)) \/ (\E J \in SUBSET Job : Discard(J))

\* Every way of asking does the same, and withdrawing work differs in what it
\* leaves.
LEMMA RenewalEffect ==
  ASSUME TypeOK, Renewal
  PROVE  \E J \in SUBSET Job, r \in {Asked, NoRow}, claim \in {"stale", "gone"} :
           Renewed(J, r, claim)
<1>1. ASSUME NEW j \in Job, Asking(j) PROVE Renewed({j}, Asked, "stale")
  <2>1. AskFor(j)
    BY <1>1 DEF Asking, Enqueue, Requeue, Reconcile, RequeueMLPrep
  <2> QED
    BY <2>1 DEF AskFor, Renewed, TypeOK
<1>2. ASSUME NEW J \in SUBSET Job, Discard(J)
      PROVE  Renewed({j \in J : row[j].state # "running"}, NoRow, "gone")
  BY <1>2 DEF Discard, Renewed
<1>3. CASE \E j \in Job : Asking(j)
  BY <1>1, <1>3
<1>4. CASE \E J \in SUBSET Job : Discard(J)
  <2>1. PICK J \in SUBSET Job : Discard(J)
    BY <1>4
  <2> DEFINE K == {j \in J : row[j].state # "running"}
  <2>2. K \in SUBSET Job /\ Renewed(K, NoRow, "gone")
    BY <1>2, <2>1
  <2> HIDE DEF K
  <2> QED
    BY <2>2
<1> QED
  BY <1>3, <1>4 DEF Renewal

-----------------------------------------------------------------------------
(* The types.                                                              *)

RowsOK ==
  /\ row \in [Job -> RowState]
  /\ \A j \in Job : /\ row[j].lapsed => row[j].state = "running"
                    /\ row[j].state = "running" => row[j].attempts > 0
                    /\ row[j].state = "none" => row[j] = NoRow

WorkOK ==
  /\ work \in [Worker -> WorkState]
  /\ \A w \in Worker : work[w].pc # "idle" => work[w].job \in Job /\ work[w].tries > 0

RestOK == meddled \subseteq Job

\* The type invariant, in the parts the steps disturb separately.
LEMMA TypeParts == TypeOK <=> RowsOK /\ WorkOK /\ RestOK
  BY DEF TypeOK, RowsOK, WorkOK, RestOK

\* The first rows are typed.
LEMMA TypeInit == Init => TypeOK
  BY RowTypes DEF Init, TypeOK

\* One row changes: what it becomes decides, the others are as they were.
LEMMA RowChange ==
  ASSUME RowsOK, NEW j \in Job, NEW r \in RowState,
         r.lapsed => r.state = "running",
         r.state = "running" => r.attempts > 0,
         r.state = "none" => r = NoRow,
         row' = [row EXCEPT ![j] = r]
  PROVE  RowsOK'
<1>1. row' \in [Job -> RowState]
  BY DEF RowsOK
<1>2. \A i \in Job : row'[i] = IF i = j THEN r ELSE row[i]
  BY DEF RowsOK
<1> QED
  BY <1>1, <1>2 DEF RowsOK

\* Setting or clearing one of the two flags changes nothing else of a row.
LEMMA FlagChange ==
  ASSUME NEW s \in RowState, NEW b \in BOOLEAN
  PROVE  /\ [s EXCEPT !.lapsed = b] \in RowState
         /\ [s EXCEPT !.lapsed = b].lapsed = b
         /\ [s EXCEPT !.lapsed = b].state = s.state
         /\ [s EXCEPT !.lapsed = b].attempts = s.attempts
         /\ [s EXCEPT !.due = b] \in RowState
         /\ [s EXCEPT !.due = b].lapsed = s.lapsed
         /\ [s EXCEPT !.due = b].state = s.state
         /\ [s EXCEPT !.due = b].attempts = s.attempts
  BY DEF RowState

\* Every statement leaves rows of the table: only a running one is leased, and a running
\* one has been tried.
LEMMA RowsStep == TypeOK /\ [Next]_vars => RowsOK'
<1> SUFFICES ASSUME TypeOK, [Next]_vars PROVE RowsOK'
  OBVIOUS
<1>t. RowsOK /\ WorkOK
  BY TypeParts
<1>r. ASSUME NEW j \in Job PROVE row[j] \in RowState
  BY <1>t DEF RowsOK
<1>1. ASSUME Renewal PROVE RowsOK'
  <2>1. PICK J \in SUBSET Job, r \in {Asked, NoRow}, claim \in {"stale", "gone"} :
          Renewed(J, r, claim)
    BY <1>1, RenewalEffect
  <2>2. r \in RowState /\ r.lapsed = FALSE /\ r.state \in {"pending", "none"}
    BY RowTypes
  <2>3. r.state = "none" => r = NoRow
    BY RowTypes
  <2> QED
    BY <1>t, <2>1, <2>2, <2>3 DEF Renewed, RowsOK
<1>2. ASSUME NEW j \in Job, ClaimLost(j) \/ \E w \in Worker : Claim(w, j) PROVE RowsOK'
  <2>1. row' = [row EXCEPT ![j] = Claimed(j)]
    BY <1>2 DEF ClaimLost, Claim
  <2>2. row[j].attempts \in Nat
    BY <1>r DEF RowState
  <2>3. /\ Claimed(j) \in RowState
        /\ Claimed(j).state = "running" /\ Claimed(j).attempts > 0
    BY <2>2 DEF Claimed, RowState
  <2> QED
    BY <2>1, <2>3, <1>t, RowChange
<1>3. ASSUME NEW j \in Job, ComesDue(j) \/ Lapses(j) \/ Stalls(j) PROVE RowsOK'
  <2>0. /\ row[j] \in RowState /\ row[j].state # "none"
        /\ row[j].lapsed => row[j].state = "running"
        /\ row[j].state = "running" => row[j].attempts > 0
    <3>1. row[j].state # "none"
      BY <1>3 DEF ComesDue, Lapses, Stalls
    <3> QED
      BY <1>r, <1>t, <3>1 DEF RowsOK
  <2>1. \/ row' = [row EXCEPT ![j] = [row[j] EXCEPT !.due = TRUE]]
        \/ /\ row[j].state = "running"
           /\ row' = [row EXCEPT ![j] = [row[j] EXCEPT !.lapsed = TRUE]]
    BY <1>3 DEF ComesDue, Lapses, Stalls
  <2>2. CASE row' = [row EXCEPT ![j] = [row[j] EXCEPT !.due = TRUE]]
    <3> DEFINE r == [row[j] EXCEPT !.due = TRUE]
    <3>1. /\ r \in RowState /\ r.state = row[j].state
          /\ r.attempts = row[j].attempts /\ r.lapsed = row[j].lapsed
      BY <2>0, FlagChange
    <3>2. row' = [row EXCEPT ![j] = r]
      BY <2>2
    <3> HIDE DEF r
    <3> QED
      BY <1>t, <2>0, <3>1, <3>2, RowChange
  <2>3. CASE /\ row[j].state = "running"
             /\ row' = [row EXCEPT ![j] = [row[j] EXCEPT !.lapsed = TRUE]]
    <3> DEFINE r == [row[j] EXCEPT !.lapsed = TRUE]
    <3>1. /\ r \in RowState /\ r.state = "running"
          /\ r.attempts = row[j].attempts
      BY <2>0, <2>3, FlagChange
    <3>2. row' = [row EXCEPT ![j] = r]
      BY <2>3
    <3> HIDE DEF r
    <3> QED
      BY <1>t, <2>0, <2>3, <3>1, <3>2, RowChange
  <2> QED
    BY <2>1, <2>2, <2>3
<1>4. ASSUME NEW w \in Worker, NEW r, NEW next, Outcome(w, r, next) PROVE RowsOK'
  <2>1. r \in RowState /\ r.state \in {"pending", "done", "failed"} /\ r.lapsed = FALSE
    BY <1>4 DEF Outcome
  <2>2. row' = row \/ row' = [row EXCEPT ![work[w].job] = r]
    BY <1>4, ReportEffect DEF Outcome
  <2>3. CASE row' = row
    BY <1>t, <2>3 DEF RowsOK
  <2>4. CASE row' # row
    BY <1>4, <1>t, <2>1, <2>2, <2>4, RowChange DEF Outcome
  <2> QED
    BY <2>3, <2>4
<1>5. ASSUME NEW w \in Worker, Complete(w) \/ \E hopeless \in BOOLEAN : Fail(w, hopeless)
      PROVE  RowsOK'
  BY <1>4, <1>5, RunReports
<1>7. ASSUME NEW w \in Worker, Defer(w) PROVE RowsOK'
  <2>1. CASE row[work[w].job].state = "running"
    BY <1>4, <1>7, <2>1, RunReports
  <2>2. CASE row[work[w].job].state # "running"
    <3>1. row' = row
      BY <1>7, <2>2, DeferredElsewhere
    <3> QED
      BY <1>t, <3>1 DEF RowsOK
  <2> QED
    BY <2>1, <2>2
<1>8. ASSUME NEW w \in Worker, Heartbeat(w) PROVE RowsOK'
  <2>1. work[w].job \in Job
    BY <1>8, <1>t DEF Heartbeat, WorkOK
  <2>2. /\ row[work[w].job] \in RowState
        /\ row[work[w].job].state = "running" /\ row[work[w].job].attempts > 0
    BY <1>8, <1>t, <1>r, <2>1 DEF Heartbeat, RowsOK
  <2>3. row' = [row EXCEPT ![work[w].job] = [row[work[w].job] EXCEPT !.lapsed = FALSE]]
    BY <1>8 DEF Heartbeat
  <2> QED
    <3> DEFINE j == work[w].job
               r == [row[j] EXCEPT !.lapsed = FALSE]
    <3>1. /\ r \in RowState /\ r.state = "running"
          /\ r.attempts > 0 /\ r.lapsed = FALSE
      BY <2>2, FlagChange
    <3>2. j \in Job /\ row' = [row EXCEPT ![j] = r]
      BY <2>1, <2>3
    <3> HIDE DEF j, r
    <3> QED
      BY <1>t, <3>1, <3>2, RowChange
<1>9. ASSUME NEW w \in Worker, MarkFailed(w) \/ ReportLost(w)
      PROVE  RowsOK'
  BY <1>9, <1>t DEF MarkFailed, ReportLost, RowsOK
<1>10. ASSUME ReclaimExpired PROVE RowsOK'
  <2>1. \A j \in Job : row'[j] = IF row[j].lapsed THEN Reclaimed(j) ELSE row[j]
    BY <1>10 DEF ReclaimExpired, Expired
  <2>2. ASSUME NEW j \in Job
        PROVE  /\ Reclaimed(j) \in RowState
               /\ Reclaimed(j).state \in {"pending", "failed"} /\ Reclaimed(j).lapsed = FALSE
    BY <1>r DEF Reclaimed, RowState
  <2>3. row' \in [Job -> RowState]
    BY <1>10, <1>r, <2>2 DEF ReclaimExpired
  <2> QED
    BY <1>t, <2>1, <2>2, <2>3 DEF RowsOK
<1>11. ASSUME Crash \/ UNCHANGED vars PROVE RowsOK'
  BY <1>11, <1>t DEF Crash, vars, RowsOK
<1> QED
  BY <1>1, <1>2, <1>3, <1>5, <1>7, <1>8, <1>9, <1>10, <1>11 DEF Next, Renewal

\* Every statement leaves workers that are idle or hold a job they have tried.
LEMMA WorkStep == TypeOK /\ [Next]_vars => WorkOK'
<1> SUFFICES ASSUME TypeOK, [Next]_vars PROVE WorkOK'
  OBVIOUS
<1> USE DEF WorkOK
<1>t. RowsOK /\ WorkOK
  BY TypeParts
<1>1. ASSUME NEW J \in SUBSET Job, NEW claim \in {"stale", "gone"}, work' = Without(J, claim)
      PROVE  WorkOK'
  BY <1>1, <1>t, WithoutWorkers
<1>2. ASSUME Renewal PROVE WorkOK'
  BY <1>1, <1>2, RenewalEffect DEF Renewed
<1>3. ASSUME NEW w \in Worker, NEW j \in Job, Claim(w, j) PROVE WorkOK'
  BY <1>3, <1>t DEF Claim, WorkState, RowsOK, RowState
<1>4. ASSUME NEW w \in Worker, NEW r, NEW next, Outcome(w, r, next) PROVE WorkOK'
  <2>1. next.pc # "idle" => next.job \in Job /\ next.tries > 0
    BY <1>4, <1>t, RowTypes DEF Outcome
  <2> QED
    BY <1>4, <1>t, <2>1, ReportEffect DEF Outcome
<1>5. ASSUME NEW w \in Worker, Complete(w) \/ \E hopeless \in BOOLEAN : Fail(w, hopeless)
      PROVE  WorkOK'
  BY <1>4, <1>5, RunReports
<1>7. ASSUME NEW w \in Worker, Defer(w) PROVE WorkOK'
  BY <1>t, <1>4, <1>7, RunReports, DeferredElsewhere, RowTypes
<1>8. ASSUME NEW w \in Worker, MarkFailed(w) \/ ReportLost(w)
      PROVE  WorkOK'
  BY <1>8, <1>t, RowTypes DEF MarkFailed, ReportLost, WorkState
<1>9. ASSUME ReclaimExpired PROVE WorkOK'
  BY <1>1, <1>9 DEF ReclaimExpired, Expired
<1>10. ASSUME Crash PROVE WorkOK'
  BY <1>10, <1>t, RowTypes DEF Crash
<1>11. ASSUME \/ \E j \in Job : ClaimLost(j) \/ ComesDue(j) \/ Lapses(j) \/ Stalls(j)
              \/ \E w \in Worker : Heartbeat(w)
              \/ UNCHANGED vars
       PROVE  WorkOK'
  BY <1>11, <1>t DEF ClaimLost, ComesDue, Lapses, Stalls, Heartbeat, vars
<1> QED
  BY <1>2, <1>3, <1>5, <1>7, <1>8, <1>9, <1>10, <1>11 DEF Next, Renewal

\* Only jobs are ever reported on late.
LEMMA RestStep == TypeOK /\ [Next]_vars => RestOK'
<1> SUFFICES ASSUME TypeOK, [Next]_vars PROVE RestOK'
  OBVIOUS
<1> USE DEF RestOK
<1>t. RestOK /\ WorkOK
  BY TypeParts
<1>1. ASSUME Renewal PROVE RestOK'
  BY <1>1, <1>t, RenewalEffect DEF Renewed
<1>2. ASSUME NEW w \in Worker, NEW j \in Job, Claim(w, j) PROVE RestOK'
  BY <1>2, <1>t DEF Claim
<1>3. ASSUME NEW w \in Worker, work[w].job \in Job, NEW r, NEW next, Report(w, r, next)
      PROVE  RestOK'
  BY <1>3, <1>t DEF Report
<1>4. ASSUME NEW w \in Worker,
             Complete(w) \/ \E hopeless \in BOOLEAN : Fail(w, hopeless)
      PROVE  RestOK'
  BY <1>4, <1>3, <1>t DEF Complete, Fail, WorkOK
<1>5. ASSUME NEW w \in Worker, Defer(w) PROVE RestOK'
  BY <1>5, <1>3, <1>t DEF Defer, WorkOK
<1>6. ASSUME \/ \E j \in Job : ClaimLost(j) \/ ComesDue(j) \/ Lapses(j) \/ Stalls(j)
             \/ \E w \in Worker : Heartbeat(w) \/ ReportLost(w) \/ MarkFailed(w)
             \/ ReclaimExpired \/ Crash
             \/ UNCHANGED vars
      PROVE  RestOK'
  BY <1>6, <1>t DEF ClaimLost, ComesDue, Lapses, Stalls, Heartbeat, ReportLost, MarkFailed,
                    ReclaimExpired, Crash, vars
<1> QED
  BY <1>1, <1>2, <1>4, <1>5, <1>6 DEF Next, Renewal

\* Every variable has its type, a lease is of a running row, and a row that was
\* never claimed has spent nothing, for every set of jobs and workers.
THEOREM QueueTypeCorrect == Spec => []TypeOK
<1>1. TypeOK /\ [Next]_vars => TypeOK'
  <2> SUFFICES ASSUME TypeOK, [Next]_vars PROVE TypeOK'
    OBVIOUS
  <2>1. RowsOK' /\ WorkOK' /\ RestOK'
    BY RowsStep, WorkStep, RestStep
  <2> QED
    BY <2>1 DEF TypeOK, RowsOK, WorkOK, RestOK
<1> QED
  BY TypeInit, <1>1, PTL DEF Spec

-----------------------------------------------------------------------------
(* One worker per job.                                                     *)

\* The workers busy with a job whose claim on its row still stands, those that
\* have parked it and are about to tell the asset included.
Owns(w, j) == work[w].pc # "idle" /\ work[w].job = j /\ work[w].claim = "ours"

\* ExclusiveUnlessTakenBack says nothing of a worker about to tell the asset, and
\* such a worker must not be one of two either.
OwnerInv ==
  \A j \in Job, w \in Worker : Owns(w, j) =>
    /\ \A v \in Worker : Owns(v, j) => v = w
    /\ IF work[w].pc = "marking" THEN row[j].state \in {"running", "failed"}
       ELSE row[j].state = "running"

\* Whoever holds a job owns it and is not yet telling the asset.
LEMMA HoldersOwn ==
  ASSUME NEW j \in Job, NEW w \in Holder(j)
  PROVE  w \in Worker /\ Owns(w, j) /\ work[w].pc # "marking"
  BY DEF Holder, Executing, Owns

\* Two workers that both own a job are one worker: exclusion follows from ownership.
LEMMA OwnerExclusive == OwnerInv => ExclusiveUnlessTakenBack
<1> SUFFICES ASSUME OwnerInv, NEW j \in Job, NEW w \in Holder(j)
             PROVE  (\A v \in Holder(j) : v = w) /\ row[j].state = "running"
  BY DEF ExclusiveUnlessTakenBack
<1> QED
  BY HoldersOwn DEF OwnerInv

\* A report ends the ownership of whoever did not make it.
LEMMA ReportOwners ==
  ASSUME TypeOK, NEW w \in Worker, NEW r, NEW next, Outcome(w, r, next)
  PROVE  \A v \in Worker, j \in Job : Owns(v, j)' =>
           \/ /\ v # w /\ Owns(v, j) /\ work'[v] = work[v]
              /\ work[w].job # j \/ work[w].claim = "gone"
           \/ /\ v = w /\ work[w].job = j /\ Owns(w, j)
              /\ r.state = "failed" /\ work'[w].pc = "marking" /\ work[w].pc # "marking"
<1> SUFFICES ASSUME NEW v \in Worker, NEW j \in Job, Owns(v, j)'
             PROVE  \/ /\ v # w /\ Owns(v, j) /\ work'[v] = work[v]
                       /\ work[w].job # j \/ work[w].claim = "gone"
                    \/ /\ v = w /\ work[w].job = j /\ Owns(w, j)
                       /\ r.state = "failed" /\ work'[w].pc = "marking" /\ work[w].pc # "marking"
  OBVIOUS
<1>1. CASE v = w
  <2>1. work'[w] = next
    BY ReportEffect DEF Outcome
  <2> QED
    BY <1>1, <2>1, RowTypes DEF Outcome, Owns
<1>2. CASE v # w
  <2>1. /\ work'[v].pc = work[v].pc /\ work'[v].job = work[v].job
        /\ work'[v].tries = work[v].tries
        /\ work'[v].claim = IF work[v].job = work[w].job /\ work[w].claim # "gone"
                               /\ work[v].claim # "gone"
                            THEN "stale" ELSE work[v].claim
    BY <1>2, ReportEffect DEF Outcome
  <2>2. work'[v] \in WorkState /\ work[v] \in WorkState
    BY ReportEffect DEF Outcome, TypeOK
  <2>3. work'[v].claim = work[v].claim /\ (work[w].job # j \/ work[w].claim = "gone")
    BY <2>1 DEF Owns
  <2>4. work'[v] = work[v]
    BY <2>1, <2>2, <2>3 DEF WorkState
  <2> QED
    BY <1>2, <2>1, <2>3, <2>4 DEF Owns
<1> QED
  BY <1>1, <1>2

\* Every statement keeps one owner per running job.
LEMMA OwnerStep == TypeOK /\ OwnerInv /\ [Next]_vars => OwnerInv'
<1> SUFFICES ASSUME TypeOK, OwnerInv, [Next]_vars PROVE OwnerInv'
  OBVIOUS
<1> USE DEF OwnerInv
<1>t. RowsOK /\ WorkOK
  BY TypeParts
<1>1. ASSUME Renewal PROVE OwnerInv'
  <2>1. PICK J \in SUBSET Job, r \in {Asked, NoRow}, claim \in {"stale", "gone"} :
          Renewed(J, r, claim)
    BY <1>1, RenewalEffect
  <2>2. \A w \in Worker, i \in Job : Owns(w, i)' =>
          i \notin J /\ Owns(w, i) /\ work'[w].pc = work[w].pc
    BY <1>t, <2>1, WithoutWorkers DEF Renewed, Owns, WorkOK
  <2>3. \A i \in Job : i \notin J => row'[i] = row[i]
    BY <2>1 DEF Renewed
  <2> QED
    BY <2>2, <2>3
<1>2. ASSUME NEW w \in Worker, NEW j \in Job, Claim(w, j) PROVE OwnerInv'
  <2>1. \A v \in Worker : ~Owns(v, j)
    BY <1>2 DEF Claim, Runnable
  <2>2. \A v \in Worker, i \in Job : Owns(v, i)' =>
          \/ v = w /\ i = j /\ work'[v].pc = "running"
          \/ v # w /\ i # j /\ Owns(v, i) /\ work'[v].pc = work[v].pc
    BY <1>2, <1>t, <2>1 DEF Claim, Owns, WorkOK
  <2>3. row'[j].state = "running" /\ \A i \in Job : i # j => row'[i] = row[i]
    BY <1>2, <1>t DEF Claim, Claimed, RowsOK
  <2> QED
    BY <2>2, <2>3
<1>3. ASSUME NEW w \in Worker, NEW r, NEW next, Outcome(w, r, next) PROVE OwnerInv'
  <2>1. row' = IF work[w].claim = "gone" THEN row ELSE [row EXCEPT ![work[w].job] = r]
    BY <1>3, ReportEffect DEF Outcome
  <2>2. ASSUME NEW j \in Job, NEW v \in Worker, Owns(v, j)'
        PROVE  /\ \A u \in Worker : Owns(u, j)' => u = v
               /\ IF work'[v].pc = "marking" THEN row'[j].state \in {"running", "failed"}
                  ELSE row'[j].state = "running"
    <3>1. CASE v # w
      <4>1. /\ Owns(v, j) /\ work'[v] = work[v]
            /\ work[w].job # j \/ work[w].claim = "gone"
        BY <1>3, <2>2, <3>1, ReportOwners
      <4>2. row'[j] = row[j]
        BY <1>t, <2>1, <4>1 DEF RowsOK
      <4>3. \A u \in Worker : Owns(u, j)' => Owns(u, j)
        BY <1>3, ReportOwners
      <4> QED
        BY <4>1, <4>2, <4>3
    <3>2. CASE v = w
      <4>1. /\ work[w].job = j /\ Owns(w, j) /\ r.state = "failed"
            /\ work'[w].pc = "marking"
        BY <1>3, <2>2, <3>2, ReportOwners
      <4>2. row'[j] = r
        BY <1>t, <2>1, <4>1 DEF RowsOK, Owns
      <4>3. \A u \in Worker : Owns(u, j)' => Owns(u, j)
        BY <1>3, ReportOwners
      <4> QED
        BY <3>2, <4>1, <4>2, <4>3
    <3> QED
      BY <3>1, <3>2
  <2> QED
    BY <2>2
<1>4. ASSUME NEW w \in Worker, Complete(w) \/ \E hopeless \in BOOLEAN : Fail(w, hopeless)
      PROVE  OwnerInv'
  BY <1>3, <1>4, RunReports
<1>5. ASSUME row' = row, work' \in [Worker -> WorkState],
             \A v \in Worker : \/ work'[v] = Idle
                               \/ work'[v] = work[v]
                               \/ /\ work'[v].pc = "marking" \/ work[v].pc # "marking"
                                  /\ work[v].pc # "idle"
                                  /\ work'[v].job = work[v].job
                                  /\ work'[v].claim = work[v].claim
      PROVE  OwnerInv'
  <2>1. \A v \in Worker, j \in Job : Owns(v, j)' =>
          Owns(v, j) /\ (work'[v].pc = "marking" \/ work[v].pc # "marking")
    BY <1>5, RowTypes DEF Owns
  <2> QED
    BY <1>5, <2>1
<1>6. ASSUME NEW w \in Worker, MarkFailed(w) \/ ReportLost(w)
      PROVE  OwnerInv'
  <2>1. row' = row /\ work' \in [Worker -> WorkState]
    BY <1>6, <1>t, WorkStep DEF MarkFailed, ReportLost, WorkOK
  <2>2. \/ work' = [work EXCEPT ![w] = Idle]
        \/ work' = [work EXCEPT ![w].pc = "marking"] /\ work[w].pc # "idle"
    BY <1>6 DEF MarkFailed, ReportLost
  <2> QED
    BY <1>5, <1>t, <2>1, <2>2 DEF WorkOK, WorkState
<1>7. ASSUME NEW w \in Worker, Defer(w) PROVE OwnerInv'
  <2>1. CASE row[work[w].job].state = "running"
    BY <1>3, <1>7, <2>1, RunReports
  <2>2. CASE row[work[w].job].state # "running"
    <3>1. row' = row /\ work' = [work EXCEPT ![w] = Idle]
      BY <1>7, <2>2, DeferredElsewhere
    <3> QED
      BY <1>5, <1>t, <3>1, RowTypes DEF WorkOK
  <2> QED
    BY <2>1, <2>2
<1>8. ASSUME ReclaimExpired PROVE OwnerInv'
  <2>1. \A v \in Worker, j \in Job : Owns(v, j)' => j \notin Expired /\ Owns(v, j)
                                                   /\ work'[v].pc = work[v].pc
    BY <1>8, <1>t, WithoutWorkers DEF ReclaimExpired, Expired, Owns, WorkOK
  <2>2. \A j \in Job : j \notin Expired => row'[j] = row[j]
    BY <1>8 DEF ReclaimExpired
  <2> QED
    BY <2>1, <2>2
<1>9. ASSUME Crash PROVE OwnerInv'
  BY <1>9, RowTypes DEF Crash, Owns
<1>10. ASSUME work' = work, \A j \in Job : row'[j].state = row[j].state \/ \A v \in Worker : ~Owns(v, j)
       PROVE  OwnerInv'
  BY <1>10 DEF Owns
<1>11. ASSUME \/ \E j \in Job : ClaimLost(j) \/ ComesDue(j) \/ Lapses(j) \/ Stalls(j)
              \/ \E w \in Worker : Heartbeat(w)
              \/ UNCHANGED vars
       PROVE  OwnerInv'
  <2>1. CASE \E j \in Job : ClaimLost(j)
    <3>1. PICK j \in Job : ClaimLost(j)
      BY <2>1
    <3>2. \A v \in Worker : ~Owns(v, j)
      BY <3>1 DEF ClaimLost, Runnable
    <3> QED
      BY <1>10, <1>t, <3>1, <3>2 DEF ClaimLost, RowsOK
  <2>2. CASE \E j \in Job : ComesDue(j) \/ Lapses(j) \/ Stalls(j)
    BY <1>10, <1>t, <2>2 DEF ComesDue, Lapses, Stalls, RowsOK, RowState
  <2>3. CASE \E w \in Worker : Heartbeat(w)
    BY <1>10, <1>t, <2>3 DEF Heartbeat, RowsOK, WorkOK, RowState
  <2>4. CASE UNCHANGED vars
    BY <1>10, <2>4 DEF vars
  <2> QED
    BY <1>11, <2>1, <2>2, <2>3, <2>4
<1> QED
  BY <1>1, <1>2, <1>4, <1>6, <1>7, <1>8, <1>9, <1>11 DEF Next, Renewal

\* One worker has a job, and its row says so, however leases lapse and jobs are
\* asked for again: any other has had its claim taken back.
THEOREM ExclusiveCorrect == Spec => []ExclusiveUnlessTakenBack
<1>1. Init => OwnerInv
  BY RowTypes DEF Init, OwnerInv, Owns
<1> QED
  BY <1>1, OwnerStep, OwnerExclusive, QueueTypeCorrect, PTL DEF Spec

-----------------------------------------------------------------------------
(* The budget of attempts.                                                 *)

\* A report decides by the attempts its claim returned: they are those of the
\* row for as long as the claim stands.
BudgetInv ==
  /\ AttemptsWithinBudget
  /\ \A j \in Job, w \in Worker : Owns(w, j) => work[w].tries = row[j].attempts

\* Every statement keeps the attempts of a row within the budget, and equal to what its
\* owner was told when it claimed it.
LEMMA BudgetStep == TypeOK /\ OwnerInv /\ BudgetInv /\ [Next]_vars => BudgetInv'
<1> SUFFICES ASSUME TypeOK, OwnerInv, BudgetInv, [Next]_vars PROVE BudgetInv'
  OBVIOUS
<1> USE DEF BudgetInv, AttemptsWithinBudget
<1>t. RowsOK /\ WorkOK
  BY TypeParts
<1>m. MaxAttempts \in Nat /\ MaxAttempts > 0
  OBVIOUS
<1>a. \A j \in Job : row[j].attempts \in Nat
  BY <1>t DEF RowsOK, RowState
<1>1. ASSUME Renewal PROVE BudgetInv'
  <2>1. PICK J \in SUBSET Job, r \in {Asked, NoRow}, claim \in {"stale", "gone"} :
          Renewed(J, r, claim)
    BY <1>1, RenewalEffect
  <2>2. \A w \in Worker, i \in Job : Owns(w, i)' =>
          i \notin J /\ Owns(w, i) /\ work'[w].tries = work[w].tries
    BY <1>t, <2>1, WithoutWorkers DEF Renewed, Owns, WorkOK
  <2>3. /\ \A i \in Job : row'[i] = IF i \in J THEN r ELSE row[i]
        /\ r.attempts = 0 /\ meddled' = meddled \ J
    BY <2>1 DEF Renewed, Asked, NoRow
  <2> QED
    BY <1>m, <2>2, <2>3
<1>2. ASSUME NEW w \in Worker, NEW j \in Job, Claim(w, j) PROVE BudgetInv'
  <2>1. \A v \in Worker : ~Owns(v, j)
    BY <1>2 DEF Claim, Runnable, OwnerInv
  <2>2. \A v \in Worker, i \in Job : Owns(v, i)' =>
          \/ i = j /\ work'[v].tries = row[j].attempts + 1
          \/ i # j /\ Owns(v, i) /\ work'[v].tries = work[v].tries
    BY <1>2, <1>t, <2>1 DEF Claim, Owns, WorkOK
  <2>3. /\ row'[j].state = "running" /\ row'[j].attempts = row[j].attempts + 1
        /\ row[j].state = "pending"
        /\ \A i \in Job : i # j => row'[i] = row[i]
        /\ meddled' = meddled
    BY <1>2, <1>t DEF Claim, Claimed, Runnable, RowsOK
  <2> QED
    BY <1>a, <1>m, <2>2, <2>3
<1>3. ASSUME NEW j \in Job, ClaimLost(j) PROVE BudgetInv'
  <2>1. \A v \in Worker : ~Owns(v, j)
    BY <1>3 DEF ClaimLost, Runnable, OwnerInv
  <2>2. /\ row'[j].state = "running" /\ row'[j].attempts = row[j].attempts + 1
        /\ row[j].state = "pending"
        /\ \A i \in Job : i # j => row'[i] = row[i]
        /\ meddled' = meddled /\ work' = work
    BY <1>3, <1>t DEF ClaimLost, Claimed, Runnable, RowsOK
  <2> QED
    BY <1>a, <1>m, <2>1, <2>2 DEF Owns
<1>4. ASSUME NEW w \in Worker, NEW r, NEW next, Outcome(w, r, next) PROVE BudgetInv'
  <2> DEFINE k == work[w].job
  <2>1. /\ row' = IF work[w].claim = "gone" THEN row ELSE [row EXCEPT ![k] = r]
        /\ meddled' = IF work[w].claim = "stale" THEN meddled \cup {k} ELSE meddled
    BY <1>4, ReportEffect DEF Outcome
  <2>2. k \in Job /\ work[w].claim \in {"ours", "stale", "gone"}
    BY <1>4, <1>t DEF Outcome, WorkOK, WorkState
  <2>3. \A i \in Job : i # k => row'[i] = row[i]
    BY <1>t, <2>1, <2>2 DEF RowsOK
  <2>4. ASSUME NEW v \in Worker, NEW i \in Job, Owns(v, i)'
        PROVE  work'[v].tries = row'[i].attempts
    <3>1. CASE v # w
      <4>1. Owns(v, i) /\ work'[v] = work[v] /\ (k # i \/ work[w].claim = "gone")
        BY <1>4, <2>4, <3>1, ReportOwners
      <4>2. row'[i] = row[i]
        BY <2>1, <2>3, <4>1
      <4>3. work[v].tries = row[i].attempts
        BY <4>1
      <4> QED
        BY <4>1, <4>2, <4>3
    <3>2. CASE v = w
      <4>a. k = i /\ Owns(w, i) /\ r.state = "failed"
        BY <1>4, <2>4, <3>2, ReportOwners
      <4>b. work'[w] = next
        BY <1>4, ReportEffect DEF Outcome
      <4>1. k = i /\ Owns(w, i) /\ r.state = "failed" /\ work'[w] = next
        BY <4>a, <4>b
      <4>2. row'[i] = r
        BY <1>t, <2>1, <4>1 DEF RowsOK, Owns
      <4>3. next.tries = work[w].tries /\ r.attempts = row[i].attempts
        BY <1>4, <4>1 DEF Outcome
      <4> QED
        BY <3>2, <4>1, <4>2, <4>3
    <3> QED
      BY <3>1, <3>2
  <2>5. ASSUME NEW i \in Job \ meddled'
        PROVE  /\ row'[i].attempts <= MaxAttempts
               /\ row'[i].state = "pending" => row'[i].attempts < MaxAttempts
    <3>1. CASE i # k \/ work[w].claim = "gone"
      BY <2>1, <2>3, <2>5, <3>1
    <3>2. CASE i = k /\ work[w].claim = "ours"
      <4>1. row'[k] = r /\ meddled' = meddled
        BY <1>t, <2>1, <2>2, <3>2 DEF RowsOK
      <4>2. Owns(w, k) /\ work[w].tries = row[k].attempts
        BY <1>4, <2>2, <3>2 DEF Outcome, Owns
      <4>3. row[k].attempts <= MaxAttempts /\ row[k].attempts \in Nat
        BY <1>a, <2>2, <2>5, <3>2, <4>1
      <4>4. /\ r.attempts = row[k].attempts \/ r.attempts = row[k].attempts - 1
            /\ r.state = "pending" =>
                 work[w].tries < MaxAttempts \/ r.attempts = row[k].attempts - 1
        BY <1>4 DEF Outcome
      <4>5. r.state = "pending" /\ work[w].tries < MaxAttempts =>
              r.attempts < MaxAttempts
        BY <1>m, <4>2, <4>3, <4>4
      <4> QED
        BY <1>m, <3>2, <4>1, <4>3, <4>4, <4>5
    <3>3. CASE i = k /\ work[w].claim = "stale"
      BY <2>1, <2>5, <3>3
    <3> QED
      BY <2>2, <3>1, <3>2, <3>3
  <2> QED
    BY <2>4, <2>5
<1>5. ASSUME NEW w \in Worker, Complete(w) \/ \E hopeless \in BOOLEAN : Fail(w, hopeless)
      PROVE  BudgetInv'
  BY <1>4, <1>5, RunReports
<1>6. ASSUME row' = row, meddled \subseteq meddled',
             \A v \in Worker, j \in Job : Owns(v, j)' =>
               Owns(v, j) /\ work'[v].tries = work[v].tries
      PROVE  BudgetInv'
  BY <1>6
<1>7. ASSUME NEW w \in Worker, MarkFailed(w) \/ ReportLost(w)
      PROVE  BudgetInv'
  <2>1. row' = row /\ meddled \subseteq meddled'
    BY <1>7 DEF MarkFailed, ReportLost
  <2>2. \/ work' = [work EXCEPT ![w] = Idle]
        \/ work' = [work EXCEPT ![w].pc = "marking"] /\ work[w].pc # "idle"
    BY <1>7 DEF MarkFailed, ReportLost
  <2>3. \A v \in Worker, j \in Job : Owns(v, j)' =>
          Owns(v, j) /\ work'[v].tries = work[v].tries
    BY <1>t, <2>2, RowTypes DEF Owns, WorkOK, WorkState
  <2> QED
    BY <1>6, <2>1, <2>3
<1>8. ASSUME NEW w \in Worker, Defer(w) PROVE BudgetInv'
  <2>1. CASE row[work[w].job].state = "running"
    BY <1>4, <1>8, <2>1, RunReports
  <2>2. CASE row[work[w].job].state # "running"
    <3>1. row' = row /\ meddled' = meddled /\ work' = [work EXCEPT ![w] = Idle]
      BY <1>8, <2>2, DeferredElsewhere
    <3>2. \A v \in Worker, j \in Job : Owns(v, j)' =>
            Owns(v, j) /\ work'[v].tries = work[v].tries
      BY <1>t, <3>1, RowTypes DEF Owns, WorkOK
    <3> QED
      BY <1>6, <3>1, <3>2
  <2> QED
    BY <2>1, <2>2
<1>9. ASSUME ReclaimExpired PROVE BudgetInv'
  <2>1. \A v \in Worker, j \in Job : Owns(v, j)' =>
          j \notin Expired /\ Owns(v, j) /\ work'[v].tries = work[v].tries
    BY <1>9, <1>t, WithoutWorkers DEF ReclaimExpired, Expired, Owns, WorkOK
  <2>2. /\ \A j \in Job : j \notin Expired => row'[j] = row[j]
        /\ meddled' = meddled
    BY <1>9 DEF ReclaimExpired
  <2>3. \A j \in Expired :
          /\ j \in Job /\ row'[j].attempts = row[j].attempts
          /\ row'[j].state = "pending" => ~(row[j].attempts >= MaxAttempts)
    BY <1>9, <1>t DEF ReclaimExpired, Expired, Reclaimed, RowsOK, RowState
  <2> QED
    BY <1>a, <1>m, <2>1, <2>2, <2>3
<1>10. ASSUME Crash PROVE BudgetInv'
  BY <1>10, RowTypes DEF Crash, Owns
<1>11. ASSUME work' = work, meddled' = meddled,
              \A j \in Job : row'[j].state = row[j].state /\ row'[j].attempts = row[j].attempts
       PROVE  BudgetInv'
  BY <1>11 DEF Owns
<1>12. ASSUME \/ \E j \in Job : ComesDue(j) \/ Lapses(j) \/ Stalls(j)
              \/ \E w \in Worker : Heartbeat(w)
              \/ UNCHANGED vars
       PROVE  BudgetInv'
  <2>1. CASE \E j \in Job : ComesDue(j) \/ Lapses(j) \/ Stalls(j)
    BY <1>11, <1>t, <2>1 DEF ComesDue, Lapses, Stalls, RowsOK, RowState
  <2>2. CASE \E w \in Worker : Heartbeat(w)
    BY <1>11, <1>t, <2>2 DEF Heartbeat, RowsOK, WorkOK, RowState
  <2>3. CASE UNCHANGED vars
    BY <1>11, <2>3 DEF vars
  <2> QED
    BY <1>12, <2>1, <2>2, <2>3
<1> QED
  BY <1>1, <1>2, <1>3, <1>5, <1>7, <1>8, <1>9, <1>10, <1>12 DEF Next, Renewal

\* Between two asks no job is claimed more often than its budget, deferrals,
\* crashes and lapsed leases counted in, unless a worker that had lost its claim
\* wrote to the row.
THEOREM AttemptsCorrect == Spec => []AttemptsWithinBudget
<1>1. Init => BudgetInv
  BY RowTypes DEF Init, BudgetInv, AttemptsWithinBudget, NoRow, Owns
<1>2. Init => OwnerInv
  BY RowTypes DEF Init, OwnerInv, Owns
<1>3. BudgetInv => AttemptsWithinBudget
  BY DEF BudgetInv
<1> QED
  BY <1>1, <1>2, <1>3, OwnerStep, BudgetStep, QueueTypeCorrect, PTL DEF Spec

-----------------------------------------------------------------------------
(* The runs work the queue.                                                *)

\* A video has its two jobs, and every job is one of a video.
LEMMA JobsOfVideos ==
  /\ \A v \in Video : Metadata(v) \in Job /\ Playback(v) \in Job
  /\ \A j \in Job : /\ j[1] \in Video /\ j[2] \in {"metadata", "playback"}
                    /\ j = IF j[2] = "metadata" THEN Metadata(j[1]) ELSE Playback(j[1])
  /\ \A u, v \in Video : /\ Metadata(u) # Playback(v)
                         /\ Metadata(u) = Metadata(v) => u = v
                         /\ Playback(u) = Playback(v) => u = v
  BY DerivativesAssumption DEF Metadata, Playback

\* Whatever asks for, takes, ends or interrupts a run takes a step of the queue,
\* and what a run does in between is none of the queue's business.
LEMMA DerivStep == TypeOK /\ [DerivNext]_derivVars => [Next]_vars
<1> SUFFICES ASSUME TypeOK, [DerivNext]_derivVars PROVE [Next]_vars
  OBVIOUS
<1>1. ASSUME NEW j \in Job, Demand(j) \/ Elapse(j) \/ Interrupt(j) PROVE Next
  BY <1>1 DEF Demand, Elapse, Interrupt, Next
<1>2. ASSUME NEW v \in Video, AskFor(Metadata(v)) \/ AskFor(Playback(v)) PROVE Next
  BY <1>2, JobsOfVideos DEF Next, Asking, Requeue
<1>3. ASSUME NEW v \in Video, Pair(v) \/ Restore(v) PROVE [Next]_vars
  BY <1>2, <1>3 DEF Pair, Restore
<1>4. ASSUME NEW v \in Video, Hide(v) PROVE Next
  <2>1. Discard({Metadata(v), Playback(v)}) /\ {Metadata(v), Playback(v)} \in SUBSET Job
    BY <1>4, JobsOfVideos DEF Hide
  <2> QED
    BY <2>1 DEF Next
<1>5. ASSUME NEW w \in Worker, QueuePlayback(w) PROVE Next
  <2>1. work[w].job \in Job
    BY <1>5 DEF QueuePlayback, Running, TypeOK
  <2>2. AskFor(Playback(work[w].job[1])) /\ work[w].job[1] \in Video
    BY <1>5, <2>1, JobsOfVideos DEF QueuePlayback
  <2> QED
    BY <1>2, <2>2
<1>6. ASSUME NEW w \in Worker,
             \/ ReadAsset(w) \/ ApplyContentID(w) \/ StoreMetadata(w) \/ OweNothing(w)
             \/ KeepRendition(w) \/ OwePlayback(w) \/ BuildPlayback(w)
      PROVE  UNCHANGED vars
  BY <1>6 DEF ReadAsset, ApplyContentID, StoreMetadata, OweNothing, KeepRendition,
              OwePlayback, BuildPlayback
<1>7. ASSUME NEW w \in Worker,
             \/ \E j \in Job : Take(w, j)
             \/ CompleteRun(w) \/ \E hopeless \in BOOLEAN : FailRun(w, hopeless)
             \/ TellFailed(w) \/ Beat(w) \/ DeferRun(w) \/ LoseReport(w) \/ MarkLost(w)
      PROVE  Next
  BY <1>7 DEF Take, CompleteRun, FailRun, TellFailed, Beat, DeferRun, LoseReport, MarkLost, Next
<1>8. ASSUME Sweep \/ CrashAll PROVE Next
  BY <1>8 DEF Sweep, CrashAll, Next
<1>9. ASSUME UNCHANGED derivVars PROVE UNCHANGED vars
  BY <1>9 DEF derivVars
<1> QED
  BY <1>1, <1>3, <1>4, <1>5, <1>6, <1>7, <1>8, <1>9 DEF DerivNext, Working

\* The queue under the runs is the queue: what is proved of it holds here.
THEOREM DerivativesUseTheQueue == DerivSpec => Spec
<1>1. DerivInit => Init /\ TypeOK
  BY TypeInit DEF DerivInit
<1>2. TypeOK /\ [DerivNext]_derivVars => TypeOK'
  <2> SUFFICES ASSUME TypeOK, [Next]_vars PROVE TypeOK'
    BY DerivStep
  <2>1. RowsOK' /\ WorkOK' /\ RestOK'
    BY RowsStep, WorkStep, RestStep
  <2> QED
    BY <2>1 DEF TypeOK, RowsOK, WorkOK, RestOK
<1> QED
  BY <1>1, <1>2, DerivStep, PTL DEF DerivSpec, Spec

-----------------------------------------------------------------------------
(* The types of the assets and of the runs.                                *)

RunsOK ==
  /\ run \in [Worker -> RunState]
  /\ \A w \in Worker :
       /\ run[w].at # "start" => work[w].pc = "running"
       /\ run[w].at \in {"stored", "flipped"} => work[w].job[2] = "metadata"

AssetsOK ==
  /\ asset \in [Video -> AssetState]
  /\ stranded \subseteq Video /\ {v \in Video : asset[v].vault} \subseteq stranded

BoundsOK == asks \in 0..MaxAsks /\ faults \in 0..MaxFaults

\* The type invariant of Derivatives, in the parts the steps disturb separately.
LEMMA TypingParts == Typing <=> TypeOK /\ RunsOK /\ AssetsOK /\ BoundsOK
  BY DEF Typing, RunsOK, AssetsOK, BoundsOK

\* The runs, and the assets, the statements write are typed.
LEMMA RunTypes ==
  /\ Fresh \in RunState /\ Fresh.at = "start"
  /\ \A at \in {"flipped", "ended"} : Past(at) \in RunState /\ Past(at).at = at
  /\ \A a \in AssetState : Reading(a) \in RunState /\ Reading(a).at = "read"
  BY DEF Fresh, Past, Reading, RunState, AssetState

\* A worker at a statement of a run is at a job, of a video.
LEMMA AtJob ==
  ASSUME TypeOK, NEW w \in Worker, work[w].pc # "idle"
  PROVE  work[w].job \in Job /\ work[w].job[1] \in Video
  BY JobsOfVideos DEF TypeOK

\* Renewing rows, and the sweep, leave every worker at its job, and no claim
\* that is gone comes back.
SameJobs ==
  \A w \in Worker : /\ work'[w].pc = work[w].pc /\ work'[w].job = work[w].job
                    /\ work[w].claim = "gone" => work'[w].claim = "gone"

LEMMA RenewalKeepsJobs ==
  ASSUME TypeOK, Renewal \/ ReclaimExpired
  PROVE  SameJobs
<1>1. work \in [Worker -> WorkState]
  BY DEF TypeOK
<1>2. PICK J \in SUBSET Job, claim \in {"stale", "gone"} : work' = Without(J, claim)
  BY RenewalEffect DEF Renewed, ReclaimExpired, Expired
<1> QED
  BY <1>1, <1>2, WithoutWorkers DEF SameJobs

\* What ends a run, or what follows it, leaves every other worker at its job and
\* its own worker at no run.
Released(w) ==
  /\ work'[w].pc # "running"
  /\ \A u \in Worker \ {w} :
       /\ work'[u].pc = work[u].pc /\ work'[u].job = work[u].job
       /\ work[u].claim = "gone" => work'[u].claim = "gone"

LEMMA EndReleases ==
  ASSUME TypeOK, NEW w \in Worker,
         \/ Complete(w) \/ \E hopeless \in BOOLEAN : Fail(w, hopeless)
         \/ Defer(w) \/ ReportLost(w) \/ MarkFailed(w)
  PROVE  Released(w)
<1>t. work \in [Worker -> WorkState]
  BY DEF TypeOK
<1>1. ASSUME NEW r, NEW next, Outcome(w, r, next) PROVE Released(w)
  <2>1. work'[w] = next /\ next.pc # "running"
    BY <1>1, ReportEffect, RowTypes DEF Outcome
  <2>2. \A u \in Worker \ {w} :
          /\ work'[u].pc = work[u].pc /\ work'[u].job = work[u].job
          /\ work'[u].claim = IF work[u].job = work[w].job /\ work[w].claim # "gone"
                                 /\ work[u].claim # "gone"
                              THEN "stale" ELSE work[u].claim
    BY <1>1, ReportEffect DEF Outcome
  <2> QED
    BY <2>1, <2>2 DEF Released
<1>2. ASSUME \/ work' = [work EXCEPT ![w] = Idle]
             \/ work' = [work EXCEPT ![w].pc = "marking"]
      PROVE  Released(w)
  BY <1>t, <1>2, RowTypes DEF Released, WorkState
<1>3. CASE Complete(w) \/ \E hopeless \in BOOLEAN : Fail(w, hopeless)
  BY <1>1, <1>3, RunReports
<1>4. CASE Defer(w)
  <2>1. CASE row[work[w].job].state = "running"
    BY <1>1, <1>4, <2>1, RunReports
  <2>2. CASE row[work[w].job].state # "running"
    BY <1>2, <1>4, <2>2, DeferredElsewhere
  <2> QED
    BY <2>1, <2>2
<1>5. CASE ReportLost(w) \/ MarkFailed(w)
  BY <1>2, <1>5 DEF ReportLost, MarkFailed
<1> QED
  BY <1>3, <1>4, <1>5

\* A run is somewhere only while its worker runs it, and only a metadata run is
\* ever between its statements.
LEMMA RunsStep == Typing /\ [DerivNext]_derivVars => RunsOK'
<1> SUFFICES ASSUME Typing, [DerivNext]_derivVars PROVE RunsOK'
  OBVIOUS
<1>t. TypeOK /\ RunsOK /\ AssetsOK
  BY TypingParts
<1> USE DEF RunsOK
<1>1. ASSUME run' = run, SameJobs PROVE RunsOK'
  BY <1>1, <1>t DEF SameJobs
<1>2. ASSUME run' = run, UNCHANGED work PROVE RunsOK'
  BY <1>2, <1>t
<1>3. ASSUME NEW w \in Worker, Released(w), run' = [run EXCEPT ![w] = Fresh]
      PROVE  RunsOK'
  BY <1>3, <1>t, RunTypes DEF Released
<1>4. ASSUME NEW w \in Worker, UNCHANGED work \/ SameJobs, NEW r \in RunState,
             run' = [run EXCEPT ![w] = r], work[w].pc = "running",
             r.at \in {"stored", "flipped"} => work[w].job[2] = "metadata"
      PROVE  RunsOK'
  BY <1>4, <1>t DEF SameJobs
<1>5. ASSUME NEW j \in Job, Demand(j) PROVE RunsOK'
  BY <1>1, <1>5, <1>t, RenewalKeepsJobs DEF Demand, Renewal
<1>6. ASSUME NEW j \in Job, Elapse(j) \/ Interrupt(j) PROVE RunsOK'
  BY <1>2, <1>6 DEF Elapse, Interrupt, ComesDue, Lapses, ClaimLost, Stalls
<1>a. ASSUME NEW j \in Job, AskFor(j) PROVE SameJobs
  BY <1>a, <1>t, RenewalKeepsJobs DEF Renewal, Asking, Requeue
<1>7. ASSUME NEW v \in Video, Pair(v) \/ Restore(v) PROVE RunsOK'
  BY <1>1, <1>2, <1>7, <1>a, JobsOfVideos DEF Pair, Restore, vars
<1>8. ASSUME NEW v \in Video, Hide(v) PROVE RunsOK'
  <2>1. Discard({Metadata(v), Playback(v)}) /\ {Metadata(v), Playback(v)} \in SUBSET Job
    BY <1>8, JobsOfVideos DEF Hide
  <2> QED
    BY <1>1, <1>8, <1>t, <2>1, RenewalKeepsJobs DEF Renewal, Hide
<1>9. ASSUME NEW w \in Worker, NEW j \in Job, Take(w, j) PROVE RunsOK'
  <2>1. run' = run /\ run[w].at = "start"
    BY <1>9, <1>t DEF Take, Claim
  <2>2. \A u \in Worker : u # w => work'[u] = work[u]
    BY <1>9, <1>t DEF Take, Claim, TypeOK
  <2> QED
    BY <1>t, <2>1, <2>2
<1>10. ASSUME NEW w \in Worker, ReadAsset(w) PROVE RunsOK'
  <2> DEFINE a == asset[work[w].job[1]]
             r == IF a.vault THEN Past("ended") ELSE Reading(a)
  <2>1. a \in AssetState
    BY <1>10, <1>t, AtJob DEF ReadAsset, Running, AssetsOK
  <2>2. r \in RunState /\ r.at \in {"read", "ended"}
    BY <2>1, RunTypes
  <2>3. run' = [run EXCEPT ![w] = r] /\ work[w].pc = "running" /\ work' = work
    BY <1>10 DEF ReadAsset, Running, vars
  <2> HIDE DEF r
  <2> QED
    BY <1>4, <2>2, <2>3
<1>11. ASSUME NEW w \in Worker, ApplyContentID(w) PROVE RunsOK'
  <2> DEFINE v == work[w].job[1]
  <2>1. v \in Video /\ asset[v] \in AssetState
    BY <1>11, <1>t, AtJob DEF ApplyContentID, Running, AssetsOK
  <2>2. PICK paired \in BOOLEAN : asset' = [asset EXCEPT ![v].live = paired]
    BY <1>11 DEF ApplyContentID
  <2>3. asset'[v] \in AssetState
    BY <1>t, <2>1, <2>2 DEF AssetsOK, AssetState
  <2>4. Reading(asset'[v]) \in RunState /\ Reading(asset'[v]).at = "read"
    BY <2>3, RunTypes
  <2>5. run' = [run EXCEPT ![w] = Reading(asset'[v])] /\ work[w].pc = "running" /\ work' = work
    BY <1>11 DEF ApplyContentID, Running, vars
  <2> QED
    BY <1>4, <2>4, <2>5
<1>12. ASSUME NEW w \in Worker, StoreMetadata(w) PROVE RunsOK'
  <2>1. /\ [run[w] EXCEPT !.at = "stored"] \in RunState
        /\ work[w].pc = "running" /\ work[w].job[2] = "metadata" /\ work' = work
        /\ run' = [run EXCEPT ![w] = [run[w] EXCEPT !.at = "stored"]]
    BY <1>12, <1>t DEF StoreMetadata, Running, RunState, vars
  <2> QED
    BY <1>4, <2>1
<1>13. ASSUME NEW w \in Worker,
              \/ OweNothing(w) \/ KeepRendition(w) \/ OwePlayback(w)
              \/ QueuePlayback(w) \/ BuildPlayback(w)
       PROVE  RunsOK'
  <2>1. PICK at \in {"flipped", "ended"} :
          /\ run' = [run EXCEPT ![w] = Past(at)] /\ work[w].pc = "running"
          /\ at = "flipped" => run[w].at = "stored"
    BY <1>13 DEF OweNothing, KeepRendition, OwePlayback, QueuePlayback, BuildPlayback, Running
  <2>2. at = "flipped" => work[w].job[2] = "metadata"
    BY <1>t, <2>1
  <2>3. UNCHANGED work \/ SameJobs
    <3>1. CASE QueuePlayback(w)
      <4>1. Playback(work[w].job[1]) \in Job
        BY <1>t, <2>1, AtJob, JobsOfVideos
      <4> QED
        BY <3>1, <4>1, <1>a DEF QueuePlayback
    <3>2. CASE ~QueuePlayback(w)
      BY <1>13, <3>2 DEF OweNothing, KeepRendition, OwePlayback, BuildPlayback, vars
    <3> QED
      BY <3>1, <3>2
  <2> QED
    BY <1>4, <2>1, <2>2, <2>3, RunTypes
<1>14. ASSUME NEW w \in Worker,
              \/ CompleteRun(w) \/ \E hopeless \in BOOLEAN : FailRun(w, hopeless)
              \/ DeferRun(w) \/ LoseReport(w)
       PROVE  RunsOK'
  <2>1. Released(w)
    BY <1>14, <1>t, EndReleases DEF CompleteRun, FailRun, DeferRun, LoseReport
  <2>2. run' = [run EXCEPT ![w] = Fresh]
    BY <1>14 DEF CompleteRun, FailRun, DeferRun, LoseReport, Leave
  <2> QED
    BY <1>3, <2>1, <2>2
<1>15. ASSUME NEW w \in Worker, TellFailed(w) \/ MarkLost(w) PROVE RunsOK'
  <2>1. Released(w) /\ run' = run /\ work[w].pc = "marking"
    BY <1>15, <1>t, EndReleases DEF TellFailed, MarkLost, MarkFailed
  <2>2. run[w].at = "start"
    BY <1>t, <2>1
  <2> QED
    BY <1>t, <2>1, <2>2 DEF Released
<1>16. ASSUME NEW w \in Worker, Beat(w) PROVE RunsOK'
  BY <1>2, <1>16 DEF Beat, Heartbeat
<1>17. ASSUME Sweep PROVE RunsOK'
  BY <1>1, <1>17, <1>t, RenewalKeepsJobs DEF Sweep
<1>18. ASSUME CrashAll PROVE RunsOK'
  BY <1>18, RunTypes DEF CrashAll
<1>19. ASSUME UNCHANGED derivVars PROVE RunsOK'
  BY <1>2, <1>19 DEF derivVars, vars
<1> QED
  BY <1>5, <1>6, <1>7, <1>8, <1>9, <1>10, <1>11, <1>12, <1>13, <1>14, <1>15, <1>16, <1>17,
     <1>18, <1>19 DEF DerivNext, Working

\* A statement writes one column of one asset, and what it leaves in the vault is
\* excused.
LEMMA AssetsStep == Typing /\ [DerivNext]_derivVars => AssetsOK'
<1> SUFFICES ASSUME Typing, [DerivNext]_derivVars PROVE AssetsOK'
  OBVIOUS
<1>t. TypeOK /\ RunsOK /\ AssetsOK
  BY TypingParts
<1> USE DEF AssetsOK
<1>1. ASSUME asset' = asset, stranded \subseteq stranded', stranded' \subseteq Video
      PROVE  AssetsOK'
  BY <1>1, <1>t
<1>2. ASSUME NEW v \in Video, NEW a \in AssetState, asset' = [asset EXCEPT ![v] = a],
             a.vault = asset[v].vault, stranded' = stranded
      PROVE  AssetsOK'
  BY <1>2, <1>t
<1>3. ASSUME NEW v \in Video, NEW p \in {"none", "ready", "failed"}, Tell(v, p) PROVE AssetsOK'
  <2>1. /\ asset' = [asset EXCEPT ![v] = [asset[v] EXCEPT !.playback = p]]
        /\ stranded' = IF asset[v].vault THEN stranded ELSE stranded \ {v}
    BY <1>3 DEF Tell
  <2>2. /\ [asset[v] EXCEPT !.playback = p] \in AssetState
        /\ [asset[v] EXCEPT !.playback = p].vault = asset[v].vault
    BY <1>t DEF AssetState
  <2> QED
    BY <1>t, <2>1, <2>2
<1>4. ASSUME NEW j \in Job, Demand(j) \/ Elapse(j) \/ Interrupt(j) PROVE AssetsOK'
  BY <1>1, <1>4, <1>t DEF Demand, Elapse, Interrupt
<1>5. ASSUME NEW v \in Video, Pair(v) PROVE AssetsOK'
  <2>1. /\ asset' = [asset EXCEPT ![v] = [asset[v] EXCEPT !.live = TRUE]]
        /\ stranded' = stranded
    BY <1>5 DEF Pair
  <2>2. /\ [asset[v] EXCEPT !.live = TRUE] \in AssetState
        /\ [asset[v] EXCEPT !.live = TRUE].vault = asset[v].vault
    BY <1>t DEF AssetState
  <2> QED
    BY <1>2, <2>1, <2>2
<1>6. ASSUME NEW v \in Video, Hide(v) PROVE AssetsOK'
  <2>1. /\ asset' = [asset EXCEPT ![v] = [asset[v] EXCEPT !.vault = TRUE]]
        /\ stranded' = stranded \cup {v}
    BY <1>6 DEF Hide
  <2>2. [asset[v] EXCEPT !.vault = TRUE] \in AssetState
    BY <1>t DEF AssetState
  <2> QED
    BY <1>t, <2>1, <2>2
<1>7. ASSUME NEW v \in Video, Restore(v) PROVE AssetsOK'
  <2>1. /\ asset' = [asset EXCEPT ![v] = [asset[v] EXCEPT !.vault = FALSE]]
        /\ stranded' = stranded
    BY <1>7 DEF Restore
  <2>2. /\ [asset[v] EXCEPT !.vault = FALSE] \in AssetState
        /\ [asset[v] EXCEPT !.vault = FALSE].vault = FALSE
    BY <1>t DEF AssetState
  <2> QED
    BY <1>t, <2>1, <2>2
<1>8. ASSUME NEW w \in Worker,
             \/ \E j \in Job : Take(w, j)
             \/ ReadAsset(w) \/ KeepRendition(w) \/ CompleteRun(w) \/ MarkLost(w) \/ Beat(w)
      PROVE  AssetsOK'
  BY <1>1, <1>8, <1>t DEF Take, ReadAsset, KeepRendition, CompleteRun, MarkLost, Beat
<1>9. ASSUME NEW w \in Worker, ApplyContentID(w) PROVE AssetsOK'
  <2> DEFINE v == work[w].job[1]
  <2>1. v \in Video
    BY <1>9, <1>t, AtJob DEF ApplyContentID, Running
  <2>2. PICK paired \in BOOLEAN : asset' = [asset EXCEPT ![v] = [asset[v] EXCEPT !.live = paired]]
    BY <1>9 DEF ApplyContentID
  <2>3. /\ [asset[v] EXCEPT !.live = paired] \in AssetState
        /\ [asset[v] EXCEPT !.live = paired].vault = asset[v].vault
    BY <1>t, <2>1 DEF AssetState
  <2>4. stranded' = stranded
    BY <1>9 DEF ApplyContentID
  <2> QED
    BY <1>2, <2>1, <2>2, <2>3, <2>4
<1>10. ASSUME NEW w \in Worker, StoreMetadata(w) PROVE AssetsOK'
  <2> DEFINE v == work[w].job[1]
  <2>1. v \in Video
    BY <1>10, <1>t, AtJob DEF StoreMetadata, Running
  <2>2. /\ asset' = [asset EXCEPT ![v] = [asset[v] EXCEPT !.derived = "ready"]]
        /\ stranded' = stranded
    BY <1>10 DEF StoreMetadata
  <2>3. /\ [asset[v] EXCEPT !.derived = "ready"] \in AssetState
        /\ [asset[v] EXCEPT !.derived = "ready"].vault = asset[v].vault
    BY <1>t, <2>1 DEF AssetState
  <2> QED
    BY <1>2, <2>1, <2>2, <2>3
<1>11. ASSUME NEW w \in Worker, OwePlayback(w) PROVE AssetsOK'
  <2> DEFINE v == work[w].job[1]
  <2>1. v \in Video
    BY <1>11, <1>t, AtJob DEF OwePlayback, Running
  <2>2. /\ asset' = [asset EXCEPT ![v] = [asset[v] EXCEPT !.playback = "pending"]]
        /\ stranded' = stranded
    BY <1>11 DEF OwePlayback
  <2>3. /\ [asset[v] EXCEPT !.playback = "pending"] \in AssetState
        /\ [asset[v] EXCEPT !.playback = "pending"].vault = asset[v].vault
    BY <1>t, <2>1 DEF AssetState
  <2> QED
    BY <1>2, <2>1, <2>2, <2>3
<1>12. ASSUME NEW w \in Worker, QueuePlayback(w) PROVE AssetsOK'
  <2>1. work[w].job[1] \in Video
    BY <1>12, <1>t, AtJob DEF QueuePlayback, Running
  <2> QED
    BY <1>1, <1>12, <1>t, <2>1 DEF QueuePlayback
<1>13. ASSUME NEW w \in Worker, OweNothing(w) \/ BuildPlayback(w) PROVE AssetsOK'
  <2>1. work[w].job[1] \in Video
    BY <1>13, <1>t, AtJob DEF OweNothing, BuildPlayback, Running
  <2> QED
    BY <1>3, <1>13, <2>1 DEF OweNothing, BuildPlayback
<1>14. ASSUME NEW w \in Worker,
              (\E hopeless \in BOOLEAN : FailRun(w, hopeless)) \/ DeferRun(w) \/ LoseReport(w)
       PROVE  AssetsOK'
  <2>1. work[w].job[1] \in Video
    BY <1>14, <1>t, AtJob DEF FailRun, DeferRun, LoseReport, Fail, Defer, ReportLost
  <2> QED
    BY <1>1, <1>14, <1>t, <2>1 DEF FailRun, DeferRun, LoseReport, Leave
<1>15. ASSUME NEW w \in Worker, TellFailed(w) PROVE AssetsOK'
  <2> DEFINE v == work[w].job[1]
  <2>1. v \in Video
    BY <1>15, <1>t, AtJob DEF TellFailed, MarkFailed
  <2>2. CASE work[w].job[2] = "playback"
    BY <1>3, <1>15, <2>1, <2>2 DEF TellFailed
  <2>3. CASE work[w].job[2] # "playback"
    <3>1. /\ asset' = [asset EXCEPT ![v] = [asset[v] EXCEPT !.derived = "failed"]]
          /\ stranded' = stranded
      BY <1>15, <2>3 DEF TellFailed
    <3>2. /\ [asset[v] EXCEPT !.derived = "failed"] \in AssetState
          /\ [asset[v] EXCEPT !.derived = "failed"].vault = asset[v].vault
      BY <1>t, <2>1 DEF AssetState
    <3> QED
      BY <1>2, <2>1, <3>1, <3>2
  <2> QED
    BY <2>2, <2>3
<1>16. ASSUME Sweep \/ CrashAll \/ UNCHANGED derivVars PROVE AssetsOK'
  BY <1>1, <1>16, <1>t DEF Sweep, CrashAll, derivVars
<1> QED
  BY <1>4, <1>5, <1>6, <1>7, <1>8, <1>9, <1>10, <1>11, <1>12, <1>13, <1>14, <1>15, <1>16
     DEF DerivNext, Working

\* A budget is spent one at a time.
LEMMA BoundsStep == Typing /\ [DerivNext]_derivVars => BoundsOK'
<1> SUFFICES ASSUME Typing, [DerivNext]_derivVars PROVE BoundsOK'
  OBVIOUS
<1>t. BoundsOK
  BY TypingParts
<1>1. Ask \/ Fault \/ UNCHANGED budget
  <2>1. ASSUME NEW j \in Job, Demand(j) \/ Elapse(j) \/ Interrupt(j) PROVE Ask \/ Fault \/ UNCHANGED budget
    BY <2>1 DEF Demand, Elapse, Interrupt
  <2>2. ASSUME NEW v \in Video, Pair(v) \/ Hide(v) \/ Restore(v) PROVE Ask \/ Fault \/ UNCHANGED budget
    BY <2>2 DEF Pair, Hide, Restore
  <2>3. ASSUME NEW w \in Worker,
               \/ \E j \in Job : Take(w, j)
               \/ ApplyContentID(w) \/ Beat(w) \/ DeferRun(w) \/ LoseReport(w) \/ MarkLost(w)
        PROVE  Ask \/ Fault \/ UNCHANGED budget
    BY <2>3 DEF Take, ApplyContentID, Beat, DeferRun, LoseReport, MarkLost
  <2>4. ASSUME NEW w \in Worker, Working(w) PROVE UNCHANGED budget
    BY <2>4 DEF Working, ReadAsset, StoreMetadata, OweNothing, KeepRendition, OwePlayback,
                QueuePlayback, BuildPlayback, CompleteRun, FailRun, TellFailed
  <2>5. ASSUME Sweep \/ CrashAll \/ UNCHANGED derivVars PROVE Fault \/ UNCHANGED budget
    BY <2>5 DEF Sweep, CrashAll, derivVars
  <2> QED
    BY <2>1, <2>2, <2>3, <2>4, <2>5 DEF DerivNext
<1> QED
  BY <1>t, <1>1, DerivativesAssumption DEF BoundsOK, Ask, Fault, budget

\* Assets, runs and queue have their types; only a run in progress is past its
\* start, only a metadata run is ever between its statements, and what is in the
\* vault is excused, for every set of videos and workers and any bounds.
THEOREM TypingCorrect == DerivSpec => []Typing
<1>1. DerivInit => Typing
  <2> SUFFICES ASSUME DerivInit PROVE Typing
    OBVIOUS
  <2>1. TypeOK
    BY TypeInit DEF DerivInit
  <2>2. AssetsOK
    BY DEF DerivInit, AssetsOK, AssetState
  <2>3. RunsOK /\ BoundsOK
    BY RunTypes, DerivativesAssumption DEF DerivInit, RunsOK, BoundsOK
  <2> QED
    BY <2>1, <2>2, <2>3, TypingParts
<1>2. Typing /\ [DerivNext]_derivVars => Typing'
  <2> SUFFICES ASSUME Typing, [DerivNext]_derivVars PROVE Typing'
    OBVIOUS
  <2>1. RowsOK' /\ WorkOK' /\ RestOK'
    BY TypingParts, DerivStep, RowsStep, WorkStep, RestStep
  <2>2. TypeOK'
    BY <2>1 DEF TypeOK, RowsOK, WorkOK, RestOK
  <2> QED
    BY <2>2, RunsStep, AssetsStep, BoundsStep DEF Typing, RunsOK, AssetsOK, BoundsOK
<1> QED
  BY <1>1, <1>2, PTL DEF DerivSpec

-----------------------------------------------------------------------------
(* No rendition is promised with nothing behind the promise.               *)

\* A job that is not done: it is queued, at work, or parked where it is seen.
Wanted(j) == row[j].state \in {"pending", "running", "failed"}

\* A playback job that is still to run, with no run about to complete it.
InHand(v) == Wanted(Playback(v)) /\ Ended(Playback(v)) = {}

\* A metadata run that has not concluded from what it read that nothing is owed,
\* or whose conclusion is of no use to its row.
Undecided(w) ==
  \/ work[w].claim = "gone"
  \/ run[w].at = "start"
  \/ run[w].at \in {"read", "stored"} /\ run[w].saw # "ready"

\* A metadata job that is still to decide.
Unmade(v) == Wanted(Metadata(v)) /\ \A w \in RunsOf(Metadata(v)) : Undecided(w)

Promised(v) == InHand(v) \/ Flipped(v) # {} \/ Unmade(v)

\* NothingStalled asks only for a row; that the row is not about to be completed
\* by a run that knows nothing of the promise is what keeps it true.
StallInv == \A v \in Video \ stranded : asset[v].playback = "pending" => Promised(v)

\* The promise is what the property asks for.
LEMMA PromiseHeld == TypeOK /\ StallInv => NothingStalled
<1> SUFFICES ASSUME StallInv, NEW v \in Video \ stranded, asset[v].playback = "pending",
                    row[Playback(v)].state \in {"none", "done"}
             PROVE  Flipped(v) # {} \/ row[Metadata(v)].state \in {"pending", "running", "failed"}
  BY DEF NothingStalled
<1> QED
  BY DEF StallInv, Promised, InHand, Unmade, Wanted

\* What keeps a promise: the rows stay wanted, no playback run ends, no metadata
\* run stops between its statements or decides.
Keeps(v) ==
  /\ InHand(v) => Wanted(Playback(v))'
  /\ Unmade(v) => Wanted(Metadata(v))'
  /\ Ended(Playback(v))' \subseteq Ended(Playback(v))
  /\ Flipped(v) \subseteq Flipped(v)'
  /\ \A w \in RunsOf(Metadata(v))' :
       Undecided(w)' \/ (w \in RunsOf(Metadata(v)) /\ ~Undecided(w))

LEMMA KeepsPromise == ASSUME NEW v \in Video, Promised(v), Keeps(v) PROVE Promised(v)'
  BY DEF Promised, Keeps, InHand, Unmade

\* A job is wanted for as long as nobody completes or withdraws it.
LEMMA StaysWanted ==
  ASSUME TypeOK, NEW j \in Job, Wanted(j),
         \/ UNCHANGED row
         \/ \E i \in Job : ClaimLost(i) \/ ComesDue(i) \/ Lapses(i) \/ Stalls(i) \/ Asking(i)
         \/ \E w \in Worker : \/ \E i \in Job : Claim(w, i)
                              \/ Heartbeat(w) \/ Defer(w) \/ ReportLost(w) \/ MarkFailed(w)
                              \/ \E hopeless \in BOOLEAN : Fail(w, hopeless)
         \/ ReclaimExpired \/ Crash
  PROVE  Wanted(j)'
<1>r. row \in [Job -> RowState]
  BY DEF TypeOK
<1>1. CASE UNCHANGED row
  BY <1>1 DEF Wanted
<1>2. ASSUME NEW i \in Job, NEW r, r.state \in {"pending", "running", "failed"},
             row' = [row EXCEPT ![i] = r]
      PROVE  Wanted(j)'
  BY <1>2, <1>r DEF Wanted
<1>3. ASSUME NEW i \in Job, Asking(i) PROVE Wanted(j)'
  <2>1. row' = [row EXCEPT ![i] = Asked]
    BY <1>3 DEF Asking, Enqueue, Requeue, Reconcile, RequeueMLPrep, AskFor
  <2>2. row'[j] = row[j] \/ row'[j] = Asked
    BY <1>r, <2>1
  <2> QED
    BY <2>2, RowTypes DEF Wanted
<1>4. ASSUME NEW i \in Job, ClaimLost(i) \/ \E w \in Worker : Claim(w, i) PROVE Wanted(j)'
  <2>1. row' = [row EXCEPT ![i] = Claimed(i)]
    BY <1>4 DEF ClaimLost, Claim
  <2>2. row'[j] = row[j] \/ row'[j] = Claimed(i)
    BY <1>r, <2>1
  <2>3. Claimed(i).state = "running"
    BY DEF Claimed
  <2> QED
    BY <2>2, <2>3 DEF Wanted
<1>5. ASSUME NEW i \in Job, ComesDue(i) \/ Lapses(i) \/ Stalls(i) PROVE Wanted(j)'
  <2>1. row'[j].state = row[j].state
    BY <1>5, <1>r DEF ComesDue, Lapses, Stalls, RowState
  <2> QED
    BY <2>1 DEF Wanted
<1>6. ASSUME NEW w \in Worker, Heartbeat(w) PROVE Wanted(j)'
  <2>1. row'[j].state = row[j].state
    BY <1>6, <1>r DEF Heartbeat, RowState
  <2> QED
    BY <2>1 DEF Wanted
<1>7. ASSUME NEW w \in Worker, ReportLost(w) \/ MarkFailed(w) PROVE Wanted(j)'
  BY <1>1, <1>7 DEF ReportLost, MarkFailed
<1>8. ASSUME NEW w \in Worker, Defer(w) PROVE Wanted(j)'
  <2> DEFINE i == work[w].job
             r == [row[i] EXCEPT !.state = "pending", !.attempts = @ - 1,
                                 !.due = FALSE, !.lapsed = FALSE]
  <2>1. i \in Job /\ row[i] \in RowState
    BY <1>8, <1>r DEF Defer, TypeOK
  <2>2. r.state = "pending"
    BY <2>1 DEF RowState
  <2>3. row' = row \/ row' = [row EXCEPT ![i] = r]
    BY <1>8 DEF Defer, Report
  <2> HIDE DEF r
  <2> QED
    BY <1>1, <1>2, <2>1, <2>2, <2>3
<1>9. ASSUME NEW w \in Worker, NEW hopeless \in BOOLEAN, Fail(w, hopeless) PROVE Wanted(j)'
  <2> DEFINE i == work[w].job
             r == [row[i] EXCEPT
                     !.state = IF work[w].tries >= MaxAttempts \/ hopeless
                               THEN "failed" ELSE "pending",
                     !.due = FALSE, !.lapsed = FALSE]
  <2>1. i \in Job /\ row[i] \in RowState
    BY <1>9, <1>r DEF Fail, TypeOK
  <2>2. r.state \in {"pending", "failed"}
    BY <2>1 DEF RowState
  <2>3. row' = row \/ row' = [row EXCEPT ![i] = r]
    BY <1>9 DEF Fail, Report
  <2> HIDE DEF r
  <2> QED
    BY <1>1, <1>2, <2>1, <2>2, <2>3
<1>10. CASE ReclaimExpired
  <2>1. row'[j] = row[j] \/ row'[j] = Reclaimed(j)
    BY <1>10 DEF ReclaimExpired
  <2>2. Reclaimed(j).state \in {"pending", "failed"}
    BY <1>r DEF Reclaimed, RowState
  <2> QED
    BY <2>1, <2>2 DEF Wanted
<1>11. CASE Crash
  BY <1>1, <1>11 DEF Crash
<1> QED
  BY <1>1, <1>3, <1>4, <1>5, <1>6, <1>7, <1>8, <1>9, <1>10, <1>11

\* Steps of the queue that leave every run where it is keep every promise whose
\* rows they leave wanted.
LEMMA QueueKeeps ==
  ASSUME NEW v \in Video, SameJobs \/ UNCHANGED work, run' = run,
         Wanted(Playback(v)) => Wanted(Playback(v))',
         Wanted(Metadata(v)) => Wanted(Metadata(v))'
  PROVE  Keeps(v)
<1>1. \A j : RunsOf(j)' = RunsOf(j)
  BY DEF SameJobs, RunsOf, Executing
<1>2. \A w \in Worker : work[w].claim = "gone" => work'[w].claim = "gone"
  BY DEF SameJobs
<1>3. \A j : RunsOf(j) \subseteq Worker
  BY DEF RunsOf
<1>4. Ended(Playback(v))' \subseteq Ended(Playback(v))
  BY <1>1, <1>2, <1>3 DEF Ended
<1>5. Flipped(v)' = Flipped(v)
  BY <1>1 DEF Flipped
<1>6. \A w \in RunsOf(Metadata(v)) : Undecided(w) => Undecided(w)'
  BY <1>2, <1>3 DEF Undecided
<1> QED
  BY <1>1, <1>4, <1>5, <1>6 DEF Keeps, InHand, Unmade

\* A worker that gives its run up keeps the promises it was not itself about to
\* make good on.
LEMMA ReleaseKeeps ==
  ASSUME NEW v \in Video, NEW w \in Worker, Released(w),
         w \notin Flipped(v),
         \A u \in Worker \ {w} : run'[u] = run[u],
         InHand(v) => Wanted(Playback(v))',
         Unmade(v) => Wanted(Metadata(v))'
  PROVE  Keeps(v)
<1>1. \A j : RunsOf(j)' = RunsOf(j) \ {w}
  BY DEF Released, RunsOf, Executing
<1>2. \A u \in Worker \ {w} : work[u].claim = "gone" => work'[u].claim = "gone"
  BY DEF Released
<1>3. \A j : RunsOf(j) \subseteq Worker
  BY DEF RunsOf
<1>4. Ended(Playback(v))' \subseteq Ended(Playback(v))
  BY <1>1, <1>2, <1>3 DEF Ended
<1>5. Flipped(v) \subseteq Flipped(v)'
  BY <1>1, <1>3 DEF Flipped
<1>6. \A u \in RunsOf(Metadata(v))' : Undecided(u) => Undecided(u)'
  BY <1>1, <1>2, <1>3 DEF Undecided
<1> QED
  BY <1>1, <1>4, <1>5, <1>6 DEF Keeps

\* A statement of a run touches the promises made for its own video alone, and
\* those only if it ends a playback run, stops a flipped one, or decides.
LEMMA StatementKeeps ==
  ASSUME NEW v \in Video, NEW w \in Worker, UNCHANGED vars,
         \A u \in Worker \ {w} : run'[u] = run[u],
         w \notin Flipped(v),
         \/ work[w].job \notin {Metadata(v), Playback(v)}
         \/ work[w].job = Playback(v) /\ run'[w].at # "ended"
         \/ work[w].job = Metadata(v) /\ (Undecided(w) => Undecided(w)' \/ w \notin RunsOf(Metadata(v)))
  PROVE  Keeps(v)
<1>1. row' = row /\ work' = work
  BY DEF vars
<1>2. \A j : RunsOf(j)' = RunsOf(j) /\ RunsOf(j) \subseteq Worker
  BY <1>1 DEF RunsOf, Executing
<1>3. \A j : w \in RunsOf(j) => j = work[w].job
  BY DEF RunsOf, Executing
<1>4. Metadata(v) # Playback(v)
  BY JobsOfVideos
<1>5. Ended(Playback(v))' \subseteq Ended(Playback(v))
  BY <1>1, <1>2, <1>3, <1>4 DEF Ended
<1>6. Flipped(v) \subseteq Flipped(v)'
  BY <1>2 DEF Flipped
<1>7. \A u \in RunsOf(Metadata(v)) : u # w => (Undecided(u) => Undecided(u)')
  BY <1>1, <1>2 DEF Undecided
<1>8. w \in RunsOf(Metadata(v)) => (Undecided(w) => Undecided(w)')
  BY <1>3, <1>4
<1> QED
  BY <1>1, <1>2, <1>5, <1>6, <1>7, <1>8 DEF Keeps, InHand, Unmade, Wanted

\* A flipped run that gives up, its job its alone, leaves that job to run again.
LEMMA FlipLeaves ==
  ASSUME TypeOK, OwnerInv, NEW v \in Video, NEW w \in Flipped(v), work[w].claim = "ours"
  PROVE  w \in Worker /\ work[w].job = Metadata(v) /\ Wanted(Metadata(v))
<1>1. w \in Worker /\ work[w].pc = "running" /\ work[w].job = Metadata(v)
  BY DEF Flipped, RunsOf, Executing
<1>2. Owns(w, Metadata(v))
  BY <1>1 DEF Owns
<1>3. row[Metadata(v)].state = "running"
  BY <1>1, <1>2, JobsOfVideos DEF OwnerInv
<1> QED
  BY <1>1, <1>3 DEF Wanted

\* Every statement, of either run and of whoever asks, hides or restores, and
\* every fault leaves something behind each promise that is not excused.
LEMMA StallStep == Typing /\ OwnerInv /\ StallInv /\ [DerivNext]_derivVars => StallInv'
<1> SUFFICES ASSUME Typing, OwnerInv, StallInv, [DerivNext]_derivVars,
                    NEW v \in Video, v \notin stranded', asset'[v].playback = "pending"
             PROVE  Promised(v)'
  BY DEF StallInv
<1>t. TypeOK /\ RunsOK /\ AssetsOK
  BY TypingParts
<1>w. work \in [Worker -> WorkState] /\ run \in [Worker -> RunState]
  BY <1>t DEF TypeOK, RunsOK
<1>j. /\ Metadata(v) \in Job /\ Playback(v) \in Job /\ Metadata(v) # Playback(v)
      /\ Metadata(v)[1] = v /\ Playback(v)[1] = v
      /\ Metadata(v)[2] = "metadata" /\ Playback(v)[2] = "playback"
  BY JobsOfVideos DEF Metadata, Playback
<1>k. ASSUME NEW w \in Worker, work[w].pc # "idle"
      PROVE  /\ work[w].job \in Job /\ work[w].job[1] \in Video
             /\ work[w].job[1] # v => work[w].job \notin {Metadata(v), Playback(v)}
             /\ work[w].job[1] = v /\ work[w].job[2] = "metadata" => work[w].job = Metadata(v)
             /\ work[w].job[1] = v /\ work[w].job[2] # "metadata" => work[w].job = Playback(v)
  BY <1>k, <1>t, <1>j, AtJob, JobsOfVideos
\* What is promised was promised before, and so it is enough that it is kept.
<1>p. ASSUME v \notin stranded, asset[v].playback = "pending" PROVE Promised(v)
  BY <1>p DEF StallInv
<1>c. ASSUME v \notin stranded, asset[v].playback = "pending", Keeps(v) PROVE Promised(v)'
  BY <1>c, <1>p, KeepsPromise
<1>f. ASSUME NEW w \in Worker, run[w].at # "flipped" PROVE w \notin Flipped(v)
  BY <1>f DEF Flipped
<1>1. ASSUME NEW j \in Job, Demand(j) \/ Elapse(j) \/ Interrupt(j) PROVE Promised(v)'
  <2>1. UNCHANGED <<asset, run, stranded>> /\ (SameJobs \/ UNCHANGED work)
    BY <1>1, <1>t, RenewalKeepsJobs
       DEF Demand, Elapse, Interrupt, Renewal, ComesDue, Lapses, ClaimLost, Stalls
  <2>2. \A i \in Job : Wanted(i) => Wanted(i)'
    BY <1>1, <1>t, StaysWanted DEF Demand, Elapse, Interrupt
  <2>3. Keeps(v)
    BY <1>j, <2>1, <2>2, QueueKeeps
  <2> QED
    BY <1>c, <2>1, <2>3
<1>a. ASSUME NEW j \in Job, AskFor(j), run' = run PROVE Keeps(v)
  <2>1. Asking(j)
    BY <1>a DEF Asking, Requeue
  <2>2. SameJobs /\ \A i \in Job : Wanted(i) => Wanted(i)'
    BY <1>t, <2>1, RenewalKeepsJobs, StaysWanted DEF Renewal
  <2> QED
    BY <1>a, <1>j, <2>2, QueueKeeps
<1>u. ASSUME UNCHANGED vars, run' = run PROVE Keeps(v)
  BY <1>u, QueueKeeps DEF vars, Wanted
<1>2. ASSUME NEW u \in Video, Pair(u) \/ Restore(u) PROVE Promised(v)'
  <2>1. /\ run' = run /\ stranded' = stranded
        /\ AskFor(Metadata(u)) \/ UNCHANGED vars
    BY <1>2 DEF Pair, Restore
  <2>2. Keeps(v)
    BY <1>a, <1>u, <2>1, JobsOfVideos
  <2>3. asset'[v].playback = asset[v].playback
    BY <1>2, <1>t DEF Pair, Restore, AssetsOK, AssetState
  <2> QED
    BY <1>c, <2>1, <2>2, <2>3
<1>3. ASSUME NEW u \in Video, Hide(u) PROVE Promised(v)'
  <2>1. /\ Discard({Metadata(u), Playback(u)}) /\ {Metadata(u), Playback(u)} \in SUBSET Job
        /\ run' = run /\ stranded' = stranded \cup {u}
        /\ asset' = [asset EXCEPT ![u].vault = TRUE]
    BY <1>3, JobsOfVideos DEF Hide
  <2>2. u # v /\ v \notin stranded /\ asset'[v] = asset[v]
    BY <1>t, <2>1 DEF AssetsOK
  <2>3. SameJobs
    BY <1>t, <2>1, RenewalKeepsJobs DEF Renewal
  <2>4. row'[Metadata(v)] = row[Metadata(v)] /\ row'[Playback(v)] = row[Playback(v)]
    BY <1>j, <2>1, <2>2, JobsOfVideos DEF Discard
  <2>5. Keeps(v)
    BY <2>1, <2>3, <2>4, QueueKeeps DEF Wanted
  <2> QED
    BY <1>c, <2>2, <2>5
<1>4. ASSUME NEW w \in Worker, NEW j \in Job, Take(w, j) PROVE Promised(v)'
  <2>1. /\ run' = run /\ run[w].at = "start"
        /\ asset' = asset /\ stranded' = stranded /\ work[w].pc = "idle"
    BY <1>4, <1>t DEF Take, Claim, RunsOK
  <2>2. \A u \in Worker \ {w} : work'[u] = work[u]
    BY <1>4, <1>w DEF Take, Claim
  <2>3. \A i : RunsOf(i)' \subseteq RunsOf(i) \cup {w} /\ RunsOf(i) \subseteq RunsOf(i)'
    BY <2>1, <2>2 DEF RunsOf, Executing
  <2>4. \A i : RunsOf(i) \subseteq Worker \ {w}
    BY <2>1 DEF RunsOf, Executing
  <2>5. Ended(Playback(v))' \subseteq Ended(Playback(v))
    BY <2>1, <2>2, <2>3, <2>4 DEF Ended
  <2>6. Flipped(v) \subseteq Flipped(v)'
    BY <2>1, <2>3 DEF Flipped
  <2>7. \A u \in RunsOf(Metadata(v))' :
          Undecided(u)' \/ (u \in RunsOf(Metadata(v)) /\ ~Undecided(u))
    BY <2>1, <2>2, <2>3, <2>4 DEF Undecided
  <2>8. \A i \in Job : Wanted(i) => Wanted(i)'
    BY <1>4, <1>t, StaysWanted DEF Take
  <2>9. Keeps(v)
    BY <1>j, <2>5, <2>6, <2>7, <2>8 DEF Keeps, InHand, Unmade
  <2> QED
    BY <1>c, <2>1, <2>9
\* The statements of a run.
<1>5. ASSUME NEW w \in Worker, ReadAsset(w) PROVE Promised(v)'
  <2> DEFINE a == asset[work[w].job[1]]
  <2>1. /\ UNCHANGED <<vars, asset, stranded>> /\ run[w].at = "start" /\ work[w].pc = "running"
        /\ run' = [run EXCEPT ![w] = IF a.vault THEN Past("ended") ELSE Reading(a)]
    BY <1>5 DEF ReadAsset, Running
  <2>2. ASSUME work[w].job[1] = v
        PROVE  run'[w].at = "read" /\ run'[w].saw # "ready"
    <3>1. ~asset[v].vault
      BY <1>t, <2>1 DEF AssetsOK
    <3>2. run'[w] = Reading(asset[v])
      BY <1>w, <2>1, <2>2, <3>1
    <3> QED
      BY <2>1, <3>2 DEF Reading
  <2>3. work[w].job[1] = v => Undecided(w)'
    BY <2>2 DEF Undecided
  <2>4. Keeps(v)
    BY <1>f, <1>k, <1>w, <2>1, <2>2, <2>3, StatementKeeps
  <2> QED
    BY <1>c, <2>1, <2>4
<1>6. ASSUME NEW w \in Worker, ApplyContentID(w) PROVE Promised(v)'
  <2> DEFINE u == work[w].job[1]
  <2>1. /\ UNCHANGED <<vars, stranded>> /\ run[w].at = "read" /\ work[w].pc = "running"
        /\ work[w].job[2] = "metadata"
        /\ run' = [run EXCEPT ![w] = Reading(asset'[u])]
    BY <1>6 DEF ApplyContentID, Running
  <2>2. asset'[v].playback = asset[v].playback
    BY <1>6, <1>t, <1>k, <2>1 DEF ApplyContentID, AssetsOK, AssetState
  <2>3. u = v => run'[w].at = "read" /\ run'[w].saw # "ready"
    <3>1. u = v => run'[w] = Reading(asset'[v])
      BY <1>w, <2>1
    <3> QED
      BY <3>1 DEF Reading
  <2>4. u = v => Undecided(w)'
    BY <2>3 DEF Undecided
  <2>5. Keeps(v)
    BY <1>f, <1>k, <1>w, <2>1, <2>4, StatementKeeps
  <2> QED
    BY <1>c, <2>1, <2>2, <2>5
<1>7. ASSUME NEW w \in Worker, StoreMetadata(w) PROVE Promised(v)'
  <2>1. /\ UNCHANGED <<vars, stranded>> /\ run[w].at = "read" /\ work[w].pc = "running"
        /\ work[w].job[2] = "metadata"
        /\ run' = [run EXCEPT ![w] = [run[w] EXCEPT !.at = "stored"]]
    BY <1>7 DEF StoreMetadata, Running
  <2>2. asset'[v].playback = asset[v].playback
    BY <1>7, <1>t, <1>k, <2>1 DEF StoreMetadata, AssetsOK, AssetState
  <2>3. run'[w].at = "stored" /\ run'[w].saw = run[w].saw
    BY <1>w, <2>1 DEF RunState
  <2>4. Undecided(w) => Undecided(w)'
    BY <2>1, <2>3 DEF Undecided, vars
  <2>5. Keeps(v)
    BY <1>f, <1>k, <1>w, <2>1, <2>4, StatementKeeps
  <2> QED
    BY <1>c, <2>1, <2>2, <2>5
\* Telling the asset ends what is promised for it, and nothing else.
<1>l. ASSUME NEW u \in Video, NEW s \in {"none", "ready", "failed"}, Tell(u, s)
      PROVE  u # v /\ v \notin stranded /\ asset[v].playback = "pending"
  <2>1. u # v
    BY <1>l, <1>t DEF Tell, AssetsOK, AssetState
  <2>2. asset'[v] = asset[v]
    BY <1>l, <1>t, <2>1 DEF Tell, AssetsOK
  <2> QED
    BY <1>l, <2>1, <2>2 DEF Tell
<1>8. ASSUME NEW w \in Worker, OweNothing(w) \/ BuildPlayback(w) PROVE Promised(v)'
  <2>1. /\ UNCHANGED vars /\ work[w].pc = "running" /\ run[w].at \in {"read", "stored"}
        /\ \E s \in {"none", "ready", "failed"} : Tell(work[w].job[1], s)
        /\ run' = [run EXCEPT ![w] = Past("ended")]
    BY <1>8 DEF OweNothing, BuildPlayback, Running
  <2>2. /\ work[w].job[1] # v /\ v \notin stranded /\ asset[v].playback = "pending"
    BY <1>k, <1>l, <2>1
  <2>3. Keeps(v)
    BY <1>f, <1>k, <1>w, <2>1, <2>2, StatementKeeps
  <2> QED
    BY <1>c, <2>2, <2>3
<1>9. ASSUME NEW w \in Worker, KeepRendition(w) PROVE Promised(v)'
  <2>1. /\ UNCHANGED <<vars, asset, stranded>> /\ run[w].at = "stored" /\ run[w].saw = "ready"
        /\ work[w].pc = "running" /\ work[w].job[2] = "metadata"
        /\ run' = [run EXCEPT ![w] = Past("ended")]
    BY <1>9, <1>t DEF KeepRendition, Running, RunsOK
  <2>2. Undecided(w) => Undecided(w)'
    BY <2>1 DEF Undecided, vars
  <2>3. Keeps(v)
    BY <1>f, <1>k, <1>w, <2>1, <2>2, StatementKeeps
  <2> QED
    BY <1>c, <2>1, <2>3
<1>10. ASSUME NEW w \in Worker, OwePlayback(w) PROVE Promised(v)'
  <2>1. /\ UNCHANGED <<vars, stranded>> /\ run[w].at = "stored" /\ work[w].pc = "running"
        /\ work[w].job[2] = "metadata"
        /\ run' = [run EXCEPT ![w] = Past("flipped")]
        /\ asset' = [asset EXCEPT ![work[w].job[1]].playback = "pending"]
    BY <1>10, <1>t DEF OwePlayback, Running, RunsOK
  <2>2. CASE work[w].job[1] = v
    <3>1. work'[w].pc = "running" /\ work'[w].job = Metadata(v) /\ run'[w].at = "flipped"
      BY <1>k, <1>w, <2>1, <2>2, RunTypes DEF vars
    <3> QED
      BY <3>1 DEF Promised, Flipped, RunsOf, Executing
  <2>3. CASE work[w].job[1] # v
    <3>1. asset'[v] = asset[v]
      BY <1>t, <2>1, <2>3 DEF AssetsOK
    <3>2. Keeps(v)
      BY <1>f, <1>k, <1>w, <2>1, <2>3, StatementKeeps
    <3> QED
      BY <1>c, <2>1, <3>1, <3>2
  <2> QED
    BY <2>2, <2>3
<1>11. ASSUME NEW w \in Worker, QueuePlayback(w) PROVE Promised(v)'
  <2> DEFINE u == work[w].job[1]
  <2>1. /\ run[w].at = "flipped" /\ work[w].pc = "running" /\ work[w].job[2] = "metadata"
        /\ AskFor(Playback(u)) /\ asset' = asset
        /\ stranded' = IF Ended(Playback(u)) # {} THEN stranded \cup {u} ELSE stranded
        /\ run' = [run EXCEPT ![w] = Past("ended")]
    BY <1>11, <1>t DEF QueuePlayback, Running, RunsOK
  <2>2. Playback(u) \in Job /\ Asking(Playback(u))
    BY <1>k, <2>1, JobsOfVideos DEF Asking, Requeue
  <2>3. SameJobs /\ \A i \in Job : Wanted(i) => Wanted(i)'
    BY <1>t, <2>2, RenewalKeepsJobs, StaysWanted DEF Renewal
  <2>4. \A i : RunsOf(i)' = RunsOf(i) /\ RunsOf(i) \subseteq Worker
    BY <2>3 DEF SameJobs, RunsOf, Executing
  <2>5. \A x \in Worker \ {w} : run'[x] = run[x]
    BY <1>w, <2>1
  <2>6. w \notin RunsOf(Playback(v))
    BY <1>j, <2>1 DEF RunsOf, Executing
  <2>7. Ended(Playback(v))' \subseteq Ended(Playback(v))
    BY <2>3, <2>4, <2>5, <2>6 DEF Ended, SameJobs
  <2>8. CASE u = v
    <3>1. Ended(Playback(v)) = {}
      BY <2>1, <2>8
    <3>2. Wanted(Playback(v))'
      BY <1>t, <2>1, <2>2, <2>8, RowTypes DEF AskFor, Wanted, TypeOK
    <3> QED
      BY <2>7, <3>1, <3>2 DEF Promised, InHand
  <2>9. CASE u # v
    <3>1. w \notin RunsOf(Metadata(v))
      BY <1>j, <2>1, <2>9 DEF RunsOf, Executing
    <3>2. Flipped(v) \subseteq Flipped(v)'
      BY <2>4, <2>5, <3>1 DEF Flipped
    <3>3. \A x \in RunsOf(Metadata(v)) : Undecided(x) => Undecided(x)'
      BY <2>3, <2>4, <2>5, <3>1 DEF Undecided, SameJobs
    <3>4. Keeps(v)
      BY <1>j, <2>3, <2>4, <2>7, <3>2, <3>3 DEF Keeps, InHand, Unmade
    <3> QED
      BY <1>c, <2>1, <3>4
  <2> QED
    BY <2>8, <2>9
\* The end of a run.
<1>12. ASSUME NEW w \in Worker, CompleteRun(w) PROVE Promised(v)'
  <2>1. /\ Complete(w) /\ UNCHANGED <<asset, stranded>> /\ run[w].at = "ended"
        /\ work[w].pc = "running" /\ run' = [run EXCEPT ![w] = Fresh]
    BY <1>12 DEF CompleteRun, Running
  <2>2. Released(w)
    BY <1>t, <2>1, EndReleases
  <2>3. work[w].claim = "gone" => row' = row
    BY <2>1 DEF Complete, Report
  <2>4. \A i \in Job : i # work[w].job => row'[i] = row[i]
    BY <1>t, <2>1, <2>3, <1>k DEF Complete, Report, TypeOK
  <2>5. InHand(v) => Wanted(Playback(v))'
    <3>1. ASSUME work[w].job = Playback(v), work[w].claim # "gone" PROVE ~InHand(v)
      BY <2>1, <3>1 DEF InHand, Ended, RunsOf, Executing
    <3> QED
      BY <1>j, <2>3, <2>4, <3>1 DEF InHand, Wanted
  <2>6. Unmade(v) => Wanted(Metadata(v))'
    <3>1. ASSUME work[w].job = Metadata(v), work[w].claim # "gone" PROVE ~Unmade(v)
      BY <2>1, <3>1 DEF Unmade, Undecided, RunsOf, Executing
    <3> QED
      BY <1>j, <2>3, <2>4, <3>1 DEF Unmade, Wanted
  <2>7. Keeps(v)
    BY <1>f, <1>w, <2>1, <2>2, <2>5, <2>6, ReleaseKeeps
  <2> QED
    BY <1>c, <2>1, <2>7
<1>13. ASSUME NEW w \in Worker,
              (\E hopeless \in BOOLEAN : FailRun(w, hopeless)) \/ DeferRun(w) \/ LoseReport(w)
       PROVE  Promised(v)'
  <2>1. /\ (\E hopeless \in BOOLEAN : Fail(w, hopeless)) \/ Defer(w) \/ ReportLost(w)
        /\ Leave(w) /\ asset' = asset /\ work[w].pc = "running"
    BY <1>13 DEF FailRun, DeferRun, LoseReport, Fail, Defer, ReportLost
  <2>2. Released(w)
    BY <1>t, <2>1, EndReleases
  <2>3. \A i \in Job : Wanted(i) => Wanted(i)'
    BY <1>t, <2>1, StaysWanted
  <2>4. run' = [run EXCEPT ![w] = Fresh] /\ v \notin stranded
    BY <2>1 DEF Leave
  <2>5. CASE w \in Flipped(v)
    <3>1. work[w].job = Metadata(v)
      BY <2>5 DEF Flipped, RunsOf, Executing
    <3>2. work[w].claim = "ours" /\ RunsOf(Metadata(v)) = {w}
      BY <1>j, <2>1, <2>5, <3>1 DEF Leave
    <3>3. Wanted(Metadata(v))'
      BY <1>j, <1>t, <2>3, <2>5, <3>2, FlipLeaves
    <3>4. RunsOf(Metadata(v))' = {}
      BY <2>2, <3>2 DEF Released, RunsOf, Executing
    <3> QED
      BY <3>3, <3>4 DEF Promised, Unmade
  <2>6. CASE w \notin Flipped(v)
    <3>1. Keeps(v)
      BY <1>j, <1>w, <2>2, <2>3, <2>4, <2>6, ReleaseKeeps DEF InHand, Unmade
    <3> QED
      BY <1>c, <2>1, <2>4, <3>1
  <2> QED
    BY <2>5, <2>6
<1>14. ASSUME NEW w \in Worker, TellFailed(w) \/ MarkLost(w) PROVE Promised(v)'
  <2>1. MarkFailed(w) /\ run' = run /\ work[w].pc = "marking"
    BY <1>14 DEF TellFailed, MarkLost, MarkFailed
  <2>2. v \notin stranded /\ asset[v].playback = "pending"
    <3>1. CASE TellFailed(w) /\ work[w].job[2] = "playback"
      BY <1>k, <1>l, <2>1, <3>1 DEF TellFailed
    <3>2. CASE TellFailed(w) /\ work[w].job[2] # "playback"
      BY <1>k, <1>t, <2>1, <3>2 DEF TellFailed, AssetsOK, AssetState
    <3>3. CASE MarkLost(w)
      BY <3>3 DEF MarkLost
    <3> QED
      BY <1>14, <3>1, <3>2, <3>3
  <2>3. Released(w) /\ \A i \in Job : Wanted(i) => Wanted(i)'
    BY <1>t, <2>1, EndReleases, StaysWanted
  <2>4. w \notin Flipped(v)
    BY <2>1 DEF Flipped, RunsOf, Executing
  <2>5. Keeps(v)
    BY <1>j, <2>1, <2>3, <2>4, ReleaseKeeps DEF InHand, Unmade
  <2> QED
    BY <1>c, <2>2, <2>5
<1>15. ASSUME (\E w \in Worker : Beat(w)) \/ Sweep PROVE Promised(v)'
  <2>1. UNCHANGED <<asset, run, stranded>> /\ (SameJobs \/ UNCHANGED work)
    BY <1>15, <1>t, RenewalKeepsJobs DEF Beat, Heartbeat, Sweep
  <2>2. \A i \in Job : Wanted(i) => Wanted(i)'
    BY <1>15, <1>t, StaysWanted DEF Beat, Sweep
  <2>3. Keeps(v)
    BY <1>j, <2>1, <2>2, QueueKeeps
  <2> QED
    BY <1>c, <2>1, <2>3
<1>16. ASSUME CrashAll PROVE Promised(v)'
  <2>1. /\ row' = row /\ asset' = asset /\ v \notin stranded
        /\ \A w \in Flipped(v) : work[w].claim = "ours"
    BY <1>16 DEF CrashAll, Crash
  <2>2. \A i : RunsOf(i)' = {}
    BY <1>16, RowTypes DEF CrashAll, Crash, RunsOf, Executing
  <2>3. Flipped(v) # {} => Wanted(Metadata(v))
    BY <1>t, <2>1, FlipLeaves
  <2>4. Wanted(Playback(v)) \/ Wanted(Metadata(v))
    BY <1>p, <2>1, <2>3 DEF Promised, InHand, Unmade
  <2> QED
    BY <2>1, <2>2, <2>4 DEF Promised, InHand, Unmade, Ended, Wanted
<1>17. ASSUME UNCHANGED derivVars PROVE Promised(v)'
  BY <1>c, <1>u, <1>17 DEF derivVars
<1> QED
  BY <1>1, <1>2, <1>3, <1>4, <1>5, <1>6, <1>7, <1>8, <1>9, <1>10, <1>11, <1>12, <1>13, <1>14,
     <1>15, <1>16, <1>17 DEF DerivNext, Working

\* A rendition that is promised has a job behind the promise, however metadata
\* and playback runs interleave, fail, lapse, crash and are asked for again, but
\* for what the property excuses.
THEOREM NothingStalledCorrect == DerivSpec => []NothingStalled
<1>1. DerivInit => OwnerInv /\ StallInv
  <2> SUFFICES ASSUME DerivInit PROVE OwnerInv /\ StallInv
    OBVIOUS
  <2>1. OwnerInv
    BY RowTypes DEF DerivInit, Init, OwnerInv, Owns
  <2>2. \A v \in Video : asset[v].playback = "none"
    BY DEF DerivInit
  <2> QED
    BY <2>1, <2>2 DEF StallInv
<1>2. Typing /\ OwnerInv /\ StallInv /\ [DerivNext]_derivVars => OwnerInv' /\ StallInv'
  BY TypingParts, DerivStep, OwnerStep, StallStep
<1>3. Typing /\ StallInv => NothingStalled
  BY TypingParts, PromiseHeld
<1> QED
  BY <1>1, <1>2, <1>3, TypingCorrect, PTL DEF DerivSpec

=============================================================================
