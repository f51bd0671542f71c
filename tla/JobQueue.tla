------------------------------ MODULE JobQueue ------------------------------
(***************************************************************************)
(* The background work queue: the jobs table, the workers that claim from  *)
(* it, the sweep that takes expired leases back, and whoever asks for work *)
(* to be done again while it is being done.                                *)
(*                                                                         *)
(* A job is a row of the table, unique per asset and kind.  The kinds      *)
(* differ in who asks for them; here every way of asking is open to every  *)
(* row, which is more than any one kind meets.  What a run does to its     *)
(* asset is left to Derivatives, which also bounds asks and faults.        *)
(* Every statement addresses its row by id and none looks at locked_by, so *)
(* a worker whose claim was taken back goes on writing to the row.  Claim  *)
(* takes the oldest runnable row that no other claimer is taking; here it  *)
(* takes any.  Clocks are abstracted to what is compared with them:        *)
(* whether run_after has come, and whether the lease has lapsed.           *)
(***************************************************************************)
EXTENDS Naturals

CONSTANTS
  Job,          \* rows of the table that can be there
  NoJob,        \* not a job
  Worker,       \* the goroutines of the pools
  MaxAttempts   \* DefaultMaxAttempts

ASSUME QueueAssumption ==
  /\ NoJob \notin Job
  /\ MaxAttempts \in Nat \ {0}

VARIABLES
  row,      \* the jobs table
  work,     \* each worker, between two statements
  meddled   \* observation: jobs a worker reported on after losing its claim

vars == <<row, work, meddled>>

-----------------------------------------------------------------------------
NoRow == [state |-> "none", attempts |-> 0, due |-> FALSE, lapsed |-> FALSE]

\* The columns an insert, or a requeue, leaves.
Asked == [state |-> "pending", attempts |-> 0, due |-> TRUE, lapsed |-> FALSE]

\* claim: whether the row the worker was given is still its own ("ours"), was
\* taken back or settled by somebody else ("stale"), or is deleted ("gone").
Idle == [pc |-> "idle", job |-> NoJob, tries |-> 0, claim |-> "ours"]

RowState ==
  [state : {"none", "pending", "running", "done", "failed"},
   attempts : Nat,
   due : BOOLEAN,      \* run_after has come
   lapsed : BOOLEAN]   \* locked_at is further back than the lease

WorkState ==
  [pc : {"idle", "running", "marking"},
   job : Job \cup {NoJob},
   tries : Nat,        \* Job.Attempts, as the claim returned it
   claim : {"ours", "stale", "gone"}]

\* Every variable has its type; only a running row holds a lease, and a row
\* that was never claimed has spent nothing.
TypeOK ==
  /\ row \in [Job -> RowState]
  /\ work \in [Worker -> WorkState]
  /\ \A w \in Worker : work[w].pc # "idle" => work[w].job \in Job /\ work[w].tries > 0
  /\ \A j \in Job : /\ row[j].lapsed => row[j].state = "running"
                    /\ row[j].state = "running" => row[j].attempts > 0
                    /\ row[j].state = "none" => row[j] = NoRow
  /\ meddled \subseteq Job

Init ==
  /\ row \in [Job -> {NoRow, Asked}]
  /\ work = [w \in Worker |-> Idle]
  /\ meddled = {}

\* The workers once the rows of J have left their hands.
Without(J, claim) ==
  [w \in Worker |->
     IF work[w].job \in J /\ work[w].claim # "gone"
     THEN [work[w] EXCEPT !.claim = claim] ELSE work[w]]

Executing(w, j) == work[w].pc = "running" /\ work[w].job = j
Holder(j) == {w \in Worker : Executing(w, j) /\ work[w].claim = "ours"}

-----------------------------------------------------------------------------
(* Asking for work.                                                        *)

AskFor(j) ==
  /\ row' = [row EXCEPT ![j] = Asked]
  /\ work' = Without({j}, "stale")
  /\ meddled' = meddled \ {j}

\* Enqueue, and the reconciles of what was never queued: a kind already queued
\* is ignored.
Enqueue(j) == row[j].state = "none" /\ AskFor(j)

\* Requeue, whatever state the row is in; the vault's restore does the same.
Requeue(j) == AskFor(j)

\* ReconcileSignatures and QueueWords take up what has settled.
Reconcile(j) == row[j].state \in {"failed", "done"} /\ AskFor(j)

\* RequeueMLPrep takes up everything but a running row.
RequeueMLPrep(j) == row[j].state # "running" /\ AskFor(j)

\* Discard, and hiding an asset, with all of its jobs, in the vault: a running
\* row is left alone.
Discard(J) ==
  LET dropped == {j \in J : row[j].state # "running"}
  IN  /\ row' = [j \in Job |-> IF j \in dropped THEN NoRow ELSE row[j]]
      /\ work' = Without(dropped, "gone")
      /\ meddled' = meddled \ dropped

-----------------------------------------------------------------------------
(* A worker.                                                               *)

\* Mutant: SKIP LOCKED and no look at the state.
RunnableAny(j) == row[j].state \in {"pending", "running"} /\ row[j].due

Runnable(j) == row[j].state = "pending" /\ row[j].due

Claimed(j) ==
  [state |-> "running", attempts |-> row[j].attempts + 1, due |-> TRUE, lapsed |-> FALSE]

Claim(w, j) ==
  /\ work[w].pc = "idle"
  /\ Runnable(j)
  /\ row' = [row EXCEPT ![j] = Claimed(j)]
  /\ work' = [work EXCEPT ![w] = [pc |-> "running", job |-> j,
                                  tries |-> row[j].attempts + 1, claim |-> "ours"]]
  /\ UNCHANGED meddled

\* The claim commits and its answer is lost.
ClaimLost(j) ==
  /\ Runnable(j)
  /\ row' = [row EXCEPT ![j] = Claimed(j)]
  /\ UNCHANGED <<work, meddled>>

Heartbeat(w) ==
  /\ work[w].pc = "running" /\ work[w].claim # "gone"
  /\ row[work[w].job].lapsed
  /\ row' = [row EXCEPT ![work[w].job].lapsed = FALSE]
  /\ UNCHANGED <<work, meddled>>

\* What worker w reports lands on its row, whoever has the row by now, and
\* only if the row is still there.
Report(w, r, next) ==
  LET j == work[w].job
  IN IF work[w].claim = "gone"
     THEN /\ work' = [work EXCEPT ![w] = next]
          /\ UNCHANGED <<row, meddled>>
     ELSE /\ row' = [row EXCEPT ![j] = r]
          /\ work' = [Without({j}, "stale") EXCEPT ![w] = next]
          /\ meddled' = IF work[w].claim = "stale" THEN meddled \cup {j} ELSE meddled

\* Mutant: the lease outlives the run.
CompleteLocked(w) ==
  /\ work[w].pc = "running"
  /\ Report(w, [row[work[w].job] EXCEPT !.state = "done"], Idle)

Complete(w) ==
  /\ work[w].pc = "running"
  /\ Report(w, [row[work[w].job] EXCEPT !.state = "done", !.lapsed = FALSE], Idle)

\* A failed run.  hopeless is ErrPermanent; after it, or the last attempt, the
\* asset is told.
Fail(w, hopeless) ==
  LET permanent == work[w].tries >= MaxAttempts \/ hopeless
  IN /\ work[w].pc = "running"
     /\ Report(w,
               [row[work[w].job] EXCEPT
                  !.state = IF permanent THEN "failed" ELSE "pending",
                  !.due = FALSE, !.lapsed = FALSE],
               IF permanent THEN [work[w] EXCEPT !.pc = "marking"] ELSE Idle)

\* The photo service is not there: the attempt is given back, if the row is
\* still running.
Defer(w) ==
  LET j == work[w].job
      put == [row[j] EXCEPT !.state = "pending", !.attempts = @ - 1,
                            !.due = FALSE, !.lapsed = FALSE]
  IN /\ work[w].pc = "running"
     /\ IF row[j].state = "running"
        THEN Report(w, put, Idle)
        ELSE work' = [work EXCEPT ![w] = Idle] /\ UNCHANGED <<row, meddled>>

\* Complete, Fail or Defer does not reach the database; a Fail that does not is
\* still told to the asset.
ReportLost(w) ==
  /\ work[w].pc = "running"
  /\ work' \in {[work EXCEPT ![w] = Idle], [work EXCEPT ![w].pc = "marking"]}
  /\ UNCHANGED <<row, meddled>>

\* The asset is told, or telling it fails and is logged.
MarkFailed(w) ==
  /\ work[w].pc = "marking"
  /\ work' = [work EXCEPT ![w] = Idle]
  /\ UNCHANGED <<row, meddled>>

-----------------------------------------------------------------------------
(* Time, the sweep, and the server stopping.                               *)

\* run_after comes.
ComesDue(j) ==
  /\ row[j].state = "pending" /\ ~row[j].due
  /\ row' = [row EXCEPT ![j].due = TRUE]
  /\ UNCHANGED <<work, meddled>>

\* The lease of a row nobody is beating for.
Lapses(j) ==
  /\ row[j].state = "running" /\ ~row[j].lapsed
  /\ \A w \in Worker : Executing(w, j) => work[w].claim = "gone"
  /\ row' = [row EXCEPT ![j].lapsed = TRUE]
  /\ UNCHANGED <<work, meddled>>

\* The lease of a row whose worker's heartbeats did not get through.
Stalls(j) ==
  /\ row[j].state = "running" /\ ~row[j].lapsed
  /\ \E w \in Worker : Executing(w, j) /\ work[w].claim # "gone"
  /\ row' = [row EXCEPT ![j].lapsed = TRUE]
  /\ UNCHANGED <<work, meddled>>

\* Mutant: a row whose budget is spent goes round again.
ReclaimedAgain(j) == [row[j] EXCEPT !.state = "pending", !.lapsed = FALSE]

Reclaimed(j) ==
  [row[j] EXCEPT !.state = IF row[j].attempts >= MaxAttempts THEN "failed" ELSE "pending",
                 !.lapsed = FALSE]

\* Mutant: the sweep passes over a row whose budget is spent.
ExpiredRetryable == {j \in Job : row[j].lapsed /\ row[j].attempts < MaxAttempts}

Expired == {j \in Job : row[j].lapsed}

ReclaimExpired ==
  /\ Expired # {}
  /\ row' = [j \in Job |-> IF j \in Expired THEN Reclaimed(j) ELSE row[j]]
  /\ work' = Without(Expired, "stale")
  /\ UNCHANGED meddled

\* A crash, or a shutdown: what is running stays running until its lease lapses.
Crash ==
  /\ work' = [w \in Worker |-> Idle]
  /\ UNCHANGED <<row, meddled>>

-----------------------------------------------------------------------------
Asking(j) == Enqueue(j) \/ Requeue(j) \/ Reconcile(j) \/ RequeueMLPrep(j)

Next ==
  \/ \E j \in Job : Asking(j) \/ ClaimLost(j) \/ ComesDue(j) \/ Lapses(j) \/ Stalls(j)
  \/ \E J \in SUBSET Job : Discard(J)
  \/ \E w \in Worker : \/ \E j \in Job : Claim(w, j)
                       \/ \E hopeless \in BOOLEAN : Fail(w, hopeless)
                       \/ Complete(w) \/ MarkFailed(w) \/ Heartbeat(w)
                       \/ Defer(w) \/ ReportLost(w)
  \/ ReclaimExpired
  \/ Crash

Spec == Init /\ [][Next]_vars

-----------------------------------------------------------------------------
(* What the queue promises.                                                *)

\* A job is in the hands of one worker at a time, and its row says so, however
\* leases lapse and jobs are asked for again: any other worker still at it has
\* had its claim taken back (jobs.go: two ffmpegs writing the same output).
ExclusiveUnlessTakenBack ==
  \A j \in Job : /\ \A v, w \in Holder(j) : v = w
                 /\ Holder(j) # {} => row[j].state = "running"

\* Between two asks no job is claimed more often than its budget, deferrals and
\* crashes and lapsed leases counted in, unless a worker that lost its claim
\* wrote to the row (jobs.go: cannot cycle forever).
AttemptsWithinBudget ==
  \A j \in Job \ meddled :
    /\ row[j].attempts <= MaxAttempts
    /\ row[j].state = "pending" => row[j].attempts < MaxAttempts
=============================================================================
