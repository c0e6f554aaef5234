----------------------------- MODULE ControlPlane -----------------------------
(***************************************************************************)
(* The service around the job table: gateway replicas that each run a      *)
(* controller task (controller.py) and elect one by a session advisory     *)
(* lock (db.py), the executor that starts and stops runner processes       *)
(* (executors.py) and the runner processes themselves (runner.py), with    *)
(* crashes, lost sessions and lost requests.  Each transaction on the job  *)
(* table is the row operator of JobRows that JobRepository uses.           *)
(*                                                                         *)
(* The clock stands still at Now and Tick lets every stored time grow      *)
(* older instead, so that the model has infinite behaviours and finitely   *)
(* many states.  A time older than any condition can tell stays as it is.  *)
(***************************************************************************)
EXTENDS JobRows, FiniteSets

CONSTANTS
  Jobs,               \* job ids
  Controllers,        \* gateway replicas
  NoController,       \* nobody holds the leader lock
  MaxConcurrentJobs,  \* MAX_CONCURRENT_JOBS
  BatchSize,          \* DISPATCH_RECONCILE_BATCH_SIZE
  SessionsDrop,       \* whether database sessions of leaders may be lost
  MaxFaults,          \* bound: crashes, lost requests, lost sessions
  MaxClaims           \* bound: runner processes per job

ASSUME ControlAssumption ==
  /\ MaxConcurrentJobs \in Nat \ {0}
  /\ BatchSize \in Nat \ {0}
  /\ SessionsDrop \in BOOLEAN
  /\ MaxFaults \in Nat
  /\ MaxClaims \in Nat
  /\ NoController \notin Controllers

Now == IF WallTime > StaleSeconds THEN WallTime ELSE StaleSeconds

Runners == Jobs \X (1..MaxClaims)     \* one process per job and attempt

VARIABLES
  job,       \* research_jobs
  lock,      \* who holds the advisory lock controller_leader_lock_id
  pc,        \* where each controller task stands
  todo,      \* the rows its last listing returned and it has not handled
  hand,      \* the row it is handling and what it is going to do about it
  executor,  \* what the executor knows about each runner process
  proc,      \* where each runner process stands
  starts,    \* history: how often each job was marked started
  faults     \* history: lost sessions, and other faults so far

vars == <<job, lock, pc, todo, hand, executor, proc, starts, faults>>

ControllerStates == {"elect", "check", "list dispatches", "dispatches",
                     "reconcile dispatch", "list runners", "runners",
                     "reconcile runner", "count", "claim", "submit",
                     "submit failed"}

\* "held" is a process the executor tracks; a "stopped" one is not tracked any
\* more and will be killed, a "forgotten" one is just not tracked.
ExecutorStates == {"none", "held", "stopped", "forgotten"}

\* "completing" has a finished report to deliver, "failing" an error and
\* "cancelling" saw the cancel request.
ProcStates == {"none", "boot", "working", "completing", "failing",
               "cancelling", "gone"}

Live(rn) == proc[rn] \notin {"none", "gone"}

Init ==
  /\ job = [j \in Jobs |-> NoRow]
  /\ lock = NoController
  /\ pc = [c \in Controllers |-> "elect"]
  /\ todo = [c \in Controllers |-> {}]
  /\ hand = [c \in Controllers |-> {}]
  /\ executor = [rn \in Runners |-> "none"]
  /\ proc = [rn \in Runners |-> "none"]
  /\ starts = [j \in Jobs |-> 0]
  /\ faults = [sessions |-> 0, others |-> 0]

FaultsLeft == faults.sessions + faults.others < MaxFaults

Fault == FaultsLeft /\ faults' = [faults EXCEPT !.others = @ + 1]

SetRow(j, r) == job' = [job EXCEPT ![j] = r]

Goto(c, label) == pc' = [pc EXCEPT ![c] = label]

ControllerVars == <<lock, pc, todo, hand>>
RunnerVars     == <<executor, proc, starts>>

------------------------------------------------------------------------------
(* Users. *)

CreateJob(j) ==
  /\ job[j].state = "absent"
  /\ SetRow(j, CreatedRow(Now))
  /\ UNCHANGED <<ControllerVars, RunnerVars, faults>>

RequestCancel(j) ==
  /\ job[j].state \in {"pending", "dispatched", "running"}
  /\ SetRow(j, CancelRequestedRow(job[j], Now))
  /\ UNCHANGED <<ControllerVars, RunnerVars, faults>>

------------------------------------------------------------------------------
(* Controllers: leadership. *)

\* Mutant: the lock stays with a controller that is not there any more.
LeaveLoopKeepsLock(c) ==
  /\ Goto(c, "elect")
  /\ todo' = [todo EXCEPT ![c] = {}]
  /\ hand' = [hand EXCEPT ![c] = {}]
  /\ UNCHANGED lock

\* Leaving _dispatch_forever drops what was listed and gives the lock back.
LeaveLoop(c) ==
  /\ Goto(c, "elect")
  /\ lock' = IF lock = c THEN NoController ELSE lock
  /\ todo' = [todo EXCEPT ![c] = {}]
  /\ hand' = [hand EXCEPT ![c] = {}]

\* Mutant: lease.acquired is not looked at.
ElectAnyway(c) ==
  /\ pc[c] = "elect"
  /\ Goto(c, "list dispatches")
  /\ UNCHANGED <<job, lock, todo, hand, RunnerVars, faults>>

Elect(c) ==
  /\ pc[c] = "elect"
  /\ lock = NoController
  /\ lock' = c
  /\ Goto(c, "check")
  /\ UNCHANGED <<job, todo, hand, RunnerVars, faults>>

\* The lease is checked once per round, not before each write.
CheckLease(c) ==
  /\ pc[c] = "check"
  /\ \/ lock = c /\ Goto(c, "list dispatches") /\ UNCHANGED <<lock, todo, hand>>
     \/ lock # c /\ LeaveLoop(c)
  /\ UNCHANGED <<job, RunnerVars, faults>>

\* PostgreSQL ends the session that holds the lock; the controller finds out
\* at its next check.
LoseSession(c) ==
  /\ SessionsDrop
  /\ lock = c
  /\ lock' = NoController
  /\ FaultsLeft /\ faults' = [faults EXCEPT !.sessions = @ + 1]
  /\ UNCHANGED <<job, pc, todo, hand, RunnerVars>>

\* The gateway restarts or an error leaves the loop.  LocalProcessExecutor
\* forgets its processes when its gateway restarts, KubernetesJobExecutor none.
CrashController(c) ==
  /\ pc[c] # "elect"
  /\ Fault
  /\ LeaveLoop(c)
  /\ \/ UNCHANGED executor
     \/ executor' = [rn \in Runners |->
                       IF executor[rn] = "held" THEN "forgotten" ELSE executor[rn]]
  /\ UNCHANGED <<job, proc, starts>>

------------------------------------------------------------------------------
(* Controllers: reconciliation. *)

\* updated_at belongs to a StaleRunner only; an ExpiredDispatch has none.
Entry(j, r) ==
  [id |-> j, attempt |-> r.attempt, state |-> r.state,
   updated |-> IF r.started = None THEN None ELSE r.updated]

\* The two for loops: what comes after a row when rest is still to be handled.
NextDispatch(rest) == IF rest = {} THEN "list runners" ELSE "dispatches"
NextRunner(rest)   == IF rest = {} THEN "count" ELSE "runners"

\* The oldest rows up to the limit.  Rows that a query finds are as old as a time
\* gets here, so any of them may be the oldest.
Batches(rows) ==
  {batch \in SUBSET rows : \/ batch = rows /\ Cardinality(rows) <= BatchSize
                           \/ Cardinality(batch) = BatchSize}

List(c, rows, label) ==
  /\ todo' = [todo EXCEPT ![c] = {Entry(j, job[j]) : j \in rows}]
  /\ Goto(c, label)
  /\ UNCHANGED <<job, lock, hand, RunnerVars, faults>>

ListExpiredDispatches(c) ==
  /\ pc[c] = "list dispatches"
  /\ \E rows \in Batches({j \in Jobs : DispatchExpired(job[j], Now)}) :
       List(c, rows, NextDispatch(rows))

ListStaleRunners(c) ==
  /\ pc[c] = "list runners"
  /\ \E rows \in Batches({j \in Jobs : RunnerStale(job[j], Now)}) :
       List(c, rows, NextRunner(rows))

Tracked(rn) == executor[rn] = "held" /\ Live(rn)

Status(rn) ==
  CASE Tracked(rn)           -> "active"
    [] executor[rn] # "held" -> "missing"
    [] OTHER                 -> "exited"

Stopped(rn) == IF Status(rn) = "active" THEN [executor EXCEPT ![rn] = "stopped"]
                                        ELSE executor

\* Mutant: a cancelled dispatch is closed without stopping its executor.
InspectDispatchNoStop(c) ==
  \E d \in todo[c] :
    /\ pc[c] = "dispatches"
    /\ todo' = [todo EXCEPT ![c] = @ \ {d}]
    /\ hand' = [hand EXCEPT ![c] =
                  {[row |-> d, action |-> DispatchAction(d, Status(<<d.id, d.attempt>>))]}]
    /\ Goto(c, "reconcile dispatch")
    /\ UNCHANGED <<job, lock, RunnerVars, faults>>

\* inspect, and stop for a cancelled dispatch that is active.  An executor
\* error skips the row until the next round.
InspectDispatch(c) ==
  /\ pc[c] = "dispatches"
  /\ \E d \in todo[c] : LET rn == <<d.id, d.attempt>> IN
       /\ todo' = [todo EXCEPT ![c] = @ \ {d}]
       /\ \/ /\ hand' = [hand EXCEPT ![c] =
                           {[row |-> d, action |-> DispatchAction(d, Status(rn))]}]
             /\ executor' = IF d.state = "cancel_requested" THEN Stopped(rn) ELSE executor
             /\ Goto(c, "reconcile dispatch")
             /\ UNCHANGED faults
          \/ /\ Fault
             /\ Goto(c, NextDispatch(todo[c] \ {d}))
             /\ UNCHANGED <<hand, executor>>
  /\ UNCHANGED <<job, lock, proc, starts>>

ReconcileExpiredDispatch(c) ==
  /\ pc[c] = "reconcile dispatch"
  /\ \E h \in hand[c] : LET d == h.row IN
       \/ /\ DispatchStillMatches(job[d.id], d)
          /\ SetRow(d.id, DispatchReconciledRow(job[d.id], h.action, Now))
       \/ ~DispatchStillMatches(job[d.id], d) /\ UNCHANGED job
  /\ hand' = [hand EXCEPT ![c] = {}]
  /\ Goto(c, NextDispatch(todo[c]))
  /\ UNCHANGED <<lock, todo, RunnerVars, faults>>

\* Mutant: the stale runner is replaced without being stopped.
InspectRunnerNoStop(c) ==
  \E s \in todo[c] :
    /\ pc[c] = "runners"
    /\ todo' = [todo EXCEPT ![c] = @ \ {s}]
    /\ hand' = [hand EXCEPT ![c] = {[row |-> s, action |-> StaleAction(s)]}]
    /\ Goto(c, "reconcile runner")
    /\ UNCHANGED <<job, lock, RunnerVars, faults>>

\* An active runner is stopped before the row is looked at again.
InspectRunner(c) ==
  /\ pc[c] = "runners"
  /\ \E s \in todo[c] : LET rn == <<s.id, s.attempt>> IN
       /\ todo' = [todo EXCEPT ![c] = @ \ {s}]
       /\ \/ /\ hand' = [hand EXCEPT ![c] = {[row |-> s, action |-> StaleAction(s)]}]
             /\ executor' = Stopped(rn)
             /\ Goto(c, "reconcile runner")
             /\ UNCHANGED faults
          \/ /\ Fault
             /\ Goto(c, NextRunner(todo[c] \ {s}))
             /\ UNCHANGED <<hand, executor>>
  /\ UNCHANGED <<job, lock, proc, starts>>

ReconcileStaleRunner(c) ==
  /\ pc[c] = "reconcile runner"
  /\ \E h \in hand[c] : LET s == h.row IN
       \/ /\ RunnerStillMatches(job[s.id], s)
          /\ SetRow(s.id, StaleReconciledRow(job[s.id], h.action, Now))
       \/ ~RunnerStillMatches(job[s.id], s) /\ UNCHANGED job
  /\ hand' = [hand EXCEPT ![c] = {}]
  /\ Goto(c, NextRunner(todo[c]))
  /\ UNCHANGED <<lock, todo, RunnerVars, faults>>

------------------------------------------------------------------------------
(* Controllers: dispatch_one. *)

ActiveJobs  == {j \in Jobs : Active(job[j])}
PendingJobs == {j \in Jobs : job[j].state = "pending"}

\* claim_next first counts the active jobs and then selects a pending one:
\* two statements, and the count locks nothing.
CountActive(c) ==
  /\ pc[c] = "count"
  /\ Goto(c, IF Cardinality(ActiveJobs) < MaxConcurrentJobs THEN "claim" ELSE "check")
  /\ UNCHANGED <<job, lock, todo, hand, RunnerVars, faults>>

ClaimNext(c) ==
  /\ pc[c] = "claim"
  /\ \/ /\ PendingJobs = {}
        /\ Goto(c, "check")
        /\ UNCHANGED <<job, hand>>
     \/ \E j \in PendingJobs :
          /\ \A k \in PendingJobs : job[j].created <= job[k].created
          /\ job[j].attempt < MaxClaims
          /\ SetRow(j, ClaimedRow(job[j], Now))
          /\ hand' = [hand EXCEPT ![c] =
                        {[row |-> Entry(j, ClaimedRow(job[j], Now)), action |-> "submit"]}]
          /\ Goto(c, "submit")
  /\ UNCHANGED <<lock, todo, RunnerVars, faults>>

\* A submission that fails may still have created the runner.
Submit(c) ==
  /\ pc[c] = "submit"
  /\ \E h \in hand[c] : LET rn == <<h.row.id, h.row.attempt>> IN
       \/ /\ executor' = [executor EXCEPT ![rn] = "held"]
          /\ proc' = [proc EXCEPT ![rn] = "boot"]
          /\ \/ /\ Goto(c, "check")
                /\ hand' = [hand EXCEPT ![c] = {}]
                /\ UNCHANGED faults
             \/ Fault /\ Goto(c, "submit failed") /\ UNCHANGED hand
       \/ /\ Fault
          /\ Goto(c, "submit failed")
          /\ UNCHANGED <<hand, executor, proc>>
  /\ UNCHANGED <<job, lock, todo, starts>>

\* mark_failed refuses a job cancelled or requeued meanwhile: the error leaves
\* the loop.
SubmitFailed(c) ==
  /\ pc[c] = "submit failed"
  /\ \E h \in hand[c] :
     LET j        == h.row.id
         accepted == /\ HoldsToken(job[j], h.row.attempt)
                     /\ job[j].state \in {"dispatched", "running"}
     IN
       \/ /\ accepted
          /\ SetRow(j, FailedRow(job[j], Now))
          /\ Goto(c, "check")
          /\ hand' = [hand EXCEPT ![c] = {}]
          /\ UNCHANGED <<lock, todo>>
       \/ /\ ~accepted
          /\ LeaveLoop(c)
          /\ UNCHANGED job
  /\ UNCHANGED <<RunnerVars, faults>>

------------------------------------------------------------------------------
(* Runner process rn = <<job, attempt>>; the attempt is its token. *)

RowOf(rn) == job[rn[1]]
Holds(rn) == HoldsToken(RowOf(rn), rn[2])
Become(rn, label) == proc' = [proc EXCEPT ![rn] = label]

\* get_spec and started: refused without a valid token.
Start(rn) ==
  /\ proc[rn] = "boot"
  /\ \/ /\ Holds(rn)
        /\ \/ /\ RowOf(rn).state = "dispatched"
              /\ SetRow(rn[1], StartedRow(RowOf(rn), Now))
              /\ starts' = [starts EXCEPT ![rn[1]] = @ + 1]
           \/ RowOf(rn).state # "dispatched" /\ UNCHANGED <<job, starts>>
        /\ \/ Become(rn, "working") /\ UNCHANGED faults
           \/ Become(rn, "gone") /\ Fault
     \/ /\ ~Holds(rn)
        /\ Become(rn, "gone")
        /\ UNCHANGED <<job, starts, faults>>
  /\ UNCHANGED <<ControllerVars, executor>>

\* Heartbeats, progress events and metered calls, as long as the token holds.
Heartbeat(rn) ==
  /\ proc[rn] \in {"working", "completing", "cancelling", "failing"}
  /\ Holds(rn)
  /\ RowOf(rn).state \in {"running", "cancel_requested"}
  /\ SetRow(rn[1], TouchedRow(RowOf(rn), Now))
  /\ UNCHANGED <<ControllerVars, RunnerVars, faults>>

\* _wait_for_stop: any refusal is taken for a lost request and ignored, so
\* only a cancel request stops the work.
PollState(rn) ==
  /\ proc[rn] = "working"
  /\ Holds(rn)
  /\ RowOf(rn).state = "cancel_requested"
  /\ Become(rn, "cancelling")
  /\ UNCHANGED <<job, ControllerVars, executor, starts, faults>>

\* The engine returns or raises, at the latest when the wall time is over.
FinishResearch(rn) ==
  /\ proc[rn] = "working"
  /\ \/ Become(rn, "completing")
     \/ Become(rn, "failing")
  /\ UNCHANGED <<job, ControllerVars, executor, starts, faults>>

\* The gateway fails the job under the working runner: search allowance or
\* context window exceeded.
LimitExceeded(rn) ==
  /\ proc[rn] = "working"
  /\ Holds(rn)
  /\ RowOf(rn).state = "running"
  /\ SetRow(rn[1], FailedRow(RowOf(rn), Now))
  /\ UNCHANGED <<ControllerVars, RunnerVars, faults>>

\* A request whose answer the runner takes for a failure: with the Fault it
\* was lost, before or after the gateway acted on it.
Deliver(rn, accepted, row, onSuccess, onFailure) ==
  /\ \/ accepted /\ SetRow(rn[1], row) /\ Become(rn, onSuccess) /\ UNCHANGED faults
     \/ accepted /\ SetRow(rn[1], row) /\ Become(rn, onFailure) /\ Fault
     \/ accepted /\ UNCHANGED job /\ Become(rn, onFailure) /\ Fault
     \/ ~accepted /\ UNCHANGED <<job, faults>> /\ Become(rn, onFailure)
  /\ UNCHANGED <<ControllerVars, executor, starts>>

\* The engine reports upstream_costs (engines.py), which is none of the counters.
Complete(rn) ==
  /\ proc[rn] = "completing"
  /\ Deliver(rn, Holds(rn) /\ RowOf(rn).state = "running",
             SucceededRow(RowOf(rn), None, Now), "gone", "failing")

ReportCancelled(rn) ==
  /\ proc[rn] = "cancelling"
  /\ Deliver(rn, Holds(rn) /\ RowOf(rn).state \in {"running", "cancel_requested"},
             CancelledRow(RowOf(rn), Now), "gone", "failing")

ReportFailed(rn) ==
  /\ proc[rn] = "failing"
  /\ Deliver(rn, Holds(rn) /\ RowOf(rn).state \in {"dispatched", "running"},
             FailedRow(RowOf(rn), Now), "gone", "gone")

\* The executor's stop reaches the process.
Kill(rn) ==
  /\ Live(rn)
  /\ executor[rn] = "stopped"
  /\ Become(rn, "gone")
  /\ executor' = [executor EXCEPT ![rn] = "forgotten"]
  /\ UNCHANGED <<job, ControllerVars, starts, faults>>

CrashRunner(rn) ==
  /\ Live(rn)
  /\ Fault
  /\ Become(rn, "gone")
  /\ UNCHANGED <<job, ControllerVars, executor, starts>>

\* A finished process is forgotten: LocalProcessExecutor.inspect pops it,
\* Kubernetes deletes the Job after runner_ttl_seconds_after_finished.
Forget(rn) ==
  /\ proc[rn] = "gone"
  /\ executor[rn] = "held"
  /\ executor' = [executor EXCEPT ![rn] = "forgotten"]
  /\ UNCHANGED <<job, ControllerVars, proc, starts, faults>>

------------------------------------------------------------------------------
(* Time. *)

Older(t, oldest) == IF t > oldest THEN t - 1 ELSE t

AgedRow(r) ==
  [r EXCEPT !.created = Older(@, Now - WallTime),
            !.updated = Older(@, Now - StaleSeconds),
            !.lease   = Older(@, Now)]

\* A listed row that was touched since stays older than the row.
AgedEntry(d) ==
  [d EXCEPT !.updated = IF job[d.id].updated > @ THEN None ELSE Older(@, Now - StaleSeconds)]

Tick ==
  /\ job' = [j \in Jobs |-> AgedRow(job[j])]
  /\ todo' = [c \in Controllers |-> {AgedEntry(d) : d \in todo[c]}]
  /\ hand' = [c \in Controllers |-> {[h EXCEPT !.row = AgedEntry(@)] : h \in hand[c]}]
  /\ UNCHANGED <<lock, pc, RunnerVars, faults>>

------------------------------------------------------------------------------
ControllerStep(c) ==
  \/ Elect(c)
  \/ CheckLease(c)
  \/ ListExpiredDispatches(c)
  \/ InspectDispatch(c)
  \/ ReconcileExpiredDispatch(c)
  \/ ListStaleRunners(c)
  \/ InspectRunner(c)
  \/ ReconcileStaleRunner(c)
  \/ CountActive(c)
  \/ ClaimNext(c)
  \/ Submit(c)
  \/ SubmitFailed(c)

\* What a runner process that is scheduled and answered does in the end.
RunnerProgress(rn) ==
  \/ Start(rn)
  \/ FinishResearch(rn)
  \/ Complete(rn)
  \/ ReportCancelled(rn)
  \/ ReportFailed(rn)

Next ==
  \/ \E j \in Jobs : CreateJob(j) \/ RequestCancel(j)
  \/ \E c \in Controllers :
       ControllerStep(c) \/ LoseSession(c) \/ CrashController(c)
  \/ \E rn \in Runners :
       \/ RunnerProgress(rn) \/ Heartbeat(rn) \/ PollState(rn)
       \/ LimitExceeded(rn) \/ Kill(rn) \/ CrashRunner(rn) \/ Forget(rn)
  \/ Tick

Spec == Init /\ [][Next]_vars

\* Time passes, controllers are scheduled, runner processes are scheduled and
\* end their research, and the executor carries out a stop.
FairSpec ==
  /\ Spec
  /\ WF_vars(Tick)
  /\ \A c \in Controllers : WF_vars(ControllerStep(c))
  /\ \A rn \in Runners : WF_vars(RunnerProgress(rn)) /\ WF_vars(Kill(rn))
------------------------------------------------------------------------------
(* Properties. *)

ListedRow == [id : Jobs, attempt : Nat, state : ActiveStates, updated : NullOrNat]
HeldRow   == [row : ListedRow,
              action : {"renew", "requeue", "fail", "cancel", "retry", "submit"}]

\* Every variable has its type, and a controller handles one row at a time.
TypeOK ==
  /\ job \in [Jobs -> Row]
  /\ lock \in Controllers \union {NoController}
  /\ pc \in [Controllers -> ControllerStates]
  /\ \A c \in Controllers : todo[c] \subseteq ListedRow /\ hand[c] \subseteq HeldRow
  /\ \A c \in Controllers : Cardinality(hand[c]) <= 1
  /\ executor \in [Runners -> ExecutorStates]
  /\ proc \in [Runners -> ProcStates]
  /\ starts \in [Jobs -> Nat]
  /\ faults \in [sessions : Nat, others : Nat]

\* As long as leaders keep their sessions, the executor tracks at most one live
\* process per job, although runners die, stall and return and controllers crash
\* between any two steps.  A process it does not track any more, because its stop
\* is still under way or its gateway forgot it, may work beside its successor:
\* what that one does is left to the token to fence (TokenFence).
OneExecutorPerJob ==
  faults.sessions = 0 => \A j \in Jobs : \A a, b \in 1..MaxClaims :
    Tracked(<<j, a>>) /\ Tracked(<<j, b>>) => a = b

\* A job reported as cancelled has no runner left that the executor tracks and
\* that still works, whoever closed it: its runner, or the controller after the
\* runner stalled, never started or was lost.
CancelledMeansStopped ==
  \A rn \in Runners :
    RowOf(rn).state = "cancelled" /\ executor[rn] = "held"
      => proc[rn] \in {"none", "failing", "gone"}

\* MAX_CONCURRENT_JOBS bounds the active jobs, although the count and the claim
\* are separate statements.
ConcurrencyLimit == Cardinality(ActiveJobs) <= MaxConcurrentJobs

\* "PostgreSQL session advisory locks elect one active controller across the
\* replicas" (docs/adrs.md:59).
OneActiveController ==
  Cardinality({c \in Controllers : pc[c] \notin {"elect", "check"}}) <= 1

\* Every accepted job ends: with finitely many crashes, lost requests and lost
\* sessions no job stays queued or active for ever, cancelled or not.
EveryJobEnds ==
  \A j \in Jobs : job[j].state = "pending" ~> Terminal(job[j])

------------------------------------------------------------------------------
(* Controllers, executor and runners implement the life cycle promised to  *)
(* the user.                                                               *)

JobPhase == [j \in Jobs |-> PhaseOf(job[j].state)]
JobBegun == [j \in Jobs |-> job[j].started # None]

Lifecycle == INSTANCE JobLifecycle WITH
  MaxRuns <- RunnerMaxAttempts, phase <- JobPhase, begun <- JobBegun, runs <- starts

\* Whatever crashes, gets lost or leads twice, a job goes through the life cycle
\* that JobLifecycle promises: controllers and runners together start research at
\* most RUNNER_MAX_ATTEMPTS times, each time under a new assignment, a success is
\* of the run begun last, and an end is final.
ControllersImplementLifecycle == Lifecycle!Spec
==============================================================================
