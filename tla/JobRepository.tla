---------------------------- MODULE JobRepository ----------------------------
(***************************************************************************)
(* The job table as its callers see it: API handlers of users and runners, *)
(* and any number of controllers.  Every action is one transaction: it     *)
(* locks the row (SELECT ... FOR UPDATE), checks it and commits.  What a   *)
(* caller carries from one transaction to the next may be arbitrarily old: *)
(* runners use any token ever issued, and a reconciliation may use any row *)
(* a listing ever returned (dispatchList, staleList only grow), so delayed *)
(* controllers, two of them, and zombie runners are all included.          *)
(***************************************************************************)
EXTENDS JobRows, Sequences, FiniteSets

CONSTANTS
  Jobs,              \* job ids
  ReportedSearches,  \* what completions may say of usage["searches"]
  MaxTime,           \* bound: the clock stops here
  MaxClaims          \* bound: no claim beyond this attempt number

ASSUME BoundsAssumption == MaxTime \in Nat /\ MaxClaims \in Nat
ASSUME ReportAssumption == ReportedSearches \subseteq Nat

VARIABLES
  now,            \* database clock
  job,            \* research_jobs
  events,         \* lifecycle events of each job in sequence order
  dispatchList,   \* rows list_expired_dispatches has returned
  staleList,      \* rows list_stale_runners has returned
  starts          \* history: how often the job was marked started

vars == <<now, job, events, dispatchList, staleList, starts>>

EventTypes == {"job.created", "job.dispatched", "job.started",
               "job.cancel_requested", "job.dispatch_requeued",
               "job.runner_requeued", "job.cancelled", "job.failed",
               "job.succeeded"}

ExpiredDispatch == [id : Jobs, attempt : Nat,
                    state : {"dispatched", "cancel_requested"}]
StaleRunner     == [id : Jobs, attempt : Nat,
                    state : {"running", "cancel_requested"}, updated : Nat]

Init ==
  /\ now = 0
  /\ job = [j \in Jobs |-> NoRow]
  /\ events = [j \in Jobs |-> <<>>]
  /\ dispatchList = {}
  /\ staleList = {}
  /\ starts = [j \in Jobs |-> 0]

------------------------------------------------------------------------------
(* Helpers: a transaction that writes row r, with or without an event. *)

Write(j, r, type) ==
  /\ job' = [job EXCEPT ![j] = r]
  /\ events' = [events EXCEPT ![j] = Append(@, type)]

WriteSilently(j, r) ==
  /\ job' = [job EXCEPT ![j] = r]
  /\ UNCHANGED events

Rest == <<now, dispatchList, staleList, starts>>

\* Tokens some runner of j may hold: one per claim so far.
IssuedTokens(j) == 1..job[j].attempt

------------------------------------------------------------------------------
(* Users. *)

CreateJob(j) ==
  /\ job[j].state = "absent"
  /\ Write(j, CreatedRow(now), "job.created")
  /\ UNCHANGED Rest

RequestCancel(j) ==
  /\ job[j].state \in {"pending", "dispatched", "running"}
  /\ Write(j, CancelRequestedRow(job[j], now),
           IF job[j].state = "pending" THEN "job.cancelled"
                                       ELSE "job.cancel_requested")
  /\ UNCHANGED Rest

------------------------------------------------------------------------------
(* Controllers. *)

\* Any pending job may be next: SKIP LOCKED passes over rows that other
\* transactions hold.  The active jobs are counted in an earlier statement and
\* another controller may claim after the count: ControlPlane models the limit.
ClaimNext(j) ==
  /\ job[j].state = "pending"
  /\ job[j].attempt < MaxClaims
  /\ Write(j, ClaimedRow(job[j], now), "job.dispatched")
  /\ UNCHANGED Rest

ListExpiredDispatch(j) ==
  /\ DispatchExpired(job[j], now)
  /\ dispatchList' = dispatchList \union
       {[id |-> j, attempt |-> job[j].attempt, state |-> job[j].state]}
  /\ UNCHANGED <<now, job, events, staleList, starts>>

\* Mutant: the event follows the requested action, not the locked row.
DispatchEventByAction(r, action) ==
  CASE action = "cancel"  -> "job.cancelled"
    [] action = "requeue" -> "job.dispatch_requeued"
    [] OTHER              -> "job.failed"

DispatchEvent(r, action) ==
  IF r.state = "cancel_requested" THEN "job.cancelled"
  ELSE IF action = "requeue" THEN "job.dispatch_requeued" ELSE "job.failed"

ReconcileExpiredDispatch(d, status) ==
  LET r      == job[d.id]
      action == DispatchAction(d, status)
      row    == DispatchReconciledRow(r, action, now)
  IN /\ DispatchStillMatches(r, d)
     /\ \/ /\ action = "renew"
           /\ WriteSilently(d.id, row)
        \/ /\ action # "renew"
           /\ Write(d.id, row, DispatchEvent(r, action))
     /\ UNCHANGED Rest

ListStaleRunner(j) ==
  /\ RunnerStale(job[j], now)
  /\ staleList' = staleList \union
       {[id |-> j, attempt |-> job[j].attempt, state |-> job[j].state,
         updated |-> job[j].updated]}
  /\ UNCHANGED <<now, job, events, dispatchList, starts>>

StaleEvent(row) ==
  CASE row.state = "cancelled" -> "job.cancelled"
    [] row.state = "pending"   -> "job.runner_requeued"
    [] OTHER                   -> "job.failed"

ReconcileStaleRunner(s) ==
  LET r   == job[s.id]
      row == StaleReconciledRow(r, StaleAction(s), now)
  IN /\ RunnerStillMatches(r, s)
     /\ Write(s.id, row, StaleEvent(row))
     /\ UNCHANGED Rest

------------------------------------------------------------------------------
(* Runners, with token t.  A refused call changes nothing, so only the     *)
(* accepted ones are steps.                                                *)

\* A repeated call on a running job, or one on a cancelling job, returns
\* the row as it is.
MarkStarted(j, t) ==
  /\ HoldsToken(job[j], t)
  /\ job[j].state = "dispatched"
  /\ Write(j, StartedRow(job[j], now), "job.started")
  /\ starts' = [starts EXCEPT ![j] = @ + 1]
  /\ UNCHANGED <<now, dispatchList, staleList>>

\* Progress events are not lifecycle events: only the row is kept here.
AppendRunnerEvent(j, t) ==
  /\ HoldsToken(job[j], t)
  /\ ~Terminal(job[j])
  /\ WriteSilently(j, TouchedRow(job[j], now))
  /\ UNCHANGED Rest

Heartbeat(j, t) ==
  /\ HoldsToken(job[j], t)
  /\ job[j].state \in {"running", "cancel_requested"}
  /\ WriteSilently(j, TouchedRow(job[j], now))
  /\ UNCHANGED Rest

\* Token accounting of the model proxy and of private search.
ConsumeUsage(j, t) ==
  /\ HoldsToken(job[j], t)
  /\ WriteSilently(j, TouchedRow(job[j], now))
  /\ UNCHANGED Rest

\* An exhausted allowance fails the job, unless it is being cancelled:
\* mark_failed then raises and the transaction rolls back.
PublicSearch(j, t) ==
  /\ HoldsToken(job[j], t)
  /\ ~Terminal(job[j])
  /\ \/ /\ job[j].searches < MaxQueries
        /\ WriteSilently(j, [TouchedRow(job[j], now) EXCEPT !.searches = @ + 1])
     \/ /\ job[j].searches >= MaxQueries
        /\ job[j].state \in {"dispatched", "running"}
        /\ Write(j, FailedRow(job[j], now), "job.failed")
  /\ UNCHANGED Rest

\* The second transaction of runner_complete: it checks for RUNNING before it
\* calls mark_completed, whose own cancel branch is therefore never taken.
\* RunnerCompletion.usage is any dict.
MarkCompleted(j, t) ==
  /\ HoldsToken(job[j], t)
  /\ job[j].state = "running"
  /\ \E reported \in ReportedSearches \union {None} :
       Write(j, SucceededRow(job[j], reported, now), "job.succeeded")
  /\ UNCHANGED Rest

\* Called by the runner, by the controller whose submit failed and by the
\* model proxy when the input exceeds the context window.
MarkFailed(j, t) ==
  /\ HoldsToken(job[j], t)
  /\ job[j].state \in {"dispatched", "running"}
  /\ Write(j, FailedRow(job[j], now), "job.failed")
  /\ UNCHANGED Rest

\* Mutant: a runner may cancel a job it has not started.
MarkCancelledAnyActive(j, t) ==
  /\ HoldsToken(job[j], t)
  /\ Active(job[j])
  /\ Write(j, CancelledRow(job[j], now), "job.cancelled")
  /\ UNCHANGED Rest

MarkCancelled(j, t) ==
  /\ HoldsToken(job[j], t)
  /\ job[j].state \in {"running", "cancel_requested"}
  /\ Write(j, CancelledRow(job[j], now), "job.cancelled")
  /\ UNCHANGED Rest

------------------------------------------------------------------------------
Tick ==
  /\ now < MaxTime
  /\ now' = now + 1
  /\ UNCHANGED <<job, events, dispatchList, staleList, starts>>

UserStep(j) == CreateJob(j) \/ RequestCancel(j)

RunnerStep(j, t) ==
  \/ MarkStarted(j, t)
  \/ AppendRunnerEvent(j, t)
  \/ Heartbeat(j, t)
  \/ ConsumeUsage(j, t)
  \/ PublicSearch(j, t)
  \/ MarkCompleted(j, t)
  \/ MarkFailed(j, t)
  \/ MarkCancelled(j, t)

ListStep(j) == ListExpiredDispatch(j) \/ ListStaleRunner(j)

Next ==
  \/ Tick
  \/ \E j \in Jobs :
       \/ UserStep(j)
       \/ ClaimNext(j)
       \/ ListStep(j)
       \/ \E t \in IssuedTokens(j) : RunnerStep(j, t)
  \/ \E d \in dispatchList, status \in {"active", "missing", "exited"} :
       ReconcileExpiredDispatch(d, status)
  \/ \E s \in staleList : ReconcileStaleRunner(s)

Spec == Init /\ [][Next]_vars
------------------------------------------------------------------------------
(* Properties. *)

\* Every variable has its type; a job is absent until it is created.
TypeOK ==
  /\ now \in Nat
  /\ job \in [Jobs -> Row]
  /\ events \in [Jobs -> Seq(EventTypes)]
  /\ dispatchList \subseteq ExpiredDispatch
  /\ staleList \subseteq StaleRunner
  /\ starts \in [Jobs -> Nat]

WatchedByDispatch(r) ==
  r.state \in {"dispatched", "cancel_requested"} /\ r.started = None /\ r.lease # None

WatchedByStale(r) ==
  r.state \in {"running", "cancel_requested"} /\ r.started # None

\* Every job that occupies a concurrency slot is in reach of exactly one of
\* the two recovery queries (list_expired_dispatches, list_stale_runners) once
\* enough time passes: no job can be stuck active with nobody looking at it,
\* and the two reconcilers never compete for one job.
RecoveryCoverage ==
  \A j \in Jobs :
    Active(job[j]) => (WatchedByDispatch(job[j]) <=> ~WatchedByStale(job[j]))

\* A job accepts a runner credential exactly while it is active, and then only
\* the one issued by its latest claim: requeueing or finishing a job revokes
\* the credential of the runner that had it (get_for_runner_locked, ADR-010).
TokenFence ==
  \A j \in Jobs :
    /\ Active(job[j]) <=> job[j].token # None
    /\ Active(job[j]) => job[j].token = job[j].attempt

\* The outcome columns agree with the state: finished_at is set exactly on
\* terminal jobs, error exactly on failed ones, and a result exists exactly on
\* succeeded ones and comes from the latest attempt, which was started.
OutcomeConsistent ==
  \A j \in Jobs : LET r == job[j] IN
    /\ r.finished # None <=> Terminal(r)
    /\ r.error <=> r.state = "failed"
    /\ r.result # None <=> r.state = "succeeded"
    /\ r.state = "succeeded" => r.result = r.attempt /\ r.started # None

\* Heartbeat recovery starts a job at most RUNNER_MAX_ATTEMPTS times, however
\* requeued dispatches, late reconciliations and cancels interleave.
StartBudget == \A j \in Jobs : starts[j] <= RunnerMaxAttempts

StateAfter(type) ==
  CASE type \in {"job.created", "job.dispatch_requeued",
                 "job.runner_requeued"}      -> "pending"
    [] type = "job.dispatched"               -> "dispatched"
    [] type = "job.started"                  -> "running"
    [] type = "job.cancel_requested"         -> "cancel_requested"
    [] type = "job.cancelled"                -> "cancelled"
    [] type = "job.failed"                   -> "failed"
    [] type = "job.succeeded"                -> "succeeded"

\* A reader of the event log alone ends up with the state of the row: the last
\* lifecycle event names it, a terminal event is the last one, and the log
\* holds one start per time the job was started.
EventLogReplays ==
  \A j \in Jobs : LET log == events[j] IN
    /\ log = <<>> <=> job[j].state = "absent"
    /\ log # <<>> => StateAfter(log[Len(log)]) = job[j].state
    /\ \A i \in 1..Len(log) - 1 : StateAfter(log[i]) \notin TerminalStates
    /\ Cardinality({i \in 1..Len(log) : log[i] = "job.started"}) = starts[j]

\* A terminal job never changes again in anything a user sees: state, result,
\* error, finish time, attempt or query usage, whichever late call arrives.
TerminalIsFinal ==
  [][\A j \in Jobs : Terminal(job[j]) => job'[j] = job[j]]_job

\* Once a cancel is accepted the job can only become cancelled: no late
\* completion, failure, start, retry or requeue gets past it.
CancelWins ==
  [][\A j \in Jobs : job[j].state = "cancel_requested"
        => job'[j].state \in {"cancel_requested", "cancelled"}]_job

\* A running job is taken away from its runner only when nothing touched it for
\* RUNNER_STALE_SECONDS, even if the reconciler acts on an old listing: a
\* heartbeat that arrived after the listing saves the job.
OnlySilentRunnersRequeued ==
  [][\A j \in Jobs : job[j].state = "running" /\ job'[j].state = "pending"
        => job[j].updated <= now - StaleSeconds]_job

\* The public-search allowance is a hard ceiling over the whole life of the
\* job (ADR-009): until a completion ends it, no retry, requeue, cancel or failure
\* lowers the counter, and no search gets past the allowance.  The completion
\* itself may overwrite the counter with what its runner reports.
QueryAllowance ==
  [][\A j \in Jobs : job'[j].state # "succeeded"
        => job'[j].searches \in job[j].searches .. MaxQueries]_job

\* "Retrying a failed runner cannot reset or bypass the accepted query and
\* wall-time limits" (docs/adrs.md:173): research that began before never begins
\* again once the wall-time budget of the job is used up.
RetryWithinWallTime ==
  [][\A j \in Jobs :
       job[j].state = "dispatched" /\ job'[j].state = "running" /\ starts[j] > 0
         => ~WallTimeExhausted(job[j], now)]_job

------------------------------------------------------------------------------
(* The job table implements the life cycle promised to the user. *)

JobPhase == [j \in Jobs |-> PhaseOf(job[j].state)]
JobBegun == [j \in Jobs |-> job[j].started # None]

Lifecycle == INSTANCE JobLifecycle WITH
  MaxRuns <- RunnerMaxAttempts, phase <- JobPhase, begun <- JobBegun, runs <- starts

\* Seen without tokens, leases and listings, every behaviour of the table is
\* one JobLifecycle allows: a success needs a run begun under the present
\* assignment, at most RUNNER_MAX_ATTEMPTS runs begin, and an end is final.
ImplementsLifecycle == Lifecycle!Spec
==============================================================================
