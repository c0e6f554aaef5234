------------------------------- MODULE JobRows -------------------------------
(***************************************************************************)
(* The row of one research job (table research_jobs, db.py) and what each  *)
(* method of JobRepository (repository.py) does to it.  An operator here   *)
(* is either the condition under which a method goes on or the row it      *)
(* leaves behind, given the row r it locked and the database time now.     *)
(* The state machines that use this module, JobRepository and              *)
(* ControlPlane, add who calls the method and what it was told before.     *)
(*                                                                         *)
(* A runner token is fresh at every claim and the claim also increments    *)
(* attempt, so a token is represented by the attempt it was issued for;    *)
(* None is SQL NULL.  Times are integers.                                  *)
(***************************************************************************)
EXTENDS Integers

CONSTANTS
  LeaseSeconds,       \* DISPATCH_LEASE_SECONDS
  StaleSeconds,       \* RUNNER_STALE_SECONDS
  WallTime,           \* budget.max_wall_time_seconds of every job
  RunnerMaxAttempts,  \* RUNNER_MAX_ATTEMPTS
  MaxQueries          \* budget.max_queries of every job

ASSUME ConfigAssumption ==
  /\ LeaseSeconds \in Nat \ {0}
  /\ StaleSeconds \in Nat \ {0}
  /\ WallTime \in Nat \ {0}
  /\ RunnerMaxAttempts \in Nat \ {0}
  /\ MaxQueries \in Nat \ {0}

None == -1

ActiveStates == {"dispatched", "running", "cancel_requested"}
TerminalStates == {"succeeded", "failed", "cancelled"}

\* "absent" stands for a job id without a row.
JobStates == {"absent", "pending"} \union ActiveStates \union TerminalStates

NullOrNat == Nat \union {None}

\* result holds the attempt whose completion was stored, error whether the
\* error column is set, searches the counter usage["searches"].
Row == [state    : JobStates,
        token    : NullOrNat,
        attempt  : Nat,
        lease    : NullOrNat,
        created  : Nat,
        updated  : Nat,
        started  : NullOrNat,
        finished : NullOrNat,
        searches : Nat,
        result   : NullOrNat,
        error    : BOOLEAN]

NoRow == [state |-> "absent", token |-> None, attempt |-> 0, lease |-> None,
          created |-> 0, updated |-> 0, started |-> None, finished |-> None,
          searches |-> 0, result |-> None, error |-> FALSE]

Active(r)   == r.state \in ActiveStates
Terminal(r) == r.state \in TerminalStates

\* get_for_runner(_locked): a row without a token hash matches no token.
HoldsToken(r, t) == r.token # None /\ r.token = t

------------------------------------------------------------------------------
(* Rows the methods leave behind. *)

CreatedRow(now) ==
  [NoRow EXCEPT !.state = "pending", !.created = now, !.updated = now]

ClaimedRow(r, now) ==
  [r EXCEPT !.state = "dispatched", !.attempt = r.attempt + 1,
            !.token = r.attempt + 1, !.lease = now + LeaseSeconds,
            !.updated = now]

StartedRow(r, now) ==
  [r EXCEPT !.state = "running", !.lease = None, !.started = now,
            !.updated = now]

TouchedRow(r, now) == [r EXCEPT !.updated = now]

RenewedRow(r, now) == [r EXCEPT !.lease = now + LeaseSeconds, !.updated = now]

\* The tail shared by mark_cancelled, mark_failed, mark_completed and the
\* terminal branches of the two reconcilers.
FinishedRow(r, state, now) ==
  [r EXCEPT !.state = state, !.token = None, !.lease = None,
            !.finished = now, !.updated = now]

CancelledRow(r, now) == FinishedRow(r, "cancelled", now)
FailedRow(r, now)    == [FinishedRow(r, "failed", now) EXCEPT !.error = TRUE]

\* The completion's own usage is merged over the counters: reported is what it
\* says of searches, None if it says nothing.
SucceededRow(r, reported, now) ==
  [FinishedRow(r, "succeeded", now) EXCEPT
     !.result = r.token,
     !.searches = IF reported = None THEN @ ELSE reported]

\* Mutant: the requeued job keeps accepting its old runner.
DispatchRequeuedRowKeepsToken(r, now) ==
  [r EXCEPT !.state = "pending", !.lease = None, !.updated = now]

DispatchRequeuedRow(r, now) ==
  [r EXCEPT !.state = "pending", !.token = None, !.lease = None,
            !.updated = now]

\* Mutant: the retry keeps the start time of the run it replaces.
RunnerRequeuedRowKeepsStart(r, now) ==
  [r EXCEPT !.state = "pending", !.token = None, !.lease = None, !.updated = now]

\* Mutant: the retry starts with a fresh search allowance.
RunnerRequeuedRowResetsUsage(r, now) ==
  [r EXCEPT !.state = "pending", !.token = None, !.started = None,
            !.searches = 0, !.lease = None, !.updated = now]

RunnerRequeuedRow(r, now) ==
  [r EXCEPT !.state = "pending", !.token = None, !.started = None,
            !.finished = None, !.error = FALSE, !.lease = None,
            !.updated = now]

\* request_cancel on a live job; a terminal or already cancelling job keeps
\* its row (the token of a terminal row is NULL already).
CancelRequestedRow(r, now) ==
  IF r.state = "pending"
  THEN [r EXCEPT !.state = "cancelled", !.token = None, !.finished = now,
                 !.updated = now]
  ELSE [r EXCEPT !.state = "cancel_requested", !.updated = now]

------------------------------------------------------------------------------
(* The two queries of the controller, the guards of the two reconcilers    *)
(* and the rows they leave.  d and s are what a query returned earlier.    *)

DispatchExpired(r, now) ==
  /\ r.state \in {"dispatched", "cancel_requested"}
  /\ r.started = None
  /\ r.lease # None
  /\ r.lease <= now

\* Mutant: the query forgets the state.
RunnerStaleAnyState(r, now) ==
  r.started # None /\ r.updated <= now - StaleSeconds

RunnerStale(r, now) ==
  /\ r.state \in {"running", "cancel_requested"}
  /\ r.started # None
  /\ r.updated <= now - StaleSeconds

\* Mutant: the state is not checked again under the lock.
DispatchStillMatchesAttempt(r, d) == r.attempt = d.attempt /\ r.started = None

DispatchStillMatches(r, d) ==
  /\ r.attempt = d.attempt
  /\ r.state \in {"dispatched", "cancel_requested"}
  /\ r.started = None

\* Mutant: a heartbeat since the listing goes unnoticed.
RunnerStillMatchesAttempt(r, s) ==
  r.attempt = s.attempt /\ r.state \in {"running", "cancel_requested"}

RunnerStillMatches(r, s) ==
  /\ r.attempt = s.attempt
  /\ r.state \in {"running", "cancel_requested"}
  /\ r.updated <= s.updated

\* action is one of "renew", "requeue", "fail", "cancel".
DispatchReconciledRow(r, action, now) ==
  IF action = "renew" THEN RenewedRow(r, now)
  ELSE IF r.state = "cancel_requested" THEN CancelledRow(r, now)
  ELSE IF action = "requeue" THEN DispatchRequeuedRow(r, now)
  ELSE FailedRow(r, now)

WallTimeExhausted(r, now) == now >= r.created + WallTime

\* action is one of "retry", "fail", "cancel".
StaleReconciledRow(r, action, now) ==
  IF action = "cancel" \/ r.state = "cancel_requested"
  THEN CancelledRow(r, now)
  ELSE IF action = "retry" /\ ~WallTimeExhausted(r, now)
       THEN RunnerRequeuedRow(r, now)
       ELSE FailedRow(r, now)

\* What controller.py makes of a listed row: status is the executor's
\* "active", "missing" or "exited".
DispatchAction(d, status) ==
  IF d.state = "cancel_requested" THEN "cancel"
  ELSE CASE status = "active"  -> "renew"
         [] status = "missing" -> "requeue"
         [] OTHER              -> "fail"

StaleAction(s) ==
  IF s.state = "cancel_requested" THEN "cancel"
  ELSE IF s.attempt < RunnerMaxAttempts THEN "retry" ELSE "fail"

------------------------------------------------------------------------------
(* Where a job stands in JobLifecycle. *)

PhaseOf(state) ==
  CASE state = "absent"                     -> "none"
    [] state = "pending"                    -> "queued"
    [] state \in {"dispatched", "running"}  -> "assigned"
    [] state = "cancel_requested"           -> "stopping"
    [] OTHER                                -> state
==============================================================================
