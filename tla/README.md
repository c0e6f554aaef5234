# Formal model of the Open WebUI deep-research service

The service runs long research jobs for Open WebUI users. A *pipe* function inside Open WebUI
posts a job to a *gateway*; the gateway stores it in PostgreSQL; a *controller* task, elected
among the gateway replicas, claims queued jobs and asks an *executor* (local processes or
Kubernetes Jobs) to start a *runner* process; the runner drives the research library, calls
models through the gateway and reports back over HTTP with a per-claim token; report files go to
an *artifact store* and a *retention cleaner* deletes them later. A *save action* puts a report
into a Knowledge collection, and a *function sync* installs pipe and action in Open WebUI. This
directory holds TLA+ models of that machinery, TLC configurations that check them and TLAPS proofs
of every safety property the runs find true.

Paths below are relative to the repository; `pkg/` is `src/open_webui_gpt_researcher/`.

## 1. Inventory

| Component | State | Operations | Interacts with | Hard part |
|---|---|---|---|---|
| Job table (`pkg/repository.py`, `db.py`, `domain.py`) | `research_jobs`, `research_events`, `research_artifacts` | create, claim, start, heartbeat, events, usage, cancel, fail, complete, two listings, two reconciliations, retention | everyone, one transaction per call | callers act on old tokens and old listings; two recovery paths; attempt accounting |
| Controller (`pkg/controller.py`, advisory lock in `db.py`) | leadership, current round | elect, check, reconcile dispatches, reconcile runners, dispatch one | job table, executor | replicas, lost sessions, crashes between any two calls, claim limit in two statements |
| Executors (`pkg/executors.py`) | process table / Kubernetes Jobs | submit, inspect, stop | controller, runner | partial failures, forgotten processes |
| Runner (`pkg/runner.py`, `cli.py`) | the research task, heartbeat and poll tasks | start, heartbeat, poll, complete, report | gateway API, engine | cancellation racing completion, lost answers, zombies |
| Gateway job API (`pkg/api.py`) | none | handlers for users and runners, publication to the chat | job table, store, Open WebUI | completion in two transactions with uploads in between; publication after the commit |
| Artifact store and cleaner (`pkg/artifacts.py`, `cleanup.py`) | objects, rows | put, list, delete; the cleanup run | job table | no transaction spans store and database |
| Event stream (`pkg/api.py` 266-305) | position of each reader | list after, end on a terminal state | job table, clients | state and events read separately, reconnects, event retention |
| Job creation (`pkg/repository.py` 79-136, `api.py` 192-235) | rows of a user's chat | create, resolve | pipe | concurrent creation, unique constraint, stale parent |
| Model proxy and usage (`pkg/api.py` 604-889) | `usage` counters | admit, forward, count | runner, Open WebUI | the job ends or changes hands between admission and accounting |
| Research engine (`pkg/engines.py`, `search.py`, `upstream.py`) | progress batches, browser pool | run, progress | runner, research library | concurrent callbacks, stalled pages |
| Pipe (`openwebui_functions/deep_research_pipe.py`) | one chat turn | plan, collect, select, create, poll, attach, cancel | gateway, Open WebUI | Stop at any moment, failing calls, arithmetic that the gateway repeats |
| Save action (`openwebui_functions/save_research_to_knowledge.py`) | one save | choose, upload, preview, create, add | Open WebUI, gateway | partial failure, repetition |
| Function sync (`pkg/function_sync.py`) | none | export, create or update, valves, toggle, model metadata | Open WebUI | read-modify-write without a lock, overlapping and broken runs |
| Open WebUI client, auth (`pkg/openwebui.py`, `auth.py`) | none | events, completions, retrieval | gateway | lost answers |
| Configuration (`pkg/config.py`) | none | budget and shape checks | creation | agreement with the pipe |
| Metrics, logging, migrations, deployment | none that the program reads back | | | |

What makes each of the modelled components correct:

* **Job table.** A job moves only along its life cycle and ends once; a credential is accepted
  exactly while the job is active and only for its latest claim; every active job is in reach of
  exactly one recovery query; an accepted cancel wins over everything later; research is started
  at most `RUNNER_MAX_ATTEMPTS` times; the search allowance is never reset by a retry; a heartbeat saves a
  job from an old stale listing; the event log tells the same story as the row.
* **Controller, executor, runner.** No two tracked runners for a job; a cancelled job has no
  tracked runner that works; no more than `MAX_CONCURRENT_JOBS` active jobs; every accepted job
  ends in spite of finitely many faults.
* **Artifacts.** A reported result is complete for its retention and comes from one completion; a
  row never loses its object to the orphan sweep; what nobody refers to is deleted.
* **Job creation.** An idempotency key names one job and its holder gets that job, however the
  requests race; iterations of a chat form a chain; no request is refused without a reason.
* **Event stream.** Sequence numbers are issued once and never collide; a client that reconnects
  misses nothing but what retention deleted; a stream ends after the job's last event, and does end.
* **Chat turn.** A Stop that is caught reaches the job, and nothing but a Stop cancels it; the
  message never names an end the job did not come to, gets all artifacts or none, and gets the
  report in spite of a lost call; a turn ends whatever becomes of its job.
* **Save action.** Collections receive only the whole report, one copy of an attached one.
* **Request.** Pipe and gateway agree on which requests are acceptable; every model of a job has
  usable limits; the context snapshot keeps every document and its bound.
* **Model calls.** Prompt, answer and safety margin fit the model; tokens are counted once, and
  never on a job that is over.
* **Function sync.** One undisturbed run repairs whatever earlier ones left; a finished run means
  that everything managed is up to date; what is not managed survives.

The hazards behind these properties are listed, line by line, under `hazards` in `PROJECT.json`.

## 2. Modules

    JobLifecycle          abstract: what a user is promised about one job; implemented by
                          JobRepository and by ControlPlane
    JobRows               the row and what each repository method does to it; extended by both

    JobRepository ------- JobRepositoryProofs    the job table, called by anyone at any time
    ControlPlane -------- ControlPlaneProofs     leader election, controllers, executor and runners
                                                 around those rows

    ArtifactLifecycle --- ArtifactLifecycleProofs  uploads, artifact rows, retention cleaner
    JobCreation --------- JobCreationProofs      racing creation requests
    EventStream --------- EventStreamProofs      event log, streams and their clients

    PipeTurn              one chat turn, its job, and what is published of it
       | EXTENDS
    ChatTurn ------------ ChatTurnProofs         INSTANCE SaveAction: the turn, and the Save button
                                                 of the message it leaves

    ResearchRequest       the request the pipe builds, the gateway's checks
       | EXTENDS
    MeteredJob ---------- MeteredJobProofs       INSTANCE ModelProxy: the calls of the job made of it;
                                                 the proofs cover both modules

    FunctionSync -------- FunctionSyncProofs     installing functions and model metadata
    MC*                   instances for TLC

### JobRows

The columns of `research_jobs` that decide anything, as a record, and one operator per repository
method: a guard (`DispatchStillMatches`, `HoldsToken`, ...) or the row the method leaves
(`ClaimedRow`, `RunnerRequeuedRow`, ...). `JobRepository` and `ControlPlane` share these operators,
so there is one translation of `repository.py`. A token is represented by the attempt it was
issued for, because `claim_next` creates both together and a fresh token equals no older one.
`started_at` and the lease are NULL (`None`) or a time. `get_spec`, `to_job_view` and the other
reads have no effect and are left out, as are the columns no transition reads.

### JobRepository

One action per transaction of `repository.py` (and of the handlers of `api.py` that put several
repository calls in one transaction). Each job row is locked for its transaction, so transactions
on one row are atomic steps. What matters is what the caller carries between transactions, and
there the model is as liberal as it can be: a runner may use **any token ever issued**
(`IssuedTokens`), and a controller may reconcile with **any row a listing ever returned**
(`dispatchList`, `staleList` only grow) and any executor status. This includes delayed
controllers, several of them, zombies and lost or repeated requests. A refused call changes
nothing and is not a step. `claim_next`'s limit and order are not constrained here.

A completion may carry usage of its own: `RunnerCompletion.usage` is any JSON object, and
`mark_completed` merges it over the counters (`repository.py:563`). `MarkCompleted` leaves the search
counter alone or sets it to any of `ReportedSearches`. `QueryAllowance` is about the gateway's own
counting, and says nothing of the step to success. Observation: the counters that the gateway kept
under the row lock can be replaced, up or down, by the last runner's report; `tests/test_api.py:201`
posts token counts that way, while the bundled engine sends `upstream_costs` only (`engines.py:392`).

The rows of different jobs never interact in this module (their only meeting point, the
concurrency limit, is in `ControlPlane`), so a run with one job covers any number of them; the
proofs are for every set `Jobs`.

### ControlPlane

The replicas' controller tasks as small programs with a program counter: one action per
transaction or executor call of `_dispatch_forever` (`CheckLease`, `ListExpiredDispatches`,
`InspectDispatch`, `ReconcileExpiredDispatch`, `ListStaleRunners`, `InspectRunner`,
`ReconcileStaleRunner`, `CountActive`, `ClaimNext`, `Submit`, `SubmitFailed`). The advisory lock
is one variable; `LoseSession` takes it from a controller that does not know. `executor` is what
the executor can tell about a process, `proc` where the process really is: they differ because
a stop takes time, because `LocalProcessExecutor` forgets its table on a restart and a finished
process after one inspection, and because Kubernetes removes finished Jobs. Runner processes are
indexed by job and attempt.

Time: the clock stands at `Now` and `Tick` makes every stored time one unit older, down to the
oldest value a condition can still tell apart. Only differences between times matter to the code,
so this is the same system with finitely many states and behaviours that go on for ever.

Simplifications: `get_spec` and `started` are one step (nothing the runner learns from the first is
used before the second, and both are refused by the same test); `inspect` and the `stop` that
follows are one step; a runner's requests are answered at once, a lost request or lost answer is a
fault in `Deliver`; a completion reports no search counter (no property of the module reads it); a
claimed job's `MaxClaims` bound is a bound of the model. A runner whose state
poll or heartbeat is refused goes on, as `_wait_for_stop` and `_heartbeat_forever` do. SIGTERM is
not handled by the runner, so `Kill` ends it without a report; it may work and report until then.

A listing returns at most `BatchSize` rows (`DISPATCH_RECONCILE_BATCH_SIZE`), any of those that
qualify (`Batches`) in place of the oldest. The proofs hold for every size. The runs use 1, but
never have more than one active job to list, so that no listing is cut in them.

`OneExecutorPerJob` speaks of processes the executor tracks. A process whose deletion is still in the
background (`executors.py:271`), or one that a restarted `LocalProcessExecutor` has forgotten
(`executors.py:43`), may go on beside its successor in the code and in the model. What keeps it from
the job is its token: `TokenFence` of `JobRepository`.

`starts` is a history variable: it counts how often a job was marked started, and exists so that
`JobLifecycle`, which bounds the research runs of a job, can be compared with what controllers, executor
and runners really do. `JobRepository` implements `JobLifecycle` too, for callers that may do anything
with any old token or listing, but there the caller's decision between a retry and a failure is part of
the action. Here it is taken when the stale runner is inspected and carried out later, by a controller
that may not lead any more.

### ArtifactLifecycle

`runner_complete` as a first transaction (`BeginUpload`), one `Put` per artifact and a second
transaction (`CommitUpload`) that checks the job again; `AbandonUpload` is a store error, a
gateway restart, or a put whose directory was removed under it. `RetentionCleaner.run` as one
action per transaction or store call, with `DeleteExpiredObject` and `SweepObject` failing or
succeeding, and `CrashRun` anywhere. Object keys contain job, attempt and upload id, so an object
is identified by the upload and the name. The cleaner's batch limits are not modelled as numbers: a
listing cut short is a run in which the remaining deletions failed, which is included.
Assumptions: one cleaner at a time (`concurrencyPolicy: Forbid` in the CronJob), the configuration
order `validate_retention_order` enforces, and that no completion call outlasts
`ORPHAN_GRACE_SECONDS` (at least an hour by configuration): `MaxUploadTime <= OrphanGrace`.
Clocks of gateway, store and cleaner are one clock.

### JobCreation

Every request is a program of four steps: two reads, the insertion (the flush, where PostgreSQL
checks the constraints) and the commit; after an `IntegrityError` a new session looks for the other
job. A second insertion with the same key waits for the first one's transaction (`Waits`). A row is
visible to other sessions from its commit (`Visible`); `Delete` is retention, which waits for the key
share lock of an open child and sets the reference of committed ones to NULL. A request hash is the
pair of chat and query, because what matters is whether two requests agree. Idempotency is per user,
so the model has one user. Two concurrent requests of one chat may get the same iteration number: the
code does not exclude it and no document promises it, so no property does.

### EventStream

A writer's transaction is two steps: lock, test and `max(sequence)`; then insert and commit, together
with the job's new state. `stream_events` is one step per statement (state, existence, events), per
event sent and per decision to go on, since every statement sees what is committed by then. The state
that decides whether a batch is the last one is the one read first (`last`): the session does not
reload it. `Disconnect` may happen anywhere; sending and receiving an event is one step because a
connection that breaks between the two is one that breaks before. Retention deletes a prefix of the
events of an ended job, or the whole job; dates and batch sizes only decide how long the prefix is.

### PipeTurn

`pipe()` and `_stream_job_result` as one program counter. What decides is where a Stop finds it:
inside an await before the job is known, inside an await of the `try` (where `CancelledError` is
caught), suspended at a `yield` (where the generator is only closed), or inside the shielded
cancellation itself. Every call that may fail has its failing action; a request may also take
effect and lose its answer (`CommitJob` followed by `PrepareFails` or a Stop). The job moves by
itself through the states the chat can tell apart; what the handlers of `api.py` publish after
their commits waits in `outbox` and is delivered in any order, or lost. A runner waits for the
answer to its progress event (`ProgressEmitter` holds its lock), so one of them is open at a time;
a runner that was replaced or gave up leaves a `stray` one. `Gathered` is
`asyncio.gather(*pending_callbacks)` in the engine: without it a late progress status could follow
the final one. Chunk texts, intervals and dialogs are left out; the wait window is one step that
may come at any time (`DeadlinePasses`).

Observations that are no properties: a Stop while the creation request is open, or while the
generator is suspended at a `yield`, leaves the job running, and so does a third Stop, which
cancels the task that asks for the cancellation (deep_research_pipe.py:627 speaks of repeated
cancellations); after a failure or a cancellation a late progress status may be the last one shown.

### SaveAction, ChatTurn

`action()` of the Save button, one action per call that changes something: the dialogs, the reuse of
an attached report or its fetch, upload and preview text, the new collection, the addition.
`ChatTurn` puts it behind a turn, sharing the job, the uploaded files and the faults, so that it
starts from every message a turn can leave, including one whose attachments failed; `Expire` is
retention of the report's artifact. Collections are named by what the user chooses; a second new
one of the same name is a repeated choice.

### ResearchRequest

The arithmetic of one creation request. `PipeEstimate` and `DomainEstimate` translate the two
implementations of the query estimate (the pipe cannot import the service), `Compact` is one round
of `_compact_documents` with `Shortened` for the slice with its negative index, `Configure` one
dialog of `_configure_model_limits`, and `WellFormed` and `Affordable` what `CreateJobRequest`,
`validate_budget` and `validate_research_shape` refuse. A document is an identity (kind and id), a
digest and a length, a question is its length, and `fits` says whether ids, names and titles are within
the lengths of the schema. The identities in one request differ, as the pipe's walk over a set of linked
chats makes them; that compacting keeps them different is part of `SubmittedIsSound`.

`RefusedForTheList` lists under `NotLookedAt` what the pipe passes on unseen: the length of the question
(it asks only for one that is not empty, the gateway for 3 to 50000 characters), of ids, names and
titles, the wall time, the numbers of sources and documents, a document over 300000 characters and a
context over its own limit. A request with none of these is never refused, which is what shapes,
presets, the two estimates, the budgets, the models and the identities amount to.
Walking a chat's messages, which yields the documents, is left out, and so are source lists (only
their number matters to the gateway).

### ModelProxy, MeteredJob

`proxy_chat_completion`, one action per transaction or upstream event: `Admit` (or `Exhaust`,
`Refuse`) under the row lock, `Answer` without it, and `Count` or `EndStream` in a transaction of
their own. In between the job may end, be cancelled, or be given to another runner. `MeteredJob`
composes it with `ResearchRequest`: an accepted request freezes its limits, and the calls are held
to them. Token counts are estimates of the code; a provider is assumed to keep to `max_tokens`.
`UsageBounds` counts a stream as delivered once its first chunk was sent, whether it is counted or
not: a stream that breaks, or whose accounting fails, is only logged by the code. `Complete` merges the
usage of the report over the counters, naming any of them with any of `ReportedTokens`; a named counter
has the runner's number from then on, and `UsageBounds` is about the others.

### FunctionSync

`run` and `_sync_deep_research_model`, one action per call: the export, create or update, the reads
and writes of Valves, the toggle, the read and write of the model metadata. Every run carries what
it has read (`known`, `valves`, `meta`) to the call that uses it. Several runs overlap, each call may
fail with or without effect, and an administrator edits what the sync does not manage. `current`
stands for content, name and description, `managed` for the Valves the sync sets; `other` is a key
it does not know, numbered by the edit that set it. Settings are the same for all runs. `Init` is any
installation: each function missing or there, with old or packaged content, old or wanted Valves, active
or not, and the same for the model. So the upgrade of an old function in use is among the runs nobody
disturbs, and must not toggle it. A call that took effect and lost its answer is the call followed by
`Fail`; the model's write, the last call, has that outcome in `WriteModel` itself.

Observations: two runs that both saw an inactive function toggle it twice and leave it inactive
until the next run; an edit made between the read and the write of one object is lost; the
`is_active` of an existing model is not compared, so a model somebody deactivated stays so unless its
action or description are missing, when the update activates it as well (line 153). An update of a
function overwrites the rest of its `meta` (line 69), which is not modelled; `UnrelatedKept` is about
Valves and about what the model keeps besides.

### JobLifecycle

The promise, without tokens, leases, clocks, listings or events: a job is submitted, assigned,
begins at most `MaxRuns` research runs, and ends once; success needs a run begun under the present
assignment. The refinement mapping (end of `JobRepository` and of `ControlPlane`) takes `phase` from
the state column (`PhaseOf`), `begun` from `started_at` and `runs` from a history variable that counts
starts.

## 3. Runs

| Run | Question | Bounds and why they are enough | Distinct states | Result |
|---|---|---|---|---|
| `one_job` | all properties of the job table, and that it implements `JobLifecycle` | 1 job, lease and staleness 2, wall time 7, 3 attempts, 4 claims, clock to 9: room for three full start/stale/retry cycles, both exhausted-attempt and exhausted-wall-time ends, and old listings from each; a report names no search counter, 0 (below) or 3 (beyond the allowance) | 196 thousand | holds |
| `late_retry` | does a retry respect the wall time (docs/adrs.md:173)? | as above | | violated |
| `two_jobs` | the slot limit; cancelled means stopped | 2 jobs, 1 slot, 2 replicas that keep their sessions, 2 faults: a crash and a lost request in any order while both jobs want the slot | 2.0 million | holds |
| `split_brain_live` | one tracked runner per job; every job ends; controllers, executor and runners implement `JobLifecycle` | 1 job, 2 replicas, 4 claims, 2 attempts, 1 fault, of which a lost session is one kind: a job is dispatched, lost, requeued, retried and exhausted | 0.9 million | holds |
| `split_brain` | only one controller acts (docs/adrs.md:59) | sessions may drop once | | violated |
| `artifacts` | reports kept, leftovers collected | 1 job, 2 completion calls, 2 names, retention 2, grace 1, clock to 4: a second call can be refused, retention and grace both end within the clock, several cleanup runs fit | 2.0 million | holds |
| `creation` | one job per key, right answers, chains, an answer for everyone | 3 requests, 2 keys, 2 chats: a race of two beside a parent or a deleted job; requests agree when their chats do | 139 thousand | holds |
| `stream` | numbers, completeness, streams end | 2 writers, 2 readers that may reconnect for ever, 4 events: a race for a number, a batch of several events broken in the middle, an event purged before, while and after it is read | 277 thousand | holds |
| `chat` | Stop, attachments, statuses, the report, saving | 3 Stops (one to catch, one to shield, one that gets through), 2 faults (a failure of the stream beside one of the gateway's publication), 2 artifacts, 2 saves into an existing and a new collection | 0.6 million | holds |
| `request` | pipe and gateway agree; context; calls fit; usage | every shape up to one beyond the limits, budgets around the estimates, questions, strings, wall times, sources and documents on both sides of each limit, up to three documents of lengths around every threshold at limit 6000, models with published, contradictory and missing limits; then 2 calls, 2 attempts, and a report that sets any of the counters to 0 | 2.2 million | holds |
| `context_bound` | does the snapshot stay within its limit (docs/adrs.md:214)? | limit 4000, the valve's minimum; three documents | | violated |
| `sync` | convergence, completeness, edits kept | both functions in any state, 2 runs that overlap or follow each other, 1 fault, 1 edit: an upgrade, an overlap, or a broken run and the one that repairs it | 2.6 million | holds |

`CHECK_DEADLOCK FALSE` is set where the model's clock stops at a bound or all requests, writers,
calls, saves and runs are done; `ControlPlane` has no such bound and is checked for deadlock.
Symmetry is used only in runs without liveness properties. `TypeOK` of the modules other than
`JobRepository` is not checked by a run; it is a theorem for each of them (section 4).

**Fairness.** In `ControlPlane` (`FairSpec`): time passes; a controller that can take a step
eventually takes one (its loop awaits calls with timeouts and sleeps for bounded times); a runner
process that can go on does, because `Runner.run` bounds the engine by `asyncio.wait(timeout=...)`
and its requests by the client's timeout; the executor carries out a stop (`process.kill` after ten
seconds, the kubelet's grace period). Nothing is assumed of heartbeats, cancellation polls, users or
faults, and faults are finitely many. `Heartbeat` is not fair: jobs end although no heartbeat ever
arrives. In `JobCreation` and `EventStream` only the gateway's handlers are fair: an event loop
resumes a coroutine whose statement returned, and a statement that waits for a lock returns when the
holder commits, fails or loses its connection. Deaths, disconnections, writers and retention are not
fair. In `PipeTurn` (`TurnFairness`): the event loop resumes the turn when a call was answered, the
wait window ends, and a publication is delivered or fails; nothing is assumed of the user, of the
runner or of the controller, so `TurnEnds` covers jobs that never end. The other modules have no
liveness properties.

**Violations.** Three sentences of `docs/adrs.md` are stronger than the code; see `findings`.
(1) *late_retry*: the wall time is compared only when a job is put back, so a retry that waits for
a slot begins after the budget is gone, with a one-second allowance. (2) *split_brain*: a leader
checks its lock once per round. The row guards make this harmless for the row, and `EveryJobEnds`
holds with it; it can exceed the concurrency limit and leave two tracked runners of a job for a
round, which is why `OneExecutorPerJob` speaks of behaviours in which no session was lost and
`two_jobs` has none that are. (3) *context_bound*: each document may take at least 2000 characters,
and when fewer than 62 are left the slice index of the last one is not negative any more, so that
nearly the whole document is appended; `FairContext` states what does hold. One more divergence is
only observed: the stop of a silent runner precedes the second look at its row, so a runner that
came back after the listing is killed and its job waits one more stale period (docs/adrs.md:333
speaks of expired heartbeats). And the gateway accepts 300000 characters per document, while
`context_char_limit` may be as high as 500000: a single document between the two is refused.

Every property has a mutant in `PROJECT.json`: a named variant of one definition, written next to
it, under which the property fails.

## 4. Proofs

All theorems hold for every value of the constants that satisfies the named assumptions; bounds on
steps (`MaxTime`, `MaxClaims`, `MaxRuns`, ...) are arbitrary naturals in them and restrict nothing.

`JobRepositoryProofs` proves, for every set of jobs and all positive limits:
`TypeCorrect`, `RecoveryCovered`, `TokenFenced`, `OutcomesAgree`, `StartsBounded`, `TerminalFinal`,
`CancelFinal`, `HeartbeatSaves`, `QueriesBounded`, `LogReplays` and `LifecycleImplemented` (the
refinement, initial states and every step), from `ConfigAssumption` and `BoundsAssumption`. The inductive
invariant `IInv` is `TypeOK /\ RowsInv /\ ListInv /\ StartInv`:

* `RowsInv` says, for each state, which columns are NULL, that the token of an active row is its
  attempt, that no row was written in the future and that the search counter is within the
  allowance. `TokenFence`, `OutcomeConsistent` and `RecoveryCoverage` follow from it without a
  further step. None of them is inductive alone: a token column says nothing about leases or start
  times, on which the next step depends.
* `ListInv` says that a listed runner was silent for `RUNNER_STALE_SECONDS` when it was listed, and
  therefore still is. With the guard on `updated_at` this is why a heartbeat saves a job.
* `StartInv` relates the starts of a job to its attempts: at most one start per claim, and a job that
  waits or is dispatched still has a start left. Without it `StartsBounded` is not inductive, because
  the row alone does not remember how often it was running.

One lemma per row operator shows that it keeps a row well formed, one lemma per action that the step
keeps the invariant; the action properties (`TerminalFinal`, ...) and the refinement use the
invariant in the first state of a step. `LogReplays` adds what the log of a job says (`LogOK`):
every step, whichever of the transactions it is, leaves a log and the state beside it alone, or
appends to the log of a job that has not ended the event that names the new state (`LogStep`).

`ControlPlaneProofs` proves `OneExecutorPerJob` (`OneExecutor`), and, for leaders that keep their
database sessions (`SessionsDrop = FALSE`, as in the run `two_jobs`), `CancelledMeansStopped`
(`CancelStops`) and `ConcurrencyLimit` (`ConcurrencyBounded`), for any number of jobs, replicas, slots,
crashes and lost requests. The two need that assumption because the code does not promise them
without it: see `split_brain` in section 3. `DataInv` holds in every behaviour: how token and attempt of
a row go together, and that nothing exists for an attempt that was not made yet. `LeaderFacts` holds
as long as no session was lost. One controller is past its election (`LeaderInv`), so what it has
found out is still true when it acts on it (`HandInv`): the runner it is about to replace or close is
not tracked any more, the attempt it is about to submit is the last one and has no process, and the
count of active jobs it made before the claim has not grown. From this `ExecutorInv` follows: a
tracked live process is that of its job's last attempt, and its row was not put back behind its
back. `ConcurrencyLimit` holds although count and claim are two statements because users and runners
only ever take jobs out of the active ones; only a claim adds one.

`ControllersImplement` is the refinement of `JobLifecycle` by `ControlPlane`, initial states and every
step, in all behaviours, those with lost sessions and two acting leaders included. A step moves the row
of one job at most, in one of ten ways (`RowStep`, or `StartStep` when its research starts), and `Tick` none that shows. `StartInv` bounds the starts
of a job by its attempts, with one in hand while it is dispatched and one left of `RUNNER_MAX_ATTEMPTS`
while it waits. It needs `RetryInv`: what a controller is about to retry is not the last attempt. That
decision stays right however late it is carried out, because `reconcile_stale_runner` compares the row with
the attempt it was made for. It is this comparison, and not the leader lock, that the proof rests on.

`ArtifactLifecycleProofs` proves `ReportKept` (`ReportStaysComplete`), `NoDanglingRecord`
(`RecordsHaveObjects`), `SweepCollects` (`SweepLeavesNoOrphans`) and `JobOutlivesArtifacts`
(`JobsOutliveArtifacts`) for any jobs, uploads, names and periods. The argument is one about times,
and the assumption `MaxUploadTime <= OrphanGrace` on the configuration is what it rests on: an object
of an upload in progress is younger than the grace period (`UploadInv`), and a committed artifact that
the sweep's list of rows misses belongs to a completion after the run began (`CleanerInv`), so the
sweep takes neither. `CommitInv` says that a job that succeeded has exactly one committed upload;
`RecordInv` that its rows are complete until the retention is over and go after their objects.

`JobCreationProofs` proves `OneJobPerKey`, `AnswerIsMine`, `IterationChain` and `RefusedForAReason` for
any number of requests, keys, chats and queries, from `CreationAssumption` (NULL is no job id). Its
invariant adds what a request holds at each stage: a row exists from the insertion to the end
(`StageInv`), rows never share a key even before their commit (`KeyInv`), the parent a request
remembers succeeded or has been deleted since (`ParentInv`), open insertions keep their parents
(`ChainInv`), and an `IntegrityError` leaves either a visible job or a deletion behind (`DeletionInv`).

`EventStreamProofs` proves `NoCollision`, `NumbersNeverReused`, `NothingSkipped` and `CloseIsComplete` for
any number of writers, readers and events. `LogInv`: the rows are exactly the numbers above `purged` up
to `issued`, nothing is purged while the job is active, and an open transaction is alone and holds the
next number. `StreamOK`: a batch has no holes, and when the state read before it was final it reaches to
the last number. The order of the two reads is what makes the last part inductive.

`MeteredJobProofs` starts with the requests. It proves `OneCapabilityPerModel` (`LimitsComplete`),
`FairContext` (`ContextComplete`) and `SubmittedIsSound` (`SubmissionsSound`) for any catalog, any
answers and any number of documents of any length, from `RequestAssumption` and, for the last one,
`LimitAssumption`. The heart of the context is the loop of `_compact_documents`: what is used and what
is left add up to the limit, and as long as the limit leaves 2000 characters for each document, what is
left holds a whole share (`PerDocument`) for every document that is to come, so that neither the branch
without room nor the slice with a positive index is ever taken. The heart of `SubmittedIsSound` is
`EstimatesAgree`: the loop of the pipe and the one of the gateway compute the same number of queries.
A shape in range has at most four levels, so each recursive function is shown to exist by writing its
values down, and to be unique level by level; no induction is needed.

For the calls it first shows that a job with its calls implements the request alone
(`ImplementsRequest`: the proxy's steps stutter), which carries the theorems on requests over
(`ContextOfJobs`). `CallsFit` and `UsageFinal` rest on `CallsInv`: no call is sent before the job
exists, so limits do not change under a call, and every call that was sent fits them. `UsageCounted`
proves `UsageBounds`: the counters are the sums over one set of calls that holds every plain answer a
runner received and only settled ones (`UsageInv`), and a call settles once. It needs the laws of
finite sums (`TotalAdd`, `TotalMonotone`, `TotalSame`), which the library does not have. They are
proved there from the well-foundedness of inclusion on finite sets, each by a smallest counterexample,
because induction theorems that take an operator cannot be used. `ProxyAssumption` says that the calls
are finitely many.

`FunctionSyncProofs` proves `DoneMeansCurrent` (`FinishedIsCurrent`), `UnrelatedKept`
(`EditsSurvive`) and `ConvergesAlone` (`ConvergesUndisturbed`) for any list of functions, any number of overlapping runs, faults and edits.
`Progress` says how far a run has come with what it has read; the lemma `Grows` that no step of
anyone takes back what was reached keeps it true for the runs that wait, which is why one invariant
per run is enough. `Carries` says that the object a run is about to write back is what the
administrator set last unless the edit was raced; an edit removes that claim from exactly the runs
that have read and not yet written. For `ConvergesAlone` a run that nobody disturbed knows how things
stand: what its export said of functions it has not come to is still true, and those it has
handled are active (`AloneInv`); a run that found everything up to date has not written, and what it
found remains so (`FreshInv`).

`ChatTurnProofs` proves `StopReachesJob` (`StopIsHonoured`), `AttachAllOrNone`
(`AttachmentsComplete`), `StatusIsTrue` (`StatusCorrect`), `OnlyStopCancels` (`CancelledByStopOnly`)
and `SavesAreSound` (`SavesSound`) for any artifacts and collections and any number of Stops, faults and
saves, from `TurnAssumption` and `SaveAssumption`. Each has an invariant of its own. `StopInv`: a caught
Stop is in the cancellation or past it, so the job it leaves has no way back to a pending state.
`AttachInv`: what has been gathered and what is left of the manifest are disjoint and make up all of
it, and the file under preview belongs to neither. `StatusInv`: each publication on its way names the
state the job is in; in a fault-free run a progress call nobody waits for belongs to a job that did
not succeed, and an accepted report stays on its way until the final status has followed it.
`SaveInv`: a save that reuses a file reuses an attached one, and one that uploads does so only for a
message without files. Uploaded files only ever gain their preview text (`Grown`), which carries all
of this over a step.

The proofs led to two changes of the models, and both say the same as before on every instance
checked. `Status` of `ControlPlane` had `CASE` guards that overlap, so that TLC's choice of the first one
carried a meaning the definition did not state; `Tracked` now separates them. `TotalWorkers` of
`ResearchRequest` is the running total of the source's loop instead of a fold.

Only model-checked, because the prover handles neither fairness nor `ENABLED`: the liveness properties
`EveryJobEnds`, `EveryRequestAnswered`, `StreamsEnd`, `ReportReachesChat` and `TurnEnds`. That
`CancelledMeansStopped` and `ConcurrencyLimit` are not proved for leaders that lose a session is not
a limit of the prover: they do not hold there.

## 5. Plan

1. `PipeTurn` as an implementation of an abstract chat turn that publishes what its job came to.
2. The safety lemmas under the liveness properties: which states a job, a reader or a turn that does
   not end could remain in.

## 6. Not modelled

* The research library, and the adapters of `upstream.py` around it: browser pools, retrievers and
  prompts belong to third-party code whose behaviour the repository does not state. What the chat sees
  of the engine (progress, the report) is in `PipeTurn`.
* Embeddings and private retrieval of the gateway, authentication, metrics and logging: they keep no
  state the program reads back.
* Schema migrations and deployment: configuration, of which the models use the unique constraints,
  the foreign key, `concurrencyPolicy: Forbid` and the number of replicas.
* In the pipe: walking the messages of a chat and its linked chats, source lists, dialog texts.
* Inside modelled parts: several gateways with a `LocalProcessExecutor` each, a Kubernetes create that
  lands after its client died, `runner_backoff_limit` above 0, batch sizes of the cleaner.
