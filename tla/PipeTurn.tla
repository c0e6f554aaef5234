------------------------------- MODULE PipeTurn -------------------------------
(***************************************************************************)
(* One chat turn of the deep research pipe (deep_research_pipe.py), the    *)
(* job it creates, and what the gateway publishes to the chat about it     *)
(* (the _publish_* calls of api.py).                                       *)
(*                                                                         *)
(* The pipe is a coroutine that becomes an async generator: it is either   *)
(* inside an await of its own, where a Stop raises CancelledError, or      *)
(* suspended at a yield while Open WebUI handles the chunk, where a Stop   *)
(* cancels the consumer and the generator is only closed.  The job moves   *)
(* on by itself: its life cycle is the one of JobRepository, reduced to    *)
(* what the chat can tell apart.                                           *)
(***************************************************************************)
EXTENDS Naturals, Sequences, FiniteSets

CONSTANTS
  Artifacts,  \* names in the job's artifact manifest
  MaxStops,   \* bound: how often the user presses Stop
  MaxFaults   \* bound: calls that fail or lose their answer, silent runners

ASSUME TurnAssumption == MaxStops \in Nat /\ MaxFaults \in Nat

VARIABLES
  job,     \* state of the research job
  pipe,    \* where pipe() and _stream_job_result stand
  outbox,  \* the gateway's publications that have not reached the chat
  chat,    \* the message as the user sees it
  files,   \* files uploaded to Open WebUI, in order; a file's id is its index
  late,    \* the wait window of _stream_job_result has passed
  stops,   \* history: Stops pressed
  faults   \* history: faults so far

pvars == <<job, pipe, outbox, chat, files, late, stops, faults>>

Pending == {"queued", "dispatched", "running"}
Ends == {"succeeded", "failed", "cancelled"}
JobStates == {"none", "cancel_requested"} \union Pending \union Ends

\* Awaits before the job is known, awaits inside the try, and yields.
Preparing == {"context", "dialog", "create"}
Guarded == {"poll", "sleep", "attach", "preview", "report", "files", "status"}
Suspended == {"started", "keepalive", "last"}
Cancelling == {"cancel", "recancel"}
Places == Preparing \union Guarded \union Suspended \union Cancelling \union {"ended"}

\* "progress" is awaited by its runner, "stray" is one nobody waits for.
Publications == {"progress", "stray", "report", "complete", "failed", "cancelled"}
Statuses == {"none", "starting", "progress", "complete", "failed", "cancelled"}

Init ==
  /\ job = "none"
  /\ pipe = [at |-> "context", todo |-> {}, got |-> {}, caught |-> "no"]
  /\ outbox = {}
  /\ chat = [status |-> "none", report |-> FALSE, files |-> {}]
  /\ files = <<>>
  /\ late = FALSE
  /\ stops = 0
  /\ faults = 0

Fault == faults < MaxFaults /\ faults' = faults + 1

At(place) == pipe.at = place

GoTo(place) == pipe' = [pipe EXCEPT !.at = place]

------------------------------------------------------------------------------
(* pipe(): context, model choice and approval, creation. *)

\* A refusal of pipe()'s own: configuration, no models, no approval, no sources.
Decline ==
  /\ pipe.at \in {"context", "dialog"}
  /\ GoTo("ended")
  /\ UNCHANGED <<job, outbox, chat, files, late, stops, faults>>

\* _collect_context and _available_models, every call answered.
CollectContext ==
  /\ At("context")
  /\ GoTo("dialog")
  /\ UNCHANGED <<job, outbox, chat, files, late, stops, faults>>

\* Models chosen and plan approved: the first status goes out, then the request.
Approve ==
  /\ At("dialog")
  /\ GoTo("create")
  /\ chat' = [chat EXCEPT !.status = "starting"]
  /\ UNCHANGED <<job, outbox, files, late, stops, faults>>

\* The gateway commits the job that the open request asks for.
CommitJob ==
  /\ At("create") /\ job = "none"
  /\ job' = "queued"
  /\ UNCHANGED <<pipe, outbox, chat, files, late, stops, faults>>

\* The answer arrives: the generator is returned and yields its first chunk.
JobCreated ==
  /\ At("create") /\ job # "none"
  /\ GoTo("started")
  /\ UNCHANGED <<job, outbox, chat, files, late, stops, faults>>

\* A call before the generator fails: pipe() returns an error text.
PrepareFails ==
  /\ pipe.at \in {"context", "create"}
  /\ Fault
  /\ GoTo("ended")
  /\ UNCHANGED <<job, outbox, chat, files, late, stops>>

------------------------------------------------------------------------------
(* _stream_job_result. *)

\* Mutant: the job is cancelled in a finally, whenever the generator ends.
ResumeFinally ==
  /\ pipe.at \in Suspended
  /\ GoTo(CASE At("started")   -> "poll"
            [] At("keepalive") -> "sleep"
            [] At("last")      -> "cancel")
  /\ UNCHANGED <<job, outbox, chat, files, late, stops, faults>>

\* Open WebUI has handled a chunk and asks for the next one.
Resume ==
  /\ pipe.at \in Suspended
  /\ GoTo(CASE At("started")   -> "poll"
            [] At("keepalive") -> "sleep"
            [] At("last")      -> "ended")
  /\ UNCHANGED <<job, outbox, chat, files, late, stops, faults>>

Wake ==
  /\ At("sleep")
  /\ GoTo("poll")
  /\ UNCHANGED <<job, outbox, chat, files, late, stops, faults>>

DeadlinePasses ==
  /\ ~late
  /\ pipe.at \in Guarded \union Suspended
  /\ late' = TRUE
  /\ UNCHANGED <<job, pipe, outbox, chat, files, stops, faults>>

\* Mutant: the wait window is forgotten.
AfterPollForever == "keepalive"

\* No final answer: wait for the next poll, or leave a job that goes on.
AfterPoll == IF late THEN "last" ELSE "keepalive"

Poll ==
  /\ At("poll")
  /\ \/ job = "succeeded" /\ pipe' = [pipe EXCEPT !.at = "attach", !.todo = Artifacts]
     \/ job \in {"failed", "cancelled"} /\ GoTo("last")
     \/ job \notin Ends /\ GoTo(AfterPoll)
  /\ UNCHANGED <<job, outbox, chat, files, late, stops, faults>>

PollFails ==
  /\ At("poll")
  /\ Fault
  /\ GoTo(AfterPoll)
  /\ UNCHANGED <<job, outbox, chat, files, late, stops>>

\* One artifact of the manifest: fetched and stored without a preview.
Upload(a) ==
  /\ At("attach") /\ a \in pipe.todo
  /\ files' = Append(files, [name |-> a, whole |-> FALSE])
  /\ pipe' = [pipe EXCEPT !.at = "preview", !.todo = @ \ {a}]
  /\ UNCHANGED <<job, outbox, chat, late, stops, faults>>

\* Its preview text is stored: it may be attached.
Preview ==
  /\ At("preview")
  /\ files' = [files EXCEPT ![Len(files)].whole = TRUE]
  /\ pipe' = [pipe EXCEPT !.at = "attach", !.got = @ \union {Len(files)}]
  /\ UNCHANGED <<job, outbox, chat, late, stops, faults>>

Attached ==
  /\ At("attach") /\ pipe.todo = {}
  /\ GoTo("report")
  /\ UNCHANGED <<job, outbox, chat, files, late, stops, faults>>

\* Mutant: what was uploaded before the error is attached all the same.
AttachFailsKeeping ==
  /\ pipe.at \in {"attach", "preview"}
  /\ Fault
  /\ GoTo("report")
  /\ UNCHANGED <<job, outbox, chat, files, late, stops>>

\* Any call of _attach_artifacts fails: nothing is attached, the report goes on.
AttachFails ==
  /\ pipe.at \in {"attach", "preview"}
  /\ Fault
  /\ pipe' = [pipe EXCEPT !.at = "report", !.todo = {}, !.got = {}]
  /\ UNCHANGED <<job, outbox, chat, files, late, stops>>

FetchReport ==
  /\ At("report")
  /\ GoTo(IF pipe.got = {} THEN "status" ELSE "files")
  /\ UNCHANGED <<job, outbox, chat, files, late, stops, faults>>

\* The error leaves the generator.
FetchReportFails ==
  /\ At("report")
  /\ Fault
  /\ GoTo("ended")
  /\ UNCHANGED <<job, outbox, chat, files, late, stops>>

EmitFiles ==
  /\ At("files")
  /\ chat' = [chat EXCEPT !.files = pipe.got]
  /\ GoTo("status")
  /\ UNCHANGED <<job, outbox, files, late, stops, faults>>

\* The final status, then the report as the last chunk.
EmitStatus ==
  /\ At("status")
  /\ chat' = [chat EXCEPT !.status = "complete", !.report = TRUE]
  /\ GoTo("last")
  /\ UNCHANGED <<job, outbox, files, late, stops, faults>>

------------------------------------------------------------------------------
(* Stop. *)

\* request_cancel of the gateway: a job without a runner ends at once.
Cancelled(state) ==
  CASE state = "queued"                   -> "cancelled"
    [] state \in {"dispatched", "running"} -> "cancel_requested"
    [] OTHER                              -> state

StopPressed == stops < MaxStops /\ stops' = stops + 1

\* Nothing catches it: pipe() ends, or the suspended generator is closed.
StopUncaught ==
  /\ pipe.at \in Preparing \union Suspended
  /\ StopPressed
  /\ GoTo("ended")
  /\ UNCHANGED <<job, outbox, chat, files, late, faults>>

\* CancelledError inside the try: a task of its own asks for the cancellation.
StopCaught ==
  /\ pipe.at \in Guarded
  /\ StopPressed
  /\ pipe' = [pipe EXCEPT !.at = "cancel", !.caught = "yes"]
  /\ UNCHANGED <<job, outbox, chat, files, late, faults>>

\* Mutant: the cancellation is awaited without a shield.
StopAgainUnshielded ==
  /\ pipe.at \in Cancelling
  /\ StopPressed
  /\ GoTo("ended")
  /\ UNCHANGED <<job, outbox, chat, files, late, faults>>

\* The shield keeps the task from a second Stop; the third one reaches it.
StopAgain ==
  /\ pipe.at \in Cancelling
  /\ StopPressed
  /\ GoTo(IF At("cancel") THEN "recancel" ELSE "ended")
  /\ UNCHANGED <<job, outbox, chat, files, late, faults>>

CancelJob ==
  /\ pipe.at \in Cancelling
  /\ job' = Cancelled(job)
  /\ GoTo("ended")
  /\ UNCHANGED <<outbox, chat, files, late, stops, faults>>

\* The request fails, with or without effect; the error is suppressed.
CancelJobFails ==
  /\ pipe.at \in Cancelling
  /\ Fault
  /\ job' \in {job, Cancelled(job)}
  /\ pipe' = [pipe EXCEPT !.at = "ended", !.caught = "lost"]
  /\ UNCHANGED <<outbox, chat, files, late, stops>>

------------------------------------------------------------------------------
(* The job and its publications. *)

\* A runner that does not wait any more leaves its progress call behind.
Left == IF "progress" \in outbox THEN (outbox \ {"progress"}) \union {"stray"} ELSE outbox

Dispatch ==
  /\ job = "queued"
  /\ job' = "dispatched"
  /\ UNCHANGED <<pipe, outbox, chat, files, late, stops, faults>>

\* mark_started and append_runner_event, committed, then _publish_progress;
\* the runner, and its ProgressEmitter, wait for the answer.
Progress ==
  /\ job \in {"dispatched", "running", "cancel_requested"}
  /\ "progress" \notin outbox
  /\ job' = IF job = "dispatched" THEN "running" ELSE job
  /\ outbox' = outbox \union {"progress"}
  /\ UNCHANGED <<pipe, chat, files, late, stops, faults>>

\* Mutant: the report is written while callbacks are still pending.
GatheredNot == TRUE

\* The engine waits for its pending callbacks before it writes the report.
Gathered == "progress" \notin outbox

\* Mutant: only the status is published.
CompleteWithoutReport ==
  /\ job = "running"
  /\ Gathered
  /\ job' = "succeeded"
  /\ outbox' = outbox \union {"complete"}
  /\ UNCHANGED <<pipe, chat, files, late, stops, faults>>

\* runner_complete: committed, then _publish_completion starts with the report.
Complete ==
  /\ job = "running"
  /\ Gathered
  /\ job' = "succeeded"
  /\ outbox' = outbox \union {"report"}
  /\ UNCHANGED <<pipe, chat, files, late, stops, faults>>

\* runner_failed: an error of the research does not wait for its callbacks.
RunnerFails ==
  /\ job = "running"
  /\ job' = "failed"
  /\ outbox' = Left \union {"failed"}
  /\ UNCHANGED <<pipe, chat, files, late, stops, faults>>

\* runner_cancelled: the runner saw the request, or is told to terminate.
RunnerCancels ==
  /\ job \in {"running", "cancel_requested"}
  /\ job' = "cancelled"
  /\ outbox' = Left \union {"cancelled"}
  /\ UNCHANGED <<pipe, chat, files, late, stops, faults>>

\* The controller ends the job: nothing is published.
ControllerEnds ==
  /\ \/ job \in {"dispatched", "running"} /\ job' = "failed" /\ Fault
     \/ job = "cancel_requested" /\ job' = "cancelled" /\ UNCHANGED faults
  /\ outbox' = Left
  /\ UNCHANGED <<pipe, chat, files, late, stops>>

\* The controller takes the job from a silent runner.
Requeue ==
  /\ job \in {"dispatched", "running"}
  /\ Fault
  /\ job' = "queued"
  /\ outbox' = Left
  /\ UNCHANGED <<pipe, chat, files, late, stops>>

\* A runner's progress call times out while the gateway works on it.
AbandonProgress ==
  /\ "progress" \in outbox
  /\ Fault
  /\ outbox' = Left
  /\ UNCHANGED <<job, pipe, chat, files, late, stops>>

\* A publication reaches the message; the final status follows the report.
Deliver(p) ==
  /\ p \in outbox
  /\ outbox' = (outbox \ {p}) \union (IF p = "report" THEN {"complete"} ELSE {})
  /\ chat' = CASE p = "report"               -> [chat EXCEPT !.report = TRUE]
               [] p \in {"progress", "stray"} -> [chat EXCEPT !.status = "progress"]
               [] OTHER                       -> [chat EXCEPT !.status = p]
  /\ UNCHANGED <<job, pipe, files, late, stops, faults>>

\* Its error is suppressed, and with it what was to follow.
Lose(p) ==
  /\ p \in outbox
  /\ Fault
  /\ outbox' = outbox \ {p}
  /\ UNCHANGED <<job, pipe, chat, files, late, stops>>

------------------------------------------------------------------------------

\* The steps the event loop takes by itself once the job exists.
StreamStep ==
  \/ JobCreated \/ Resume \/ Wake \/ DeadlinePasses \/ Poll \/ Attached
  \/ (\E a \in Artifacts : Upload(a)) \/ Preview
  \/ FetchReport \/ EmitFiles \/ EmitStatus \/ CancelJob

PipeStep ==
  \/ Decline \/ CollectContext \/ Approve \/ CommitJob \/ StreamStep

PipeFails ==
  \/ PrepareFails \/ PollFails \/ AttachFails \/ FetchReportFails \/ CancelJobFails

Stop == StopUncaught \/ StopCaught \/ StopAgain

GatewayStep ==
  \/ Dispatch \/ Progress \/ Complete \/ RunnerFails \/ RunnerCancels
  \/ ControllerEnds \/ Requeue \/ AbandonProgress
  \/ \E p \in outbox : Deliver(p) \/ Lose(p)

TurnNext == PipeStep \/ PipeFails \/ Stop \/ GatewayStep

\* The event loop goes on, publications are delivered or fail, time passes.
\* Nothing is assumed of the user, of the runner or of the controller.
TurnFairness ==
  /\ WF_pvars(StreamStep)
  /\ WF_pvars(DeadlinePasses)
  /\ WF_pvars(\E p \in outbox : Deliver(p))

------------------------------------------------------------------------------
(* Properties. *)

\* Type invariant of the turn, the job it watches and the message.
TurnTypeOK ==
  /\ job \in JobStates
  /\ pipe \in [at : Places, todo : SUBSET Artifacts, got : SUBSET DOMAIN files,
               caught : {"no", "yes", "lost"}]
  /\ outbox \subseteq Publications
  /\ chat \in [status : Statuses, report : BOOLEAN, files : SUBSET DOMAIN files]
  /\ files \in Seq([name : Artifacts, whole : BOOLEAN])
  /\ late \in BOOLEAN
  /\ stops \in 0 .. MaxStops
  /\ faults \in 0 .. MaxFaults

\* A Stop that _stream_job_result catches reaches the job, even if the user
\* presses it twice: when the turn is over the job is not left to run, unless
\* the cancel request itself failed.  A third Stop cancels that request.
StopReachesJob ==
  At("ended") /\ pipe.caught = "yes" /\ stops <= 2 => job \notin Pending

\* Accepted work is cancelled by a Stop only: neither the end of the wait
\* window nor a failed call nor the end of the stream asks for it.
OnlyStopCancels ==
  [][/\ job' # job
     /\ \/ job' = "cancel_requested"
        \/ job = "queued" /\ job' = "cancelled"
     => pipe.caught = "yes"]_pvars

\* The message gets every artifact of the job, each once and with its preview
\* text, or none: _attach_artifacts never leaves a partial set on it.
AttachAllOrNone ==
  \/ chat.files = {}
  \/ /\ \A f \in chat.files : files[f].whole
     /\ {files[f].name : f \in chat.files} = Artifacts
     /\ Cardinality(chat.files) = Cardinality(Artifacts)

\* What the chat says is so: a final status names the end the job came to, and a
\* report is shown of a job that succeeded.  With no fault, the last status of a
\* successful job is the final one, in whatever order the gateway's requests and
\* the pipe's own event arrive.
StatusIsTrue ==
  /\ chat.status \in Ends => job = chat.status
  /\ chat.status = "complete" \/ chat.report => job = "succeeded"
  /\ job = "succeeded" /\ outbox = {} /\ faults = 0 => chat.status = "complete"

\* The report of a job that succeeded reaches the chat over one of two ways,
\* the stream or the gateway's replacement: one lost call alone cannot stop it.
\* A second fault, or a Stop or a closed wait window beside the first, can.
ReportReachesChat ==
  job = "succeeded" ~>
    chat.report \/ faults > 1 \/ (faults = 1 /\ (stops > 0 \/ late))

\* A turn whose job was created ends, whatever becomes of the job.
TurnEnds == At("started") ~> At("ended")
===============================================================================
