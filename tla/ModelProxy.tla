------------------------------ MODULE ModelProxy ------------------------------
(***************************************************************************)
(* The model calls of a job's runner through the gateway                   *)
(* (proxy_chat_completion in api.py, consume_usage in repository.py).  A   *)
(* call is admitted under the row lock, forwarded without it, and its      *)
(* tokens are added in a transaction of their own: by then the job may     *)
(* have ended or have been given to another runner.                        *)
(***************************************************************************)
EXTENDS Integers, FiniteSets, Functions

CONSTANTS
  Calls,         \* calls the runners of the job make
  Models,        \* models a runner may name
  InputSizes,    \* estimated input tokens
  OutputAsks,    \* max_tokens of the payload
  NoAsk,         \* the payload has no limit of its own
  SafetyTokens,  \* MODEL_CONTEXT_SAFETY_TOKENS
  ReportedTokens,\* token counts a runner puts into the usage of its report
  MaxAttempts    \* bound: runners the job is given to

VARIABLES
  capability,  \* limits of the job's models, frozen at creation
  row,         \* state, present attempt and token counters of the job; history:
               \* the counters that the usage of the report named
  call         \* what the gateway knows of each call

xvars == <<capability, row, call>>

Counters == {"input", "output"}

Row == [state : {"running", "cancel_requested", "ended"}, attempt : Nat,
        input : Nat, output : Nat, reported : SUBSET Counters]

Stages == {"new", "sent", "streaming", "answered", "done", "refused"}

NewCall == [stage |-> "new", attempt |-> 0, model |-> NoAsk, stream |-> FALSE,
            size |-> 0, limit |-> 0, output |-> 0,
            answered |-> FALSE, delivered |-> FALSE]

ProxyInit ==
  /\ row = [state |-> "running", attempt |-> 1, input |-> 0, output |-> 0, reported |-> {}]
  /\ call = [c \in Calls |-> NewCall]

Active == row.state # "ended"

\* The runner of an attempt can act on the row as long as its token is accepted.
Holds(c) == Active /\ call[c].attempt = row.attempt

Smaller(m, n) == IF m < n THEN m ELSE n

Capacity(m, size) == capability[m].context - size - SafetyTokens

\* Mutant: the room left by the prompt is not considered.
OutputLimitOfModel(m, size, asked) ==
  IF asked = NoAsk THEN capability[m].output ELSE Smaller(asked, capability[m].output)

\* max_tokens of the forwarded request.
OutputLimit(m, size, asked) ==
  LET limit == Smaller(Capacity(m, size), capability[m].output)
  IN IF asked = NoAsk THEN limit ELSE Smaller(asked, limit)

\* A model outside the frozen selection, a terminal job, or a revoked token.
Refuse(c) ==
  /\ call[c].stage = "new"
  /\ call' = [call EXCEPT ![c].stage = "refused"]
  /\ UNCHANGED <<capability, row>>

\* Admitted under the lock and sent to Open WebUI.
Admit(c, m, size, asked, stream) ==
  /\ call[c].stage = "new" /\ Active
  /\ m \in DOMAIN capability /\ Capacity(m, size) > 0
  /\ call' = [call EXCEPT ![c] =
                [NewCall EXCEPT !.stage = "sent", !.attempt = row.attempt, !.model = m,
                   !.stream = stream, !.size = size, !.limit = OutputLimit(m, size, asked)]]
  /\ UNCHANGED <<capability, row>>

\* The prompt leaves no room: the job fails.  mark_failed refuses a job that is
\* being cancelled, and the call fails without changing it.
Exhaust(c, m, size) ==
  /\ call[c].stage = "new" /\ Active
  /\ m \in DOMAIN capability /\ Capacity(m, size) <= 0
  /\ call' = [call EXCEPT ![c].stage = "refused"]
  /\ row' = IF row.state = "running" THEN [row EXCEPT !.state = "ended"] ELSE row
  /\ UNCHANGED capability

\* 502, and nothing is counted.
UpstreamFails(c) ==
  /\ call[c].stage = "sent"
  /\ call' = [call EXCEPT ![c].stage = "done"]
  /\ UNCHANGED <<capability, row>>

\* The answer, or the first chunk of a stream, which the runner gets at once;
\* the provider keeps to max_tokens.
Answer(c, output) ==
  /\ call[c].stage = "sent" /\ output <= call[c].limit
  /\ call' = [call EXCEPT ![c] =
                [@ EXCEPT !.stage = IF call[c].stream THEN "streaming" ELSE "answered",
                   !.output = output, !.answered = TRUE, !.delivered = call[c].stream]]
  /\ UNCHANGED <<capability, row>>

\* consume_usage: provider usage, or an estimate of what is missing.
Counted(c) ==
  row' = [row EXCEPT !.input = @ + call[c].size, !.output = @ + call[c].output]

\* Mutant: an error of the accounting is logged, as it is for streams.
CountLoosely(c) ==
  /\ call[c].stage = "answered"
  /\ call' = [call EXCEPT ![c] =
                [@ EXCEPT !.stage = "done", !.delivered = TRUE]]
  /\ IF Holds(c) THEN Counted(c) ELSE UNCHANGED row
  /\ UNCHANGED capability

\* A plain answer is counted before it is returned; when the token is not
\* accepted any more the runner gets an error instead.
Count(c) ==
  /\ call[c].stage = "answered"
  /\ call' = [call EXCEPT ![c] =
                [@ EXCEPT !.stage = "done", !.delivered = Holds(c)]]
  /\ IF Holds(c) THEN Counted(c) ELSE UNCHANGED row
  /\ UNCHANGED capability

\* The end of a stream: counted if the token is accepted, otherwise logged.
EndStream(c) ==
  /\ call[c].stage = "streaming"
  /\ call' = [call EXCEPT ![c].stage = "done"]
  /\ IF Holds(c) THEN Counted(c) ELSE UNCHANGED row
  /\ UNCHANGED capability

\* The runner goes away in the middle of a stream: closing the response may be
\* interrupted by the cancellation, and then nothing is counted.
BreakStream(c) ==
  /\ call[c].stage = "streaming"
  /\ call' = [call EXCEPT ![c].stage = "done"]
  /\ UNCHANGED <<capability, row>>

\* request_cancel
CancelRequested ==
  /\ row.state = "running"
  /\ row' = [row EXCEPT !.state = "cancel_requested"]
  /\ UNCHANGED <<capability, call>>

\* mark_completed: the usage of the report, any JSON object, is merged over the
\* counters, so that one which it names gets the runner's number.
Complete(usage) ==
  /\ row.state = "running"
  /\ row' = [row EXCEPT !.state = "ended", !.reported = DOMAIN usage,
               !.input  = IF "input" \in DOMAIN usage THEN usage["input"] ELSE @,
               !.output = IF "output" \in DOMAIN usage THEN usage["output"] ELSE @]
  /\ UNCHANGED <<capability, call>>

\* Failure or cancellation: the counters stay.
End ==
  /\ Active
  /\ row' = [row EXCEPT !.state = "ended"]
  /\ UNCHANGED <<capability, call>>

\* The job is taken from a silent runner and claimed for the next one.
Requeue ==
  /\ row.state = "running" /\ row.attempt < MaxAttempts
  /\ row' = [row EXCEPT !.attempt = @ + 1]
  /\ UNCHANGED <<capability, call>>

ProxyNext ==
  \/ CancelRequested \/ End \/ Requeue
  \/ \E named \in SUBSET Counters : \E usage \in [named -> ReportedTokens] : Complete(usage)
  \/ \E c \in Calls :
       \/ Refuse(c) \/ UpstreamFails(c) \/ Count(c) \/ EndStream(c) \/ BreakStream(c)
       \/ \E m \in Models, size \in InputSizes :
            \/ Exhaust(c, m, size)
            \/ \E asked \in OutputAsks \union {NoAsk}, stream \in BOOLEAN :
                 Admit(c, m, size, asked, stream)
       \/ \E output \in {0, call[c].limit} : Answer(c, output)

------------------------------------------------------------------------------
(* Properties. *)

\* Type invariant of the proxy.
ProxyTypeOK ==
  /\ row \in Row
  /\ call \in [Calls -> [stage : Stages, attempt : Nat, model : Models \union {NoAsk},
                         stream : BOOLEAN, size : Nat, limit : Nat, output : Nat,
                         answered : BOOLEAN, delivered : BOOLEAN]]

Sent == {c \in Calls : call[c].stage \notin {"new", "refused"}}

\* docs/installation.md:401: whatever limits the job was created with, a prompt
\* and the output granted to it fit the model's context with the safety margin,
\* and the output fits the model.
OutputFits ==
  \A c \in Sent :
    LET limits == capability[call[c].model]
    IN /\ call[c].size + call[c].limit + SafetyTokens <= limits.context
       /\ call[c].limit <= limits.output

\* Tokens are counted once for each call, over all runners of the job: every
\* plain answer that a runner received is in the counters, and no call is in
\* them that the provider did not answer.  That is all the gateway can promise
\* until a report names a counter: then it has the runner's number.
UsageBounds ==
  LET Input(S) == SumFunctionOnSet([c \in Calls |-> call[c].size], S)
      Output(S) == SumFunctionOnSet([c \in Calls |-> call[c].output], S)
      plain == {c \in Calls : call[c].delivered /\ ~call[c].stream}
      answered == {c \in Calls : call[c].answered}
  IN /\ "input" \notin row.reported => row.input \in Input(plain) .. Input(answered)
     /\ "output" \notin row.reported => row.output \in Output(plain) .. Output(answered)

\* The counters of a job that ended stay as they are: a late answer or the end
\* of a stream does not reach them.
UsageOfEndedIsFinal ==
  [][row.state = "ended" => row' = row]_xvars
===============================================================================
