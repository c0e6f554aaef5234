----------------------------- MODULE EventStream -----------------------------
(***************************************************************************)
(* The events of one job and the readers that follow them:                 *)
(* _append_event_locked and list_events (repository.py), stream_events     *)
(* (api.py) and the retention of events and jobs (cleanup.py).             *)
(*                                                                         *)
(* A writer's transaction locks the job, reads the highest sequence number *)
(* and commits its event, together with the job's end when it is the last. *)
(* A stream reads in three statements, each of which sees what is          *)
(* committed by then.  A client that lost its stream comes back with the   *)
(* number of the last event it received.                                   *)
(***************************************************************************)
EXTENDS Naturals

CONSTANTS
  Writers,   \* transactions that may be open at the same time
  Readers,   \* clients
  MaxEvents  \* bound: events before the one that ends the job

ASSUME StreamAssumption == MaxEvents \in Nat

VARIABLES
  state,   \* the job's state, or "deleted"
  events,  \* sequence numbers of the rows of research_events
  txn,     \* each writer's open transaction
  stream,  \* what each stream_events generator and its client know
  issued,  \* history: the highest number ever committed
  purged   \* history: the highest number retention has deleted

vars == <<state, events, txn, stream, issued, purged>>

EndStates == {"succeeded", "failed", "cancelled"}

Ended == state \in EndStates

\* What a transaction will do to the job: leave it active or end it.
Outcomes == {"active"} \union EndStates

\* A transaction that hit uq_event_job_sequence has "collided".
Phases == {"idle", "open", "collided"}

Txn == [phase : Phases, next : Nat, outcome : Outcomes]

Idle == [phase |-> "idle", next |-> 0, outcome |-> "active"]

\* A stream is about to execute a statement, sending a batch, or over.
Stages == {"off", "state", "exists", "events", "send", "closed", "error"}

Stream == [stage : Stages,
           last  : BOOLEAN,         \* the state it read ends the stream
           batch : SUBSET Nat,      \* events read and not sent
           after : Nat,             \* the last number sent
           got   : SUBSET Nat]      \* what the client received, in any connection

NoStream == [stage |-> "off", last |-> FALSE, batch |-> {}, after |-> 0, got |-> {}]

\* create_job commits job.created with the job.
Init ==
  /\ state = "active"
  /\ events = {1}
  /\ txn = [w \in Writers |-> Idle]
  /\ stream = [r \in Readers |-> NoStream]
  /\ issued = 1
  /\ purged = 0

------------------------------------------------------------------------------
(* Writers. *)

\* SELECT max(sequence), or 0.
LastSequence ==
  IF events = {} THEN 0 ELSE CHOOSE m \in events : \A n \in events : n <= m

\* SELECT ... FOR UPDATE of the job returns.
LockFree == \A w \in Writers : txn[w].phase # "open"

\* The transaction has locked the job, found it active and read the number.
BeginAppend(w, outcome) ==
  /\ txn[w].phase = "idle"
  /\ state = "active"
  /\ LockFree
  /\ outcome = "active" => issued < MaxEvents
  /\ txn' = [txn EXCEPT ![w] = [phase |-> "open", next |-> LastSequence + 1,
                                outcome |-> outcome]]
  /\ UNCHANGED <<state, events, stream, issued, purged>>

\* The event and the job's columns become visible together.
CommitAppend(w) ==
  /\ txn[w].phase = "open"
  /\ \/ /\ txn[w].next \in events
        /\ txn' = [txn EXCEPT ![w].phase = "collided"]
        /\ UNCHANGED <<state, events, issued>>
     \/ /\ txn[w].next \notin events
        /\ events' = events \union {txn[w].next}
        /\ issued' = IF txn[w].next > issued THEN txn[w].next ELSE issued
        /\ state' = txn[w].outcome
        /\ txn' = [txn EXCEPT ![w] = Idle]
  /\ UNCHANGED <<stream, purged>>

\* The gateway dies, or a later statement of the transaction fails.
Rollback(w) ==
  /\ txn[w].phase = "open"
  /\ txn' = [txn EXCEPT ![w] = Idle]
  /\ UNCHANGED <<state, events, stream, issued, purged>>

------------------------------------------------------------------------------
(* Retention. *)

\* Mutant: the events of active jobs expire too.
ExpireEventsOfAnyJob ==
  /\ state # "deleted"
  /\ \E oldest \in events :
       /\ events' = {e \in events : e > oldest}
       /\ purged' = oldest
  /\ UNCHANGED <<state, txn, stream, issued>>

\* delete_expired_events: old events of an ended job, oldest first, as many as
\* the batch takes.
ExpireEvents ==
  /\ Ended
  /\ \E oldest \in events :
       /\ events' = {e \in events : e > oldest}
       /\ purged' = oldest
  /\ UNCHANGED <<state, txn, stream, issued>>

\* delete_expired_jobs; its events go with it.
DeleteJob ==
  /\ Ended
  /\ state' = "deleted"
  /\ events' = {}
  /\ purged' = issued
  /\ UNCHANGED <<txn, stream, issued>>

------------------------------------------------------------------------------
(* Readers. *)

Connected(r) == stream[r].stage \in {"state", "exists", "events", "send"}

Go(r, stage) == stream' = [stream EXCEPT ![r].stage = stage]

\* The first request and each one after a loss: after is what the client has.
Connect(r) ==
  /\ stream[r].stage = "off"
  /\ Go(r, "state")
  /\ UNCHANGED <<state, events, txn, issued, purged>>

\* Mutant: a cancelled job does not end its streams.
ClosesUnlessCancelled(s) == s \in EndStates \ {"cancelled"}

\* The states stream_events lists: in them the batch is the last one.
Closes(s) == s \in EndStates

\* get_for_user in the generator.
ReadState(r) ==
  /\ stream[r].stage = "state"
  /\ IF state = "deleted"
     THEN Go(r, "error")
     ELSE stream' = [stream EXCEPT ![r].stage = "exists", ![r].last = Closes(state)]
  /\ UNCHANGED <<state, events, txn, issued, purged>>

\* get_for_user in list_events; the session keeps the state it loaded first.
CheckExists(r) ==
  /\ stream[r].stage = "exists"
  /\ Go(r, IF state = "deleted" THEN "error" ELSE "events")
  /\ UNCHANGED <<state, events, txn, issued, purged>>

ReadEvents(r) ==
  /\ stream[r].stage = "events"
  /\ stream' = [stream EXCEPT ![r].stage = "send",
                              ![r].batch = {e \in events : e > stream[r].after}]
  /\ UNCHANGED <<state, events, txn, issued, purged>>

\* Mutant: the batch is not ordered.
NextToSendAny(batch) == batch

\* ORDER BY sequence.
NextToSend(batch) == {e \in batch : \A f \in batch : e <= f}

\* One event of the batch goes out and arrives.
SendEvent(r) ==
  /\ stream[r].stage = "send"
  /\ \E e \in NextToSend(stream[r].batch) :
       stream' = [stream EXCEPT ![r].batch = @ \ {e}, ![r].after = e,
                                ![r].got = @ \union {e}]
  /\ UNCHANGED <<state, events, txn, issued, purged>>

\* Mutant: the state is looked at once more after the events.
IsLastBatchNow(r) == state \in EndStates

IsLastBatch(r) == stream[r].last

\* After the batch: return, or keepalive and sleep.
FinishBatch(r) ==
  /\ stream[r].stage = "send"
  /\ stream[r].batch = {}
  /\ Go(r, IF IsLastBatch(r) THEN "closed" ELSE "state")
  /\ UNCHANGED <<state, events, txn, issued, purged>>

\* The connection breaks; what was not received is not sent.
Disconnect(r) ==
  /\ Connected(r)
  /\ stream' = [stream EXCEPT ![r].stage = "off", ![r].batch = {}, ![r].last = FALSE]
  /\ UNCHANGED <<state, events, txn, issued, purged>>

------------------------------------------------------------------------------
Generate(r) ==
  ReadState(r) \/ CheckExists(r) \/ ReadEvents(r) \/ SendEvent(r) \/ FinishBatch(r)

Next ==
  \/ \E w \in Writers : \/ \E outcome \in Outcomes : BeginAppend(w, outcome)
                        \/ CommitAppend(w)
                        \/ Rollback(w)
  \/ ExpireEvents
  \/ DeleteJob
  \/ \E r \in Readers : Connect(r) \/ Generate(r) \/ Disconnect(r)

Spec == Init /\ [][Next]_vars

\* The gateway's event loop goes on with a stream while it is connected.
FairSpec == Spec /\ \A r \in Readers : WF_vars(Generate(r))
------------------------------------------------------------------------------
(* Properties. *)

\* Every variable has its type; retention and readers know only numbers that
\* were issued.
TypeOK ==
  /\ state \in Outcomes \union {"deleted"}
  /\ events \in SUBSET Nat
  /\ txn \in [Writers -> Txn]
  /\ stream \in [Readers -> Stream]
  /\ issued \in Nat
  /\ purged \in 0..issued
  /\ \A r \in Readers : stream[r].after \in 0..issued

\* The lock is enough: no two transactions, of however many callers, ever come
\* to the same number, so uq_event_job_sequence refuses nobody (which would
\* lose a transition of the job).
NoCollision == \A w \in Writers : txn[w].phase # "collided"

\* A number is never given out twice, although it is computed from the rows
\* that retention deletes: a client's after keeps its meaning.
NumbersNeverReused == [][\A e \in events' \ events : e > issued]_vars

\* A client misses nothing: up to the last event it received, across all its
\* connections, it has every event but those that retention deleted.
NothingSkipped ==
  \A r \in Readers : \A e \in 1..stream[r].after :
    e \in stream[r].got \/ e <= purged

\* A stream that ends normally ends after the job's last event: whoever was
\* told the end of the stream also has the event that says how the job ended,
\* unless retention deleted it.
CloseIsComplete ==
  \A r \in Readers : stream[r].stage = "closed" =>
    /\ state \in EndStates \union {"deleted"}
    /\ \A e \in 1..issued : e \in stream[r].got \/ e <= purged

\* Once the job has ended every stream is closed, or loses its connection.
StreamsEnd ==
  \A r \in Readers : Ended ~> ~Connected(r)
==============================================================================
