------------------------- MODULE EventStreamProofs --------------------------
(***************************************************************************)
(* Proofs about the event log and its readers, for any number of writers,  *)
(* readers and events.  LogInv says that the rows are exactly the numbers  *)
(* issued and not purged, that at most one transaction is open and that it *)
(* holds the next number; StreamOK says what a generator may still miss in *)
(* each of its stages.                                                     *)
(***************************************************************************)
EXTENDS EventStream, TLAPS

\* The log: purging starts only when the job has ended.
LogInv ==
  /\ issued >= 1
  /\ state = "active" => purged = 0
  /\ state = "deleted" => purged = issued
  /\ events = IF state = "deleted" THEN {} ELSE (purged + 1)..issued
  /\ \A w \in Writers : txn[w].phase = "open" =>
       /\ state = "active"
       /\ txn[w].next = issued + 1
       /\ \A v \in Writers : txn[v].phase = "open" => v = w
  /\ NoCollision

\* One stream s, for a job in state st with n events issued and p purged: it has
\* what it has passed, its batch has no holes, and a last batch is complete.
StreamOK(s, st, n, p) ==
  /\ s.after <= n
  /\ s.last => st # "active"
  /\ \A e \in 1..s.after : e \in s.got \/ e <= p
  /\ \A b \in s.batch : b \in 1..n /\ b > s.after
  /\ \A b \in s.batch, e \in 1..n : e > s.after /\ e < b => e \in s.batch \/ e <= p
  /\ s.stage = "send" /\ s.last
       => \A e \in 1..n : e > s.after => e \in s.batch \/ e <= p
  /\ s.stage = "closed" => s.last /\ \A e \in 1..n : e \in s.got \/ e <= p

StreamsInv == \A r \in Readers : StreamOK(stream[r], state, issued, purged)

IInv == TypeOK /\ LogInv /\ StreamsInv

------------------------------------------------------------------------------
(* The log moves on under a stream. *)

\* The job ends or goes on: nothing a stream of an active job knows is final.
LEMMA KeptWhileActive ==
  ASSUME NEW s \in Stream, NEW n \in Nat, NEW m \in Nat, n <= m, NEW st,
         StreamOK(s, "active", n, 0)
  PROVE  StreamOK(s, st, m, 0)
<1>1. ~s.last
  BY DEF StreamOK
<1>2. s.after <= m
  BY DEF StreamOK, Stream
<1>3. \A b \in s.batch : b \in 1..m /\ b > s.after
  BY DEF StreamOK, Stream
<1>4. \A b \in s.batch, e \in 1..m : e > s.after /\ e < b => e \in s.batch \/ e <= 0
  <2> SUFFICES ASSUME NEW b \in s.batch, NEW e \in 1..m, e > s.after, e < b
               PROVE  e \in s.batch \/ e <= 0
    OBVIOUS
  <2>1. b \in 1..n
    BY DEF StreamOK
  <2>2. e \in 1..n
    BY <2>1
  <2> QED
    BY <2>2 DEF StreamOK
<1> QED
  BY <1>1, <1>2, <1>3, <1>4 DEF StreamOK

\* Purging only excuses more.
LEMMA KeptWhilePurging ==
  ASSUME NEW s \in Stream, NEW n \in Nat, NEW p \in Nat, NEW q \in Nat, p <= q,
         NEW st, NEW su, su # "active", StreamOK(s, st, n, p)
  PROVE  StreamOK(s, su, n, q)
<1>1. \A e \in Nat : e <= p => e <= q
  OBVIOUS
<1>2. s.after \in Nat
  BY DEF Stream
<1>3. \A e \in 1..s.after : e \in s.got \/ e <= q
  BY <1>1, <1>2 DEF StreamOK
<1>4. \A b \in s.batch, e \in 1..n : e > s.after /\ e < b => e \in s.batch \/ e <= q
  BY <1>1 DEF StreamOK
<1>5. s.stage = "send" /\ s.last
        => \A e \in 1..n : e > s.after => e \in s.batch \/ e <= q
  BY <1>1 DEF StreamOK
<1>6. s.stage = "closed" => s.last /\ \A e \in 1..n : e \in s.got \/ e <= q
  BY <1>1 DEF StreamOK
<1> QED
  BY <1>3, <1>4, <1>5, <1>6 DEF StreamOK

\* max(sequence) of an active job is the last number issued.
LEMMA LastOfActive ==
  ASSUME TypeOK, LogInv, state = "active"
  PROVE  LastSequence = issued
<1>1. events = 1..issued /\ issued \in events /\ issued \in Nat
  BY DEF TypeOK, LogInv
<1>2. \A m \in events : (\A n \in events : n <= m) => m = issued
  BY <1>1
<1>3. \A n \in events : n <= issued
  BY <1>1
<1> QED
  BY <1>1, <1>2, <1>3 DEF LastSequence

------------------------------------------------------------------------------
(* The steps of writers and of retention. *)

LEMMA BeginAppendInv ==
  ASSUME IInv, NEW w \in Writers, NEW outcome \in Outcomes, BeginAppend(w, outcome)
  PROVE  IInv'
<1> DEFINE t == [phase |-> "open", next |-> issued + 1, outcome |-> outcome]
<1>1. txn' = [txn EXCEPT ![w] = t] /\ issued \in Nat
  BY LastOfActive DEF BeginAppend, IInv, TypeOK
<1>2. t \in Txn
  BY <1>1 DEF Txn, Phases
<1>3. TypeOK'
  BY <1>1, <1>2 DEF IInv, TypeOK, BeginAppend
<1>4. \A v \in Writers : txn'[v] = IF v = w THEN t ELSE txn[v]
  BY <1>1 DEF IInv, TypeOK
<1>5. LogInv'
  BY <1>4 DEF IInv, LogInv, NoCollision, LockFree, BeginAppend
<1>6. StreamsInv'
  BY DEF IInv, StreamsInv, BeginAppend
<1> QED
  BY <1>3, <1>5, <1>6 DEF IInv

LEMMA CommitAppendInv ==
  ASSUME IInv, NEW w \in Writers, CommitAppend(w)
  PROVE  IInv' /\ (\A e \in events' \ events : e > issued)
<1>1. /\ txn[w].phase = "open" /\ txn[w] \in Txn /\ txn[w].outcome \in Outcomes
      /\ state = "active" /\ purged = 0
      /\ txn[w].next = issued + 1 /\ issued \in Nat /\ events = 1..issued
      /\ \A v \in Writers : txn[v].phase = "open" => v = w
  BY DEF CommitAppend, IInv, TypeOK, LogInv, Txn
<1>2. txn[w].next \notin events /\ txn[w].next > issued
  BY <1>1
<1>3. /\ events' = events \union {issued + 1}
      /\ issued' = issued + 1
      /\ state' = txn[w].outcome
      /\ txn' = [txn EXCEPT ![w] = Idle]
      /\ stream' = stream
      /\ purged' = 0
  BY <1>1, <1>2 DEF CommitAppend
<1>4. events' = 1..issued'
  BY <1>1, <1>3
<1>5. Idle \in Txn
  BY DEF Idle, Txn, Phases, Outcomes
<1>6. TypeOK'
  <2>1. \A r \in Readers : stream[r] \in Stream /\ stream[r].after \in 0..issued
    BY DEF IInv, TypeOK
  <2>2. \A r \in Readers : stream'[r].after \in 0..issued'
    BY <1>1, <1>3, <2>1
  <2>3. events' \in SUBSET Nat /\ issued' \in Nat /\ purged' \in 0..issued'
    BY <1>1, <1>3, <1>4
  <2> QED
    BY <1>1, <1>3, <1>5, <2>2, <2>3 DEF IInv, TypeOK, Outcomes
<1>7. LogInv'
  <2>1. \A v \in Writers : txn'[v] = IF v = w THEN Idle ELSE txn[v]
    BY <1>3 DEF IInv, TypeOK
  <2>2. \A v \in Writers : txn'[v].phase = "idle" \/ txn'[v].phase = "collided"
    BY <1>1, <2>1 DEF IInv, TypeOK, Idle, Txn, Phases
  <2>3. NoCollision'
    BY <2>1 DEF IInv, LogInv, NoCollision, Idle
  <2>4. state' # "deleted" /\ issued' >= 1
    BY <1>1, <1>3 DEF Outcomes, EndStates
  <2> QED
    BY <1>1, <1>3, <1>4, <2>2, <2>3, <2>4 DEF LogInv
<1>8. StreamsInv'
  <2> SUFFICES ASSUME NEW r \in Readers
               PROVE  StreamOK(stream[r], state', issued + 1, 0)
    BY <1>3 DEF StreamsInv
  <2>1. stream[r] \in Stream /\ StreamOK(stream[r], "active", issued, 0)
    BY <1>1 DEF IInv, TypeOK, StreamsInv
  <2> QED
    BY <1>1, <2>1, KeptWhileActive
<1>9. \A e \in events' \ events : e > issued
  BY <1>1, <1>3
<1> QED
  BY <1>6, <1>7, <1>8, <1>9 DEF IInv

LEMMA RollbackInv ==
  ASSUME IInv, NEW w \in Writers, Rollback(w)
  PROVE  IInv'
<1>1. Idle \in Txn
  BY DEF Idle, Txn, Phases, Outcomes
<1>2. TypeOK'
  BY <1>1 DEF IInv, TypeOK, Rollback
<1>3. \A v \in Writers : txn'[v] = IF v = w THEN Idle ELSE txn[v]
  BY DEF IInv, TypeOK, Rollback
<1>4. LogInv'
  BY <1>3 DEF IInv, LogInv, NoCollision, Rollback, Idle
<1>5. StreamsInv'
  BY DEF IInv, StreamsInv, Rollback
<1> QED
  BY <1>2, <1>4, <1>5 DEF IInv

LEMMA ExpireEventsInv ==
  ASSUME IInv, ExpireEvents
  PROVE  IInv' /\ (\A e \in events' \ events : e > issued)
<1>1. PICK oldest \in events : /\ events' = {e \in events : e > oldest}
                               /\ purged' = oldest
  BY DEF ExpireEvents
<1>2. /\ events = (purged + 1)..issued /\ purged \in Nat /\ issued \in Nat
      /\ state # "active" /\ state # "deleted"
  BY DEF ExpireEvents, Ended, EndStates, IInv, TypeOK, LogInv
<1>3. oldest \in Nat /\ purged <= oldest /\ oldest <= issued
  BY <1>2
<1>4. events' = (oldest + 1)..issued
  BY <1>1, <1>2, <1>3
<1>5. TypeOK'
  BY <1>1, <1>2, <1>3, <1>4 DEF IInv, TypeOK, ExpireEvents
<1>6. LogInv'
  BY <1>1, <1>2, <1>4 DEF IInv, LogInv, NoCollision, ExpireEvents
<1>7. StreamsInv'
  <2> SUFFICES ASSUME NEW r \in Readers
               PROVE  StreamOK(stream[r], state, issued, oldest)
    BY <1>1 DEF StreamsInv, ExpireEvents
  <2>1. stream[r] \in Stream /\ StreamOK(stream[r], state, issued, purged)
    BY DEF IInv, TypeOK, StreamsInv
  <2> QED
    BY <1>2, <1>3, <2>1, KeptWhilePurging
<1> QED
  BY <1>1, <1>5, <1>6, <1>7 DEF IInv

LEMMA DeleteJobInv ==
  ASSUME IInv, DeleteJob
  PROVE  IInv' /\ (\A e \in events' \ events : e > issued)
<1>1. purged \in Nat /\ issued \in Nat /\ purged <= issued
  BY DEF IInv, TypeOK
<1>2. TypeOK'
  BY <1>1 DEF IInv, TypeOK, DeleteJob
<1>3. state # "active"
  BY DEF DeleteJob, Ended, EndStates
<1>4. LogInv'
  BY <1>3 DEF IInv, LogInv, NoCollision, DeleteJob
<1>5. StreamsInv'
  <2> SUFFICES ASSUME NEW r \in Readers
               PROVE  StreamOK(stream[r], "deleted", issued, issued)
    BY DEF StreamsInv, DeleteJob
  <2>1. stream[r] \in Stream /\ StreamOK(stream[r], state, issued, purged)
    BY DEF IInv, TypeOK, StreamsInv
  <2> QED
    BY <1>1, <2>1, KeptWhilePurging
<1> QED
  BY <1>2, <1>4, <1>5 DEF IInv, DeleteJob

------------------------------------------------------------------------------
(* The steps of readers. *)

\* A reader's step is fine if it leaves its own stream fine.
LEMMA StreamStepInv ==
  ASSUME IInv, NEW r \in Readers, NEW s \in Stream,
         stream' = [stream EXCEPT ![r] = s],
         StreamOK(s, state, issued, purged),
         UNCHANGED <<state, events, txn, issued, purged>>
  PROVE  IInv'
<1>1. \A q \in Readers : stream'[q] = IF q = r THEN s ELSE stream[q]
  BY DEF IInv, TypeOK
<1>2. s.after \in 0..issued
  BY DEF Stream, StreamOK, IInv, TypeOK
<1>3. TypeOK'
  BY <1>1, <1>2 DEF IInv, TypeOK
<1>4. LogInv'
  BY DEF IInv, LogInv, NoCollision
<1>5. StreamsInv'
  BY <1>1 DEF IInv, StreamsInv
<1> QED
  BY <1>3, <1>4, <1>5 DEF IInv

\* Stages in which a stream holds no claim about its batch.
LEMMA StageChangeOK ==
  ASSUME NEW s \in Stream, NEW stage \in Stages \ {"send", "closed"},
         NEW st, NEW n \in Nat, NEW p \in Nat, StreamOK(s, st, n, p)
  PROVE  /\ [s EXCEPT !.stage = stage] \in Stream
         /\ StreamOK([s EXCEPT !.stage = stage], st, n, p)
<1> DEFINE q == [s EXCEPT !.stage = stage]
<1>1. /\ q \in Stream /\ q.stage = stage /\ q.last = s.last
      /\ q.batch = s.batch /\ q.after = s.after /\ q.got = s.got
  BY DEF Stream
<1> HIDE DEF q
<1>2. StreamOK(q, st, n, p)
  BY <1>1 DEF StreamOK
<1> QED
  BY <1>1, <1>2 DEF q

LEMMA GoInv ==
  ASSUME IInv, NEW r \in Readers, NEW stage \in Stages \ {"send", "closed"},
         Go(r, stage), UNCHANGED <<state, events, txn, issued, purged>>
  PROVE  IInv'
<1>1. /\ stream[r] \in Stream /\ issued \in Nat /\ purged \in Nat
      /\ StreamOK(stream[r], state, issued, purged)
  BY DEF IInv, TypeOK, StreamsInv
<1>2. stream' = [stream EXCEPT ![r] = [stream[r] EXCEPT !.stage = stage]]
  BY DEF Go
<1> QED
  BY <1>1, <1>2, StageChangeOK, StreamStepInv

LEMMA ReadStateInv ==
  ASSUME IInv, NEW r \in Readers, ReadState(r)
  PROVE  IInv'
<1>1. CASE state = "deleted"
  BY <1>1, GoInv DEF ReadState, Stages
<1>2. CASE state # "deleted"
  <2> DEFINE s == [stream[r] EXCEPT !.stage = "exists", !.last = Closes(state)]
  <2>1. stream' = [stream EXCEPT ![r] = s]
    BY <1>2 DEF ReadState
  <2>2. /\ stream[r] \in Stream /\ Closes(state) \in BOOLEAN
        /\ StreamOK(stream[r], state, issued, purged)
    BY DEF IInv, TypeOK, StreamsInv, Closes
  <2>3. /\ s \in Stream /\ s.stage = "exists" /\ s.last = Closes(state)
        /\ s.batch = stream[r].batch /\ s.after = stream[r].after
        /\ s.got = stream[r].got
    BY <2>2 DEF Stream, Stages
  <2> HIDE DEF s
  <2>4. Closes(state) => state # "active"
    BY DEF Closes, EndStates
  <2>5. StreamOK(s, state, issued, purged)
    BY <2>2, <2>3, <2>4 DEF StreamOK
  <2> QED
    BY <2>1, <2>3, <2>5, StreamStepInv DEF ReadState
<1> QED
  BY <1>1, <1>2

LEMMA ReadEventsInv ==
  ASSUME IInv, NEW r \in Readers, ReadEvents(r)
  PROVE  IInv'
<1> DEFINE s == [stream[r] EXCEPT !.stage = "send",
                   !.batch = {e \in events : e > stream[r].after}]
<1>1. stream' = [stream EXCEPT ![r] = s]
  BY DEF ReadEvents
<1>2. /\ stream[r] \in Stream /\ events \in SUBSET Nat
      /\ StreamOK(stream[r], state, issued, purged)
  BY DEF IInv, TypeOK, StreamsInv
<1>3. /\ s \in Stream /\ s.stage = "send" /\ s.last = stream[r].last
      /\ s.batch = {e \in events : e > stream[r].after}
      /\ s.after = stream[r].after /\ s.got = stream[r].got
  BY <1>2 DEF Stream, Stages
<1> HIDE DEF s
<1>4. /\ issued \in Nat /\ purged \in Nat /\ purged <= issued
      /\ events \subseteq 1..issued
      /\ \A e \in 1..issued : e \in events \/ e <= purged
  <2>1. CASE state = "deleted"
    BY <2>1 DEF IInv, TypeOK, LogInv
  <2>2. CASE state # "deleted"
    BY <2>2 DEF IInv, TypeOK, LogInv
  <2> QED
    BY <2>1, <2>2
<1>5. StreamOK(s, state, issued, purged)
  BY <1>2, <1>3, <1>4 DEF StreamOK
<1> QED
  BY <1>1, <1>3, <1>5, StreamStepInv DEF ReadEvents

LEMMA SendEventInv ==
  ASSUME IInv, NEW r \in Readers, SendEvent(r)
  PROVE  IInv'
<1>1. PICK e \in NextToSend(stream[r].batch) :
        stream' = [stream EXCEPT ![r].batch = @ \ {e}, ![r].after = e,
                                 ![r].got = @ \union {e}]
  BY DEF SendEvent
<1> DEFINE o == stream[r]
           s == [o EXCEPT !.batch = @ \ {e}, !.after = e, !.got = @ \union {e}]
<1>2. stream' = [stream EXCEPT ![r] = s]
  BY <1>1
<1>3. /\ o \in Stream /\ issued \in Nat /\ purged \in Nat
      /\ StreamOK(o, state, issued, purged)
  BY DEF IInv, TypeOK, StreamsInv
<1>4. e \in o.batch /\ (\A f \in o.batch : e <= f) /\ e \in Nat
  BY <1>3 DEF NextToSend, Stream
<1>5. /\ s \in Stream /\ s.stage = "send" /\ s.last = o.last
      /\ s.batch = o.batch \ {e} /\ s.after = e /\ s.got = o.got \union {e}
  BY <1>3, <1>4 DEF SendEvent, Stream, Stages
<1> HIDE DEF s, o
<1>6. /\ e \in 1..issued /\ e > o.after /\ o.after \in Nat
      /\ \A f \in o.batch : f \in 1..issued /\ f >= e
  BY <1>3, <1>4 DEF StreamOK, Stream
<1>7. \A f \in 1..e : f \in s.got \/ f <= purged
  <2> SUFFICES ASSUME NEW f \in 1..e
               PROVE  f \in s.got \/ f <= purged
    OBVIOUS
  <2>1. CASE f <= o.after
    BY <1>3, <1>5, <1>6, <2>1 DEF StreamOK
  <2>2. CASE f > o.after /\ f < e
    <3>1. f \in o.batch \/ f <= purged
      BY <1>3, <1>4, <1>6, <2>2 DEF StreamOK
    <3> QED
      BY <1>6, <2>2, <3>1
  <2>3. CASE f = e
    BY <1>5, <2>3
  <2> QED
    BY <1>6, <2>1, <2>2, <2>3
<1>8. \A b \in s.batch : b \in 1..issued /\ b > s.after
  BY <1>5, <1>6
<1>9. \A b \in s.batch, f \in 1..issued :
        f > s.after /\ f < b => f \in s.batch \/ f <= purged
  <2> SUFFICES ASSUME NEW b \in s.batch, NEW f \in 1..issued, f > e, f < b
               PROVE  f \in o.batch \/ f <= purged
    BY <1>5
  <2> QED
    BY <1>3, <1>5, <1>6 DEF StreamOK
<1>10. s.last => \A f \in 1..issued : f > e => f \in s.batch \/ f <= purged
  BY <1>3, <1>5, <1>6 DEF StreamOK, SendEvent, o
<1>11. StreamOK(s, state, issued, purged)
  <2>1. s.last => state # "active"
    BY <1>3, <1>5 DEF StreamOK
  <2> QED
    BY <1>5, <1>6, <1>7, <1>8, <1>9, <1>10, <2>1 DEF StreamOK
<1> QED
  BY <1>2, <1>5, <1>11, StreamStepInv DEF SendEvent

LEMMA FinishBatchInv ==
  ASSUME IInv, NEW r \in Readers, FinishBatch(r)
  PROVE  IInv'
<1>1. CASE ~IsLastBatch(r)
  BY <1>1, GoInv DEF FinishBatch, Stages
<1>2. CASE IsLastBatch(r)
  <2> DEFINE o == stream[r]
             s == [o EXCEPT !.stage = "closed"]
  <2>1. stream' = [stream EXCEPT ![r] = s]
    BY <1>2 DEF FinishBatch, Go
  <2>2. /\ o \in Stream /\ issued \in Nat /\ purged \in Nat
        /\ o.stage = "send" /\ o.batch = {} /\ o.last
        /\ StreamOK(o, state, issued, purged)
    BY <1>2 DEF IInv, TypeOK, StreamsInv, FinishBatch, IsLastBatch
  <2>3. /\ s \in Stream /\ s.stage = "closed" /\ s.last = o.last
        /\ s.batch = {} /\ s.after = o.after /\ s.got = o.got
    BY <2>2 DEF Stream, Stages
  <2> HIDE DEF s, o
  <2>4. \A e \in 1..issued : e \in o.got \/ e <= purged
    <3> SUFFICES ASSUME NEW e \in 1..issued
                 PROVE  e \in o.got \/ e <= purged
      OBVIOUS
    <3>1. o.after \in Nat
      BY <2>2 DEF Stream
    <3>2. CASE e <= o.after
      BY <2>2, <3>1, <3>2 DEF StreamOK
    <3>3. CASE e > o.after
      BY <2>2, <3>3 DEF StreamOK
    <3> QED
      BY <3>1, <3>2, <3>3
  <2>5. StreamOK(s, state, issued, purged)
    BY <2>2, <2>3, <2>4 DEF StreamOK
  <2> QED
    BY <2>1, <2>3, <2>5, StreamStepInv DEF FinishBatch
<1> QED
  BY <1>1, <1>2

LEMMA DisconnectInv ==
  ASSUME IInv, NEW r \in Readers, Disconnect(r)
  PROVE  IInv'
<1> DEFINE o == stream[r]
           s == [o EXCEPT !.stage = "off", !.batch = {}, !.last = FALSE]
<1>1. stream' = [stream EXCEPT ![r] = s]
  BY DEF Disconnect
<1>2. o \in Stream /\ StreamOK(o, state, issued, purged)
  BY DEF IInv, TypeOK, StreamsInv
<1>3. /\ s \in Stream /\ s.stage = "off" /\ s.last = FALSE
      /\ s.batch = {} /\ s.after = o.after /\ s.got = o.got
  BY <1>2 DEF Stream, Stages
<1> HIDE DEF s, o
<1>4. StreamOK(s, state, issued, purged)
  BY <1>2, <1>3 DEF StreamOK
<1> QED
  BY <1>1, <1>3, <1>4, StreamStepInv DEF Disconnect

------------------------------------------------------------------------------
(* The theorems. *)

LEMMA InitInv == Init => IInv
<1> SUFFICES ASSUME Init
             PROVE  IInv
  OBVIOUS
<1>1. Idle \in Txn /\ Idle.phase = "idle" /\ NoStream \in Stream
  BY DEF Idle, Txn, Phases, Outcomes, NoStream, Stream, Stages
<1>2. StreamOK(NoStream, state, issued, purged)
  BY DEF Init, NoStream, StreamOK
<1>3. TypeOK
  BY <1>1 DEF Init, TypeOK, Outcomes, NoStream
<1>4. LogInv
  BY <1>1 DEF Init, LogInv, NoCollision
<1>5. StreamsInv
  BY <1>2 DEF Init, StreamsInv
<1> QED
  BY <1>3, <1>4, <1>5 DEF IInv

\* What every step does: it keeps the invariant and issues only new numbers.
LEMMA StepInv ==
  ASSUME IInv, [Next]_vars
  PROVE  IInv' /\ (\A e \in events' \ events : e > issued)
<1>1. CASE UNCHANGED vars
  BY <1>1 DEF vars, IInv, TypeOK, LogInv, NoCollision, StreamsInv
<1>2. ASSUME NEW w \in Writers, NEW outcome \in Outcomes, BeginAppend(w, outcome)
      PROVE  IInv' /\ events' = events
  BY <1>2, BeginAppendInv DEF BeginAppend
<1>3. ASSUME NEW w \in Writers, CommitAppend(w)
      PROVE  IInv' /\ (\A e \in events' \ events : e > issued)
  BY <1>3, CommitAppendInv
<1>4. ASSUME NEW w \in Writers, Rollback(w)
      PROVE  IInv' /\ events' = events
  BY <1>4, RollbackInv DEF Rollback
<1>5. CASE ExpireEvents
  BY <1>5, ExpireEventsInv
<1>6. CASE DeleteJob
  BY <1>6, DeleteJobInv
<1>7. ASSUME NEW r \in Readers, Connect(r)
      PROVE  IInv' /\ events' = events
  BY <1>7, GoInv DEF Connect, Stages
<1>8. ASSUME NEW r \in Readers, CheckExists(r)
      PROVE  IInv' /\ events' = events
  <2>1. CASE state = "deleted"
    BY <1>8, <2>1, GoInv DEF CheckExists, Stages
  <2>2. CASE state # "deleted"
    BY <1>8, <2>2, GoInv DEF CheckExists, Stages
  <2> QED
    BY <2>1, <2>2
<1>9. ASSUME NEW r \in Readers, ReadState(r) \/ ReadEvents(r) \/ SendEvent(r)
      PROVE  IInv' /\ events' = events
  BY <1>9, ReadStateInv, ReadEventsInv, SendEventInv
     DEF ReadState, ReadEvents, SendEvent
<1>10. ASSUME NEW r \in Readers, FinishBatch(r) \/ Disconnect(r)
       PROVE  IInv' /\ events' = events
  BY <1>10, FinishBatchInv, DisconnectInv DEF FinishBatch, Disconnect
<1> QED
  BY <1>1, <1>2, <1>3, <1>4, <1>5, <1>6, <1>7, <1>8, <1>9, <1>10 DEF Next, Generate

\* The inductive invariant of the event log and its readers.
THEOREM StreamInvariant == Spec => []IInv
<1>1. IInv /\ [Next]_vars => IInv'
  BY StepInv
<1> QED
  BY InitInv, <1>1, PTL DEF Spec

\* Every variable keeps its type.
THEOREM StreamTypeCorrect == Spec => []TypeOK
<1>1. IInv => TypeOK
  BY DEF IInv
<1> QED
  BY <1>1, StreamInvariant, PTL

\* No transaction of an append is refused by uq_event_job_sequence.
THEOREM NoAppendCollides == Spec => []NoCollision
<1>1. IInv => NoCollision
  BY DEF IInv, LogInv
<1> QED
  BY <1>1, StreamInvariant, PTL

\* Sequence numbers are issued once, although retention deletes rows.
THEOREM NumbersFresh == Spec => NumbersNeverReused
<1>1. IInv /\ [Next]_vars => [\A e \in events' \ events : e > issued]_vars
  BY StepInv
<1> QED
  BY <1>1, StreamInvariant, PTL DEF Spec, NumbersNeverReused

\* A client has every event up to its position, across reconnections.
THEOREM ReadersMissNothing == Spec => []NothingSkipped
<1>1. IInv => NothingSkipped
  BY DEF IInv, StreamsInv, StreamOK, NothingSkipped
<1> QED
  BY <1>1, StreamInvariant, PTL

\* A normal end of the stream comes after the job's last event.
THEOREM ClosedStreamsComplete == Spec => []CloseIsComplete
<1>1. IInv => CloseIsComplete
  <2> SUFFICES ASSUME IInv, NEW r \in Readers, stream[r].stage = "closed"
               PROVE  /\ state \in EndStates \union {"deleted"}
                      /\ \A e \in 1..issued : e \in stream[r].got \/ e <= purged
    BY DEF CloseIsComplete
  <2>1. StreamOK(stream[r], state, issued, purged)
    BY DEF IInv, StreamsInv
  <2>2. state # "active" /\ \A e \in 1..issued : e \in stream[r].got \/ e <= purged
    BY <2>1 DEF StreamOK
  <2> QED
    BY <2>2 DEF IInv, TypeOK, Outcomes
<1> QED
  BY <1>1, StreamInvariant, PTL
==============================================================================
