------------------------- MODULE JobRepositoryProofs -------------------------
(***************************************************************************)
(* Proofs about the job table, for any set of jobs, any configuration and  *)
(* any number of delayed callers.  The inductive invariant IInv says what  *)
(* a row looks like in each state (RowInv), that a listed runner was       *)
(* silent for RUNNER_STALE_SECONDS when it was listed (ListInv) and how    *)
(* the number of starts relates to the attempt counter (StartInv).         *)
(***************************************************************************)
EXTENDS JobRepository, FiniteSetTheorems, TLAPS

\* The columns each state leaves set; n is a time not before the last write.
RowInv(r, n) ==
  /\ r \in Row
  /\ r.updated <= n
  /\ r.state # "succeeded" => r.searches <= MaxQueries
  /\ r.finished # None <=> Terminal(r)
  /\ r.error <=> r.state = "failed"
  /\ r.result # None <=> r.state = "succeeded"
  /\ r.token # None <=> Active(r)
  /\ Active(r) => r.token = r.attempt /\ r.attempt > 0
  /\ r.state \in {"absent", "pending", "dispatched"} => r.started = None
  /\ r.state = "absent" => r.attempt = 0 /\ r.searches = 0
  /\ r.state = "dispatched" => r.lease # None
  /\ r.state = "running" => r.started # None
  /\ r.state = "cancel_requested" => (r.lease # None <=> r.started = None)
  /\ r.state = "succeeded" => r.result = r.attempt /\ r.started # None
  /\ r.state \in {"absent", "pending", "running"} \union TerminalStates
       => r.lease = None

RowsInv == \A j \in Jobs : RowInv(job[j], now)

ListInv == \A s \in staleList : s.updated <= now - StaleSeconds

\* A run that has not begun yet is still covered by the attempt budget.
StartsOK(r, k) ==
  /\ k <= r.attempt
  /\ k <= RunnerMaxAttempts
  /\ r.state \in {"absent", "pending"} => k < RunnerMaxAttempts
  /\ r.state = "dispatched" => k < r.attempt /\ k < RunnerMaxAttempts

StartInv == \A j \in Jobs : StartsOK(job[j], starts[j])

IInv == TypeOK /\ RowsInv /\ ListInv /\ StartInv

USE ConfigAssumption DEF None

------------------------------------------------------------------------------
(* What each method does to a well-formed row. *)

LEMMA CreatedRowInv ==
  ASSUME NEW n \in Nat
  PROVE  RowInv(CreatedRow(n), n)
<1> DEFINE q == CreatedRow(n)
<1>2. q \in Row
  BY DEF CreatedRow, NoRow, RowInv, Row, JobStates, ActiveStates, TerminalStates,
         NullOrNat, Active, Terminal
<1>3. /\ q.state = "pending"
      /\ q.token = None
      /\ q.lease = None
      /\ q.updated = n
      /\ q.started = None
      /\ q.finished = None
      /\ q.searches = 0
      /\ q.result = None
      /\ q.error = FALSE
  BY DEF CreatedRow, NoRow, Row
<1> HIDE DEF q
<1>5. RowInv(q, n)
  BY <1>2, <1>3
     DEF RowInv, Row, Active, Terminal, ActiveStates, TerminalStates, NullOrNat
<1> QED
  BY <1>5 DEF q

LEMMA ClaimedRowInv ==
  ASSUME NEW n \in Nat, NEW r, RowInv(r, n), r.state = "pending"
  PROVE  RowInv(ClaimedRow(r, n), n)
<1> DEFINE q == ClaimedRow(r, n)
<1>1. r \in Row
  BY DEF RowInv
<1>1a. n + LeaseSeconds \in Nat /\ r.attempt + 1 \in Nat
  BY <1>1 DEF Row
<1>2. q \in Row
  BY <1>1, <1>1a DEF ClaimedRow, RowInv, Row, JobStates, ActiveStates, TerminalStates,
         NullOrNat, Active, Terminal
<1>3. /\ q.state = "dispatched"
      /\ q.attempt = r.attempt + 1
      /\ q.token = r.attempt + 1
      /\ q.lease = n + LeaseSeconds
      /\ q.updated = n
  BY <1>1 DEF ClaimedRow, Row
<1>4. /\ q.started = r.started
      /\ q.finished = r.finished
      /\ q.searches = r.searches
      /\ q.result = r.result
      /\ q.error = r.error
  BY <1>1 DEF ClaimedRow, Row
<1> HIDE DEF q
<1>5. RowInv(q, n)
  BY <1>2, <1>3, <1>1, <1>4
     DEF RowInv, Row, Active, Terminal, ActiveStates, TerminalStates, NullOrNat
<1> QED
  BY <1>5 DEF q

LEMMA StartedRowInv ==
  ASSUME NEW n \in Nat, NEW r, RowInv(r, n), r.state = "dispatched"
  PROVE  RowInv(StartedRow(r, n), n)
<1> DEFINE q == StartedRow(r, n)
<1>1. r \in Row
  BY DEF RowInv
<1>2. q \in Row
  BY <1>1 DEF StartedRow, RowInv, Row, JobStates, ActiveStates, TerminalStates,
         NullOrNat, Active, Terminal
<1>3. /\ q.state = "running"
      /\ q.lease = None
      /\ q.started = n
      /\ q.updated = n
  BY <1>1 DEF StartedRow, Row
<1>4. /\ q.token = r.token
      /\ q.attempt = r.attempt
      /\ q.finished = r.finished
      /\ q.searches = r.searches
      /\ q.result = r.result
      /\ q.error = r.error
  BY <1>1 DEF StartedRow, Row
<1> HIDE DEF q
<1>5. RowInv(q, n)
  BY <1>2, <1>3, <1>1, <1>4
     DEF RowInv, Row, Active, Terminal, ActiveStates, TerminalStates, NullOrNat
<1> QED
  BY <1>5 DEF q

LEMMA TouchedRowInv ==
  ASSUME NEW n \in Nat, NEW r, RowInv(r, n)
  PROVE  RowInv(TouchedRow(r, n), n)
<1> DEFINE q == TouchedRow(r, n)
<1>1. r \in Row
  BY DEF RowInv
<1>2. q \in Row
  BY <1>1 DEF TouchedRow, RowInv, Row, JobStates, ActiveStates, TerminalStates,
         NullOrNat, Active, Terminal
<1>3. /\ q.updated = n
  BY <1>1 DEF TouchedRow, Row
<1>4. /\ q.state = r.state
      /\ q.token = r.token
      /\ q.attempt = r.attempt
      /\ q.lease = r.lease
      /\ q.started = r.started
      /\ q.finished = r.finished
      /\ q.searches = r.searches
      /\ q.result = r.result
      /\ q.error = r.error
  BY <1>1 DEF TouchedRow, Row
<1> HIDE DEF q
<1>5. RowInv(q, n)
  BY <1>2, <1>3, <1>1, <1>4
     DEF RowInv, Row, Active, Terminal, ActiveStates, TerminalStates, NullOrNat
<1> QED
  BY <1>5 DEF q

LEMMA RenewedRowInv ==
  ASSUME NEW n \in Nat, NEW r, RowInv(r, n), r.started = None, 
         r.state \in {"dispatched", "cancel_requested"}
  PROVE  RowInv(RenewedRow(r, n), n)
<1> DEFINE q == RenewedRow(r, n)
<1>1. r \in Row
  BY DEF RowInv
<1>1a. n + LeaseSeconds \in Nat
  BY <1>1 DEF Row
<1>2. q \in Row
  BY <1>1, <1>1a DEF RenewedRow, RowInv, Row, JobStates, ActiveStates, TerminalStates,
         NullOrNat, Active, Terminal
<1>3. /\ q.lease = n + LeaseSeconds
      /\ q.updated = n
  BY <1>1 DEF RenewedRow, Row
<1>4. /\ q.state = r.state
      /\ q.token = r.token
      /\ q.attempt = r.attempt
      /\ q.started = r.started
      /\ q.finished = r.finished
      /\ q.searches = r.searches
      /\ q.result = r.result
      /\ q.error = r.error
  BY <1>1 DEF RenewedRow, Row
<1> HIDE DEF q
<1>5. RowInv(q, n)
  BY <1>2, <1>3, <1>1, <1>4
     DEF RowInv, Row, Active, Terminal, ActiveStates, TerminalStates, NullOrNat
<1> QED
  BY <1>5 DEF q

LEMMA CancelledRowInv ==
  ASSUME NEW n \in Nat, NEW r, RowInv(r, n), Active(r)
  PROVE  RowInv(CancelledRow(r, n), n)
<1> DEFINE q == CancelledRow(r, n)
<1>1. r \in Row
  BY DEF RowInv
<1>2. q \in Row
  BY <1>1 DEF CancelledRow, FinishedRow, RowInv, Row, JobStates, ActiveStates, TerminalStates,
         NullOrNat, Active, Terminal
<1>3. /\ q.state = "cancelled"
      /\ q.token = None
      /\ q.lease = None
      /\ q.finished = n
      /\ q.updated = n
  BY <1>1 DEF CancelledRow, FinishedRow, Row
<1>4. /\ q.attempt = r.attempt
      /\ q.started = r.started
      /\ q.searches = r.searches
      /\ q.result = r.result
      /\ q.error = r.error
  BY <1>1 DEF CancelledRow, FinishedRow, Row
<1> HIDE DEF q
<1>5. RowInv(q, n)
  BY <1>2, <1>3, <1>1, <1>4
     DEF RowInv, Row, Active, Terminal, ActiveStates, TerminalStates, NullOrNat
<1> QED
  BY <1>5 DEF q

LEMMA FailedRowInv ==
  ASSUME NEW n \in Nat, NEW r, RowInv(r, n), Active(r)
  PROVE  RowInv(FailedRow(r, n), n)
<1> DEFINE q == FailedRow(r, n)
<1>1. r \in Row
  BY DEF RowInv
<1>2. q \in Row
  BY <1>1 DEF FailedRow, FinishedRow, RowInv, Row, JobStates, ActiveStates, TerminalStates,
         NullOrNat, Active, Terminal
<1>3. /\ q.state = "failed"
      /\ q.token = None
      /\ q.lease = None
      /\ q.finished = n
      /\ q.updated = n
      /\ q.error = TRUE
  BY <1>1 DEF FailedRow, FinishedRow, Row
<1>4. /\ q.attempt = r.attempt
      /\ q.started = r.started
      /\ q.searches = r.searches
      /\ q.result = r.result
  BY <1>1 DEF FailedRow, FinishedRow, Row
<1> HIDE DEF q
<1>5. RowInv(q, n)
  BY <1>2, <1>3, <1>1, <1>4
     DEF RowInv, Row, Active, Terminal, ActiveStates, TerminalStates, NullOrNat
<1> QED
  BY <1>5 DEF q

LEMMA SucceededRowInv ==
  ASSUME NEW n \in Nat, NEW r, RowInv(r, n), r.state = "running", NEW u \in NullOrNat
  PROVE  RowInv(SucceededRow(r, u, n), n)
<1> DEFINE q == SucceededRow(r, u, n)
<1>1. r \in Row
  BY DEF RowInv
<1>2. q \in Row
  BY <1>1 DEF SucceededRow, FinishedRow, RowInv, Row, JobStates, ActiveStates, TerminalStates,
         NullOrNat, Active, Terminal
<1>3. /\ q.state = "succeeded"
      /\ q.token = None
      /\ q.lease = None
      /\ q.finished = n
      /\ q.updated = n
      /\ q.result = r.token
  BY <1>1 DEF SucceededRow, FinishedRow, Row
<1>4. /\ q.attempt = r.attempt
      /\ q.started = r.started
      /\ q.error = r.error
  BY <1>1 DEF SucceededRow, FinishedRow, Row
<1> HIDE DEF q
<1>5. RowInv(q, n)
  BY <1>2, <1>3, <1>1, <1>4
     DEF RowInv, Row, Active, Terminal, ActiveStates, TerminalStates, NullOrNat
<1> QED
  BY <1>5 DEF q

LEMMA DispatchRequeuedRowInv ==
  ASSUME NEW n \in Nat, NEW r, RowInv(r, n), Active(r), r.started = None
  PROVE  RowInv(DispatchRequeuedRow(r, n), n)
<1> DEFINE q == DispatchRequeuedRow(r, n)
<1>1. r \in Row
  BY DEF RowInv
<1>2. q \in Row
  BY <1>1 DEF DispatchRequeuedRow, RowInv, Row, JobStates, ActiveStates, TerminalStates,
         NullOrNat, Active, Terminal
<1>3. /\ q.state = "pending"
      /\ q.token = None
      /\ q.lease = None
      /\ q.updated = n
  BY <1>1 DEF DispatchRequeuedRow, Row
<1>4. /\ q.attempt = r.attempt
      /\ q.started = r.started
      /\ q.finished = r.finished
      /\ q.searches = r.searches
      /\ q.result = r.result
      /\ q.error = r.error
  BY <1>1 DEF DispatchRequeuedRow, Row
<1> HIDE DEF q
<1>5. RowInv(q, n)
  BY <1>2, <1>3, <1>1, <1>4
     DEF RowInv, Row, Active, Terminal, ActiveStates, TerminalStates, NullOrNat
<1> QED
  BY <1>5 DEF q

LEMMA RunnerRequeuedRowInv ==
  ASSUME NEW n \in Nat, NEW r, RowInv(r, n), Active(r)
  PROVE  RowInv(RunnerRequeuedRow(r, n), n)
<1> DEFINE q == RunnerRequeuedRow(r, n)
<1>1. r \in Row
  BY DEF RowInv
<1>2. q \in Row
  BY <1>1 DEF RunnerRequeuedRow, RowInv, Row, JobStates, ActiveStates, TerminalStates,
         NullOrNat, Active, Terminal
<1>3. /\ q.state = "pending"
      /\ q.token = None
      /\ q.lease = None
      /\ q.updated = n
      /\ q.started = None
      /\ q.finished = None
      /\ q.error = FALSE
  BY <1>1 DEF RunnerRequeuedRow, Row
<1>4. /\ q.attempt = r.attempt
      /\ q.searches = r.searches
      /\ q.result = r.result
  BY <1>1 DEF RunnerRequeuedRow, Row
<1> HIDE DEF q
<1>5. RowInv(q, n)
  BY <1>2, <1>3, <1>1, <1>4
     DEF RowInv, Row, Active, Terminal, ActiveStates, TerminalStates, NullOrNat
<1> QED
  BY <1>5 DEF q

LEMMA SearchedRowInv ==
  ASSUME NEW n \in Nat, NEW r, RowInv(r, n), Active(r), r.searches < MaxQueries
  PROVE  RowInv([TouchedRow(r, n) EXCEPT !.searches = @ + 1], n)
<1> DEFINE q == [TouchedRow(r, n) EXCEPT !.searches = @ + 1]
<1>1. r \in Row /\ r.searches + 1 \in Nat
  BY DEF RowInv, Row
<1>2. q \in Row
  BY <1>1 DEF TouchedRow, Row
<1>3. q.updated = n /\ q.searches = r.searches + 1
  BY <1>1 DEF TouchedRow, Row
<1>4. /\ q.state = r.state /\ q.token = r.token /\ q.attempt = r.attempt
      /\ q.lease = r.lease /\ q.started = r.started /\ q.error = r.error
      /\ q.finished = r.finished /\ q.result = r.result
  BY <1>1 DEF TouchedRow, Row
<1> HIDE DEF q
<1>5. RowInv(q, n)
  BY <1>1, <1>2, <1>3, <1>4
     DEF RowInv, Row, Active, Terminal, ActiveStates, TerminalStates, NullOrNat
<1> QED
  BY <1>5 DEF q

LEMMA CancelRequestedRowInv ==
  ASSUME NEW n \in Nat, NEW r, RowInv(r, n),
         r.state \in {"pending", "dispatched", "running"}
  PROVE  /\ RowInv(CancelRequestedRow(r, n), n)
         /\ CancelRequestedRow(r, n).attempt = r.attempt
         /\ CancelRequestedRow(r, n).state \in {"cancelled", "cancel_requested"}
<1> DEFINE q == CancelRequestedRow(r, n)
<1>1. r \in Row
  BY DEF RowInv
<1>2. CASE r.state = "pending"
  <2>1. q \in Row
    BY <1>1, <1>2 DEF CancelRequestedRow, Row, JobStates, TerminalStates, NullOrNat
  <2>2. /\ q.state = "cancelled" /\ q.token = None /\ q.finished = n
        /\ q.updated = n
    BY <1>1, <1>2 DEF CancelRequestedRow, Row
  <2>3. /\ q.lease = r.lease /\ q.attempt = r.attempt /\ q.error = r.error
        /\ q.searches = r.searches /\ q.result = r.result
    BY <1>1, <1>2 DEF CancelRequestedRow, Row
  <2> HIDE DEF q
  <2>4. RowInv(q, n) /\ q.attempt = r.attempt /\ q.state = "cancelled"
    BY <1>1, <1>2, <2>1, <2>2, <2>3
       DEF RowInv, Row, Active, Terminal, ActiveStates, TerminalStates, NullOrNat
  <2> QED
    BY <2>4 DEF q
<1>3. CASE r.state \in {"dispatched", "running"}
  <2>1. q \in Row
    BY <1>1, <1>3 DEF CancelRequestedRow, Row, JobStates, ActiveStates
  <2>2. q.state = "cancel_requested" /\ q.updated = n
    BY <1>1, <1>3 DEF CancelRequestedRow, Row
  <2>3. /\ q.lease = r.lease /\ q.attempt = r.attempt /\ q.error = r.error
        /\ q.searches = r.searches /\ q.result = r.result
        /\ q.token = r.token /\ q.started = r.started
        /\ q.finished = r.finished
    BY <1>1, <1>3 DEF CancelRequestedRow, Row
  <2> HIDE DEF q
  <2>4. RowInv(q, n) /\ q.attempt = r.attempt /\ q.state = "cancel_requested"
    BY <1>1, <1>3, <2>1, <2>2, <2>3
       DEF RowInv, Row, Active, Terminal, ActiveStates, TerminalStates, NullOrNat
  <2> QED
    BY <2>4 DEF q
<1> QED
  BY <1>2, <1>3

------------------------------------------------------------------------------
(* A step that writes one well-formed row preserves the invariant. *)

LEMMA TableStep ==
  ASSUME IInv, NEW j \in Jobs, NEW row, RowInv(row, now),
         NEW k \in Nat, StartsOK(row, k),
         job' = [job EXCEPT ![j] = row],
         starts' = [starts EXCEPT ![j] = k],
         events' \in [Jobs -> Seq(EventTypes)],
         UNCHANGED <<now, dispatchList, staleList>>
  PROVE  IInv'
<1>1. job' \in [Jobs -> Row]
  BY DEF IInv, TypeOK, RowInv
<1>2. starts' \in [Jobs -> Nat]
  BY DEF IInv, TypeOK
<1>3. TypeOK'
  BY <1>1, <1>2 DEF IInv, TypeOK
<1>4. \A i \in Jobs : job'[i] = IF i = j THEN row ELSE job[i]
  BY DEF IInv, TypeOK
<1>5. \A i \in Jobs : starts'[i] = IF i = j THEN k ELSE starts[i]
  BY DEF IInv, TypeOK
<1>6. RowsInv'
  <2> SUFFICES ASSUME NEW i \in Jobs PROVE RowInv(job'[i], now)
    BY DEF RowsInv
  <2> QED
    BY <1>4 DEF IInv, RowsInv
<1>7. StartInv'
  <2> SUFFICES ASSUME NEW i \in Jobs PROVE StartsOK(job'[i], starts'[i])
    BY DEF StartInv
  <2> QED
    BY <1>4, <1>5 DEF IInv, StartInv
<1>8. ListInv'
  BY DEF IInv, ListInv
<1> QED
  BY <1>3, <1>6, <1>7, <1>8 DEF IInv

LEMMA WriteStep ==
  ASSUME IInv, NEW j \in Jobs, NEW row, RowInv(row, now),
         NEW type \in EventTypes, StartsOK(row, starts[j]),
         Write(j, row, type), UNCHANGED Rest
  PROVE  IInv'
<1>1. events' \in [Jobs -> Seq(EventTypes)]
  BY DEF IInv, TypeOK, Write
<1>2. starts' = [starts EXCEPT ![j] = starts[j]] /\ starts[j] \in Nat
  BY DEF IInv, TypeOK, Rest
<1> QED
  BY <1>1, <1>2, TableStep DEF Write, Rest

LEMMA SilentStep ==
  ASSUME IInv, NEW j \in Jobs, NEW row, RowInv(row, now),
         StartsOK(row, starts[j]), WriteSilently(j, row), UNCHANGED Rest
  PROVE  IInv'
<1>1. events' \in [Jobs -> Seq(EventTypes)]
  BY DEF IInv, TypeOK, WriteSilently
<1>2. starts' = [starts EXCEPT ![j] = starts[j]] /\ starts[j] \in Nat
  BY DEF IInv, TypeOK, Rest
<1> QED
  BY <1>1, <1>2, TableStep DEF WriteSilently, Rest

------------------------------------------------------------------------------
(* One lemma per group of actions. *)

LEMMA UserStepInv ==
  ASSUME IInv, NEW j \in Jobs, UserStep(j)
  PROVE  IInv'
<1>1. CASE CreateJob(j)
  <2>1. starts[j] = 0
    BY <1>1 DEF CreateJob, IInv, StartInv, StartsOK, TypeOK, RowsInv, RowInv, Row
  <2>2. CreatedRow(now).attempt = 0 /\ CreatedRow(now).state = "pending"
    BY DEF CreatedRow, NoRow
  <2>3. StartsOK(CreatedRow(now), starts[j])
    BY <2>1, <2>2 DEF StartsOK
  <2>4. RowInv(CreatedRow(now), now)
    BY CreatedRowInv DEF IInv, TypeOK
  <2> QED
    BY <1>1, <2>3, <2>4, WriteStep DEF CreateJob, EventTypes
<1>2. CASE RequestCancel(j)
  <2> DEFINE r == job[j]
             q == CancelRequestedRow(r, now)
             type == IF r.state = "pending" THEN "job.cancelled"
                                            ELSE "job.cancel_requested"
  <2>1. /\ RowInv(q, now) /\ q.attempt = r.attempt
        /\ q.state \in {"cancelled", "cancel_requested"}
    BY <1>2, CancelRequestedRowInv DEF RequestCancel, IInv, RowsInv, TypeOK
  <2>2. StartsOK(q, starts[j])
    BY <2>1 DEF IInv, StartInv, StartsOK
  <2>3. type \in EventTypes /\ Write(j, q, type) /\ UNCHANGED Rest
    BY <1>2 DEF RequestCancel, EventTypes
  <2> HIDE DEF q, type
  <2> QED
    BY <2>1, <2>2, <2>3, WriteStep
<1> QED
  BY <1>1, <1>2 DEF UserStep

LEMMA ClaimStepInv ==
  ASSUME IInv, NEW j \in Jobs, ClaimNext(j)
  PROVE  IInv'
<1> DEFINE q == ClaimedRow(job[j], now)
<1>1. job[j] \in Row /\ job[j].state = "pending"
  BY DEF ClaimNext, IInv, TypeOK
<1>2. RowInv(q, now)
  BY <1>1, ClaimedRowInv DEF IInv, RowsInv, TypeOK
<1>3. q.attempt = job[j].attempt + 1 /\ q.state = "dispatched"
  BY <1>1 DEF ClaimedRow, Row
<1>4. StartsOK(q, starts[j])
  BY <1>1, <1>3 DEF IInv, StartInv, StartsOK, TypeOK, Row
<1> HIDE DEF q
<1> QED
  BY <1>2, <1>4, WriteStep DEF ClaimNext, EventTypes, q

LEMMA MarkStartedInv ==
  ASSUME IInv, NEW j \in Jobs, NEW t, MarkStarted(j, t)
  PROVE  IInv'
<1> DEFINE q == StartedRow(job[j], now)
<1>1. job[j] \in Row /\ job[j].state = "dispatched" /\ starts[j] \in Nat
  BY DEF MarkStarted, IInv, TypeOK
<1>2. RowInv(q, now)
  BY <1>1, StartedRowInv DEF IInv, RowsInv, TypeOK
<1>3. q.attempt = job[j].attempt /\ q.state = "running"
  BY <1>1 DEF StartedRow, Row
<1>4. StartsOK(q, starts[j] + 1)
  BY <1>1, <1>3 DEF IInv, StartInv, StartsOK, Row
<1>5. events' \in [Jobs -> Seq(EventTypes)]
  BY DEF MarkStarted, Write, IInv, TypeOK, EventTypes
<1>6. starts' = [starts EXCEPT ![j] = starts[j] + 1] /\ starts[j] + 1 \in Nat
  BY <1>1 DEF MarkStarted
<1>7. job' = [job EXCEPT ![j] = q] /\ UNCHANGED <<now, dispatchList, staleList>>
  BY DEF MarkStarted, Write
<1> HIDE DEF q
<1> QED
  BY <1>2, <1>4, <1>5, <1>6, <1>7, TableStep

LEMMA TouchInv ==
  ASSUME IInv, NEW j \in Jobs, WriteSilently(j, TouchedRow(job[j], now)),
         UNCHANGED Rest
  PROVE  IInv'
<1> DEFINE q == TouchedRow(job[j], now)
<1>1. job[j] \in Row
  BY DEF IInv, TypeOK
<1>2. RowInv(q, now)
  BY <1>1, TouchedRowInv DEF IInv, RowsInv, TypeOK
<1>3. q.attempt = job[j].attempt /\ q.state = job[j].state
  BY <1>1 DEF TouchedRow, Row
<1>4. StartsOK(q, starts[j])
  BY <1>3 DEF IInv, StartInv, StartsOK
<1> HIDE DEF q
<1> QED
  BY <1>2, <1>4, SilentStep DEF q

\* Ending a job, whoever ends it and however.
LEMMA FinishInv ==
  ASSUME IInv, NEW j \in Jobs, NEW row, NEW type \in EventTypes,
         RowInv(row, now), row.attempt = job[j].attempt,
         row.state \in TerminalStates,
         Write(j, row, type), UNCHANGED Rest
  PROVE  IInv'
<1>1. StartsOK(row, starts[j])
  BY DEF IInv, StartInv, StartsOK, TerminalStates
<1> QED
  BY <1>1, WriteStep

LEMMA FinishedRowFacts ==
  ASSUME NEW r \in Row, NEW n \in Nat
  PROVE  /\ CancelledRow(r, n).attempt = r.attempt
         /\ CancelledRow(r, n).state = "cancelled"
         /\ FailedRow(r, n).attempt = r.attempt
         /\ FailedRow(r, n).state = "failed"
         /\ \A u \in NullOrNat : /\ SucceededRow(r, u, n).attempt = r.attempt
                                /\ SucceededRow(r, u, n).state = "succeeded"
<1>1. CancelledRow(r, n).attempt = r.attempt /\ CancelledRow(r, n).state = "cancelled"
  BY DEF CancelledRow, FinishedRow, Row
<1>2. FailedRow(r, n).attempt = r.attempt /\ FailedRow(r, n).state = "failed"
  BY DEF FailedRow, FinishedRow, Row
<1>3. \A u \in NullOrNat : /\ SucceededRow(r, u, n).attempt = r.attempt
                          /\ SucceededRow(r, u, n).state = "succeeded"
  BY DEF SucceededRow, FinishedRow, Row
<1> QED
  BY <1>1, <1>2, <1>3

LEMMA CancelInv ==
  ASSUME IInv, NEW j \in Jobs, Active(job[j]),
         Write(j, CancelledRow(job[j], now), "job.cancelled"), UNCHANGED Rest
  PROVE  IInv'
<1>1. job[j] \in Row /\ now \in Nat /\ RowInv(job[j], now)
  BY DEF IInv, TypeOK, RowsInv
<1> QED
  BY <1>1, CancelledRowInv, FinishedRowFacts, FinishInv
     DEF EventTypes, TerminalStates

LEMMA FailInv ==
  ASSUME IInv, NEW j \in Jobs, Active(job[j]),
         Write(j, FailedRow(job[j], now), "job.failed"), UNCHANGED Rest
  PROVE  IInv'
<1>1. job[j] \in Row /\ now \in Nat /\ RowInv(job[j], now)
  BY DEF IInv, TypeOK, RowsInv
<1> QED
  BY <1>1, FailedRowInv, FinishedRowFacts, FinishInv
     DEF EventTypes, TerminalStates

LEMMA SucceedInv ==
  ASSUME IInv, NEW j \in Jobs, NEW t, MarkCompleted(j, t)
  PROVE  IInv'
<1>1. job[j] \in Row /\ now \in Nat /\ RowInv(job[j], now)
  BY DEF IInv, TypeOK, RowsInv
<1>2. PICK u \in NullOrNat : Write(j, SucceededRow(job[j], u, now), "job.succeeded")
  BY ReportAssumption DEF MarkCompleted, NullOrNat
<1> QED
  BY <1>1, <1>2, SucceededRowInv, FinishedRowFacts, FinishInv
     DEF EventTypes, TerminalStates, MarkCompleted

LEMMA PublicSearchInv ==
  ASSUME IInv, NEW j \in Jobs, NEW t, PublicSearch(j, t)
  PROVE  IInv'
<1> DEFINE q == [TouchedRow(job[j], now) EXCEPT !.searches = @ + 1]
<1>1. job[j] \in Row /\ now \in Nat /\ RowInv(job[j], now)
  BY DEF IInv, TypeOK, RowsInv
<1>1a. Active(job[j])
  BY <1>1 DEF PublicSearch, HoldsToken, RowInv
<1>2. CASE job[j].searches < MaxQueries /\ WriteSilently(j, q)
  <2>1. RowInv(q, now)
    BY <1>1, <1>2, <1>1a, SearchedRowInv
  <2>2. q.attempt = job[j].attempt /\ q.state = job[j].state
    BY <1>1 DEF TouchedRow, Row
  <2>3. StartsOK(q, starts[j])
    BY <2>2 DEF IInv, StartInv, StartsOK
  <2>4. WriteSilently(j, q) /\ UNCHANGED Rest
    BY <1>2 DEF PublicSearch
  <2> HIDE DEF q
  <2> QED
    BY <2>1, <2>3, <2>4, SilentStep
<1>3. CASE /\ job[j].state \in {"dispatched", "running"}
           /\ Write(j, FailedRow(job[j], now), "job.failed")
  BY <1>3, FailInv DEF PublicSearch, Active, ActiveStates
<1> QED
  BY <1>2, <1>3 DEF PublicSearch

LEMMA RunnerStepInv ==
  ASSUME IInv, NEW j \in Jobs, NEW t, RunnerStep(j, t)
  PROVE  IInv'
<1>1. CASE MarkStarted(j, t)
  BY <1>1, MarkStartedInv
<1>2. CASE AppendRunnerEvent(j, t) \/ Heartbeat(j, t) \/ ConsumeUsage(j, t)
  BY <1>2, TouchInv DEF AppendRunnerEvent, Heartbeat, ConsumeUsage
<1>3. CASE PublicSearch(j, t)
  BY <1>3, PublicSearchInv
<1>4. CASE MarkCompleted(j, t)
  BY <1>4, SucceedInv
<1>5. CASE MarkFailed(j, t)
  BY <1>5, FailInv DEF MarkFailed, Active, ActiveStates
<1>6. CASE MarkCancelled(j, t)
  BY <1>6, CancelInv DEF MarkCancelled, Active, ActiveStates
<1> QED
  BY <1>1, <1>2, <1>3, <1>4, <1>5, <1>6 DEF RunnerStep

LEMMA ListStepInv ==
  ASSUME IInv, NEW j \in Jobs, ListStep(j)
  PROVE  IInv'
<1>1. job[j] \in Row /\ now \in Nat
  BY DEF IInv, TypeOK
<1>2. CASE ListExpiredDispatch(j)
  <2>1. dispatchList' \subseteq ExpiredDispatch
    BY <1>1, <1>2 DEF ListExpiredDispatch, DispatchExpired, ExpiredDispatch,
                      IInv, TypeOK, Row
  <2> QED
    BY <1>2, <2>1 DEF ListExpiredDispatch, IInv, TypeOK, RowsInv, ListInv, StartInv
<1>3. CASE ListStaleRunner(j)
  <2> DEFINE s == [id |-> j, attempt |-> job[j].attempt, state |-> job[j].state,
                   updated |-> job[j].updated]
  <2>1. s \in StaleRunner /\ s.updated <= now - StaleSeconds
    BY <1>1, <1>3 DEF ListStaleRunner, RunnerStale, StaleRunner, Row
  <2>2. staleList' = staleList \union {s}
    BY <1>3 DEF ListStaleRunner
  <2> HIDE DEF s
  <2>3. staleList' \subseteq StaleRunner
    BY <2>1, <2>2 DEF IInv, TypeOK
  <2>4. ListInv'
    BY <1>3, <2>1, <2>2 DEF ListStaleRunner, IInv, ListInv
  <2> QED
    BY <1>3, <2>3, <2>4 DEF ListStaleRunner, IInv, TypeOK, RowsInv, StartInv
<1> QED
  BY <1>2, <1>3 DEF ListStep

LEMMA ReconcileDispatchInv ==
  ASSUME IInv, NEW d \in dispatchList, NEW status,
         ReconcileExpiredDispatch(d, status)
  PROVE  IInv'
<1> DEFINE j == d.id
           r == job[j]
           action == DispatchAction(d, status)
<1>1. j \in Jobs /\ r \in Row /\ now \in Nat /\ RowInv(r, now)
  BY DEF IInv, TypeOK, RowsInv, ExpiredDispatch
<1>2. r.state \in {"dispatched", "cancel_requested"} /\ r.started = None
  BY DEF ReconcileExpiredDispatch, DispatchStillMatches
<1>3. Active(r)
  BY <1>2 DEF Active, ActiveStates
<1>4. CASE action = "renew"
  <2> DEFINE q == RenewedRow(r, now)
  <2>1. RowInv(q, now)
    BY <1>1, <1>2, RenewedRowInv
  <2>2. q.attempt = r.attempt /\ q.state = r.state
    BY <1>1 DEF RenewedRow, Row
  <2>3. StartsOK(q, starts[j])
    BY <1>1, <2>2 DEF IInv, StartInv, StartsOK
  <2>4. WriteSilently(j, q) /\ UNCHANGED Rest
    BY <1>4 DEF ReconcileExpiredDispatch, DispatchReconciledRow
  <2> HIDE DEF q
  <2> QED
    BY <1>1, <2>1, <2>3, <2>4, SilentStep
<1>5. CASE action # "renew" /\ r.state = "cancel_requested"
  <2>1. Write(j, CancelledRow(r, now), "job.cancelled") /\ UNCHANGED Rest
    BY <1>5 DEF ReconcileExpiredDispatch, DispatchReconciledRow, DispatchEvent
  <2> QED
    BY <1>1, <1>3, <2>1, CancelInv
<1>6. CASE action = "requeue" /\ r.state # "cancel_requested"
  <2> DEFINE q == DispatchRequeuedRow(r, now)
  <2>1. RowInv(q, now)
    BY <1>1, <1>2, <1>3, DispatchRequeuedRowInv
  <2>2. q.attempt = r.attempt /\ q.state = "pending"
    BY <1>1 DEF DispatchRequeuedRow, Row
  <2>3. StartsOK(q, starts[j])
    BY <1>1, <1>2, <1>6, <2>2 DEF IInv, StartInv, StartsOK
  <2>4. Write(j, q, "job.dispatch_requeued") /\ UNCHANGED Rest
    BY <1>6 DEF ReconcileExpiredDispatch, DispatchReconciledRow, DispatchEvent
  <2> HIDE DEF q
  <2> QED
    BY <1>1, <2>1, <2>3, <2>4, WriteStep DEF EventTypes
<1>7. CASE /\ action # "renew" /\ action # "requeue"
           /\ r.state # "cancel_requested"
  <2>1. Write(j, FailedRow(r, now), "job.failed") /\ UNCHANGED Rest
    BY <1>7 DEF ReconcileExpiredDispatch, DispatchReconciledRow, DispatchEvent
  <2> QED
    BY <1>1, <1>3, <2>1, FailInv
<1> QED
  BY <1>4, <1>5, <1>6, <1>7

LEMMA ReconcileStaleInv ==
  ASSUME IInv, NEW s \in staleList, ReconcileStaleRunner(s)
  PROVE  IInv'
<1> DEFINE j == s.id
           r == job[j]
           row == StaleReconciledRow(r, StaleAction(s), now)
<1>1. j \in Jobs /\ r \in Row /\ now \in Nat /\ RowInv(r, now)
  BY DEF IInv, TypeOK, RowsInv, StaleRunner
<1>2. /\ r.state \in {"running", "cancel_requested"} /\ r.attempt = s.attempt
      /\ Write(j, row, StaleEvent(row)) /\ UNCHANGED Rest
  BY DEF ReconcileStaleRunner, RunnerStillMatches
<1>3. Active(r)
  BY <1>2 DEF Active, ActiveStates
<1>4. CASE StaleAction(s) = "cancel" \/ r.state = "cancel_requested"
  <2>1. row = CancelledRow(r, now)
    BY <1>4 DEF StaleReconciledRow
  <2>2. StaleEvent(row) = "job.cancelled"
    BY <1>1, <2>1, FinishedRowFacts DEF StaleEvent
  <2> QED
    BY <1>1, <1>2, <1>3, <2>1, <2>2, CancelInv
<1>5. CASE /\ StaleAction(s) # "cancel" /\ r.state # "cancel_requested"
           /\ StaleAction(s) = "retry" /\ ~WallTimeExhausted(r, now)
  <2> DEFINE q == RunnerRequeuedRow(r, now)
  <2>1. row = q
    BY <1>5 DEF StaleReconciledRow
  <2>2. RowInv(q, now)
    BY <1>1, <1>3, RunnerRequeuedRowInv
  <2>3. q.attempt = r.attempt /\ q.state = "pending"
    BY <1>1 DEF RunnerRequeuedRow, Row
  <2>4. r.attempt < RunnerMaxAttempts
    BY <1>2, <1>5 DEF StaleAction
  <2>5. starts[j] \in Nat /\ starts[j] <= r.attempt
    BY <1>1 DEF IInv, StartInv, StartsOK, TypeOK
  <2>6. StartsOK(q, starts[j])
    BY <1>1, <2>3, <2>4, <2>5 DEF StartsOK, Row
  <2>7. StaleEvent(q) = "job.runner_requeued"
    BY <2>3 DEF StaleEvent
  <2>8. Write(j, q, "job.runner_requeued") /\ UNCHANGED Rest
    BY <1>2, <2>1, <2>7
  <2> HIDE DEF q
  <2> QED
    BY <1>1, <2>2, <2>6, <2>8, WriteStep DEF EventTypes
<1>6. CASE /\ StaleAction(s) # "cancel" /\ r.state # "cancel_requested"
           /\ ~(StaleAction(s) = "retry" /\ ~WallTimeExhausted(r, now))
  <2>1. row = FailedRow(r, now)
    BY <1>6 DEF StaleReconciledRow
  <2>2. StaleEvent(row) = "job.failed"
    BY <1>1, <2>1, FinishedRowFacts DEF StaleEvent
  <2> QED
    BY <1>1, <1>2, <1>3, <2>1, <2>2, FailInv
<1> QED
  BY <1>4, <1>5, <1>6

------------------------------------------------------------------------------
(* The invariant. *)

LEMMA InitInv == Init => IInv
<1> SUFFICES ASSUME Init PROVE IInv
  OBVIOUS
<1>1. NoRow \in Row
  BY DEF NoRow, Row, JobStates, NullOrNat
<1>2. TypeOK
  BY <1>1 DEF Init, TypeOK
<1>3. RowInv(NoRow, 0)
  BY <1>1 DEF RowInv, NoRow, Active, Terminal, ActiveStates, TerminalStates
<1>4. RowsInv
  BY <1>3 DEF Init, RowsInv
<1>5. StartInv
  BY DEF Init, StartInv, StartsOK, NoRow
<1> QED
  BY <1>2, <1>4, <1>5 DEF IInv, ListInv, Init

LEMMA NextInv == IInv /\ [Next]_vars => IInv'
<1> SUFFICES ASSUME IInv, [Next]_vars PROVE IInv'
  OBVIOUS
<1>1. CASE Tick
  <2>1. now' \in Nat /\ now <= now' /\ UNCHANGED <<job, events, dispatchList, staleList, starts>>
    BY <1>1 DEF Tick, IInv, TypeOK
  <2>2. TypeOK' /\ StartInv'
    BY <2>1 DEF IInv, TypeOK, StartInv
  <2>3. RowsInv'
    BY <2>1 DEF IInv, TypeOK, RowsInv, RowInv, Row
  <2>4. ListInv'
    <3> SUFFICES ASSUME NEW s \in staleList PROVE s.updated <= now' - StaleSeconds
      BY <2>1 DEF ListInv
    <3>1. s.updated \in Nat /\ s.updated <= now - StaleSeconds /\ now \in Nat
      BY DEF IInv, TypeOK, ListInv, StaleRunner
    <3> QED
      BY <2>1, <3>1
  <2> QED
    BY <2>2, <2>3, <2>4 DEF IInv
<1>2. ASSUME NEW j \in Jobs, UserStep(j) PROVE IInv'
  BY <1>2, UserStepInv
<1>3. ASSUME NEW j \in Jobs, ClaimNext(j) PROVE IInv'
  BY <1>3, ClaimStepInv
<1>4. ASSUME NEW j \in Jobs, ListStep(j) PROVE IInv'
  BY <1>4, ListStepInv
<1>5. ASSUME NEW j \in Jobs, NEW t \in IssuedTokens(j), RunnerStep(j, t) PROVE IInv'
  BY <1>5, RunnerStepInv
<1>6. ASSUME NEW d \in dispatchList, NEW status, ReconcileExpiredDispatch(d, status)
      PROVE IInv'
  BY <1>6, ReconcileDispatchInv
<1>7. ASSUME NEW s \in staleList, ReconcileStaleRunner(s) PROVE IInv'
  BY <1>7, ReconcileStaleInv
<1>8. CASE UNCHANGED vars
  BY <1>8 DEF vars, IInv, TypeOK, RowsInv, ListInv, StartInv
<1> QED
  BY <1>1, <1>2, <1>3, <1>4, <1>5, <1>6, <1>7, <1>8 DEF Next

------------------------------------------------------------------------------
(* What one step may do to one row: r before, q after, k and m the starts  *)
(* of the job before and after, n the time.  The action properties and the *)
(* refinement follow from this relation alone.                             *)

RowStep(r, q, k, m, n) ==
  \/ q = r /\ m = k
  \/ /\ q.state # "succeeded" => q.searches >= r.searches
     /\ q.started = r.started
     /\ m = k
     /\ \/ r.state = "absent" /\ q.state = "pending"
        \/ r.state = "pending" /\ q.state \in {"dispatched", "cancelled"}
        \/ Active(r) /\ q.state = r.state
        \/ r.state = "dispatched" /\ q.state \in {"pending", "cancel_requested", "failed"}
        \/ r.state = "running" /\ q.state \in {"cancel_requested", "failed", "succeeded"}
        \/ r.state \in {"running", "cancel_requested"} /\ q.state = "cancelled"
  \/ /\ r.state = "dispatched" /\ q.state = "running"
     /\ q.searches = r.searches /\ q.started # None /\ m = k + 1
  \/ /\ r.state = "running" /\ q.state = "pending"
     /\ q.searches = r.searches /\ q.started = None /\ m = k
     /\ r.updated <= n - StaleSeconds

LEMMA RowFacts ==
  ASSUME NEW r \in Row, NEW n \in Nat
  PROVE  /\ ClaimedRow(r, n).state = "dispatched"
         /\ ClaimedRow(r, n).started = r.started
         /\ ClaimedRow(r, n).searches = r.searches
         /\ TouchedRow(r, n).state = r.state
         /\ TouchedRow(r, n).started = r.started
         /\ TouchedRow(r, n).searches = r.searches
         /\ RenewedRow(r, n).state = r.state
         /\ RenewedRow(r, n).started = r.started
         /\ RenewedRow(r, n).searches = r.searches
         /\ CancelledRow(r, n).started = r.started
         /\ CancelledRow(r, n).searches = r.searches
         /\ FailedRow(r, n).started = r.started
         /\ FailedRow(r, n).searches = r.searches
         /\ \A u \in NullOrNat : SucceededRow(r, u, n).started = r.started
         /\ DispatchRequeuedRow(r, n).state = "pending"
         /\ DispatchRequeuedRow(r, n).started = r.started
         /\ DispatchRequeuedRow(r, n).searches = r.searches
         /\ RunnerRequeuedRow(r, n).state = "pending"
         /\ RunnerRequeuedRow(r, n).started = None
         /\ RunnerRequeuedRow(r, n).searches = r.searches
<1>1. /\ ClaimedRow(r, n).state = "dispatched" /\ ClaimedRow(r, n).started = r.started
      /\ ClaimedRow(r, n).searches = r.searches
  BY DEF ClaimedRow, Row
<1>2. /\ TouchedRow(r, n).state = r.state /\ TouchedRow(r, n).started = r.started
      /\ TouchedRow(r, n).searches = r.searches
  BY DEF TouchedRow, Row
<1>3. /\ RenewedRow(r, n).state = r.state /\ RenewedRow(r, n).started = r.started
      /\ RenewedRow(r, n).searches = r.searches
  BY DEF RenewedRow, Row
<1>4. /\ CancelledRow(r, n).started = r.started
      /\ CancelledRow(r, n).searches = r.searches
  BY DEF CancelledRow, FinishedRow, Row
<1>5. FailedRow(r, n).started = r.started /\ FailedRow(r, n).searches = r.searches
  BY DEF FailedRow, FinishedRow, Row
<1>6. \A u \in NullOrNat : SucceededRow(r, u, n).started = r.started
  BY DEF SucceededRow, FinishedRow, Row
<1>7. /\ DispatchRequeuedRow(r, n).state = "pending"
      /\ DispatchRequeuedRow(r, n).started = r.started
      /\ DispatchRequeuedRow(r, n).searches = r.searches
  BY DEF DispatchRequeuedRow, Row
<1>8. /\ RunnerRequeuedRow(r, n).state = "pending"
      /\ RunnerRequeuedRow(r, n).started = None
      /\ RunnerRequeuedRow(r, n).searches = r.searches
  BY DEF RunnerRequeuedRow, Row
<1> QED
  BY <1>1, <1>2, <1>3, <1>4, <1>5, <1>6, <1>7, <1>8

\* A write to j moves j as given and leaves every other job alone.
LEMMA OneRow ==
  ASSUME IInv, NEW j \in Jobs, NEW row, job' = [job EXCEPT ![j] = row],
         starts' = [starts EXCEPT ![j] = starts'[j]],
         RowStep(job[j], row, starts[j], starts'[j], now),
         NEW i \in Jobs
  PROVE  RowStep(job[i], job'[i], starts[i], starts'[i], now)
<1>1. CASE i = j
  BY <1>1 DEF IInv, TypeOK
<1>2. CASE i # j
  <2>1. job'[i] = job[i] /\ starts'[i] = starts[i]
    BY <1>2 DEF IInv, TypeOK
  <2> QED
    BY <2>1 DEF RowStep
<1> QED
  BY <1>1, <1>2

\* The same for a write that starts nothing.
LEMMA OneRowNoStart ==
  ASSUME IInv, NEW j \in Jobs, NEW row, job' = [job EXCEPT ![j] = row],
         starts' = starts, RowStep(job[j], row, starts[j], starts[j], now),
         NEW i \in Jobs
  PROVE  RowStep(job[i], job'[i], starts[i], starts'[i], now)
<1>1. starts' = [starts EXCEPT ![j] = starts'[j]]
  BY DEF IInv, TypeOK
<1> QED
  BY <1>1, OneRow

LEMMA RunnerStepMoves ==
  ASSUME IInv, NEW j \in Jobs, NEW t, RunnerStep(j, t), NEW i \in Jobs
  PROVE  RowStep(job[i], job'[i], starts[i], starts'[i], now)
<1> DEFINE r == job[j]
<1>1. r \in Row /\ now \in Nat /\ RowInv(r, now) /\ starts[j] \in Nat
  BY DEF IInv, TypeOK, RowsInv
<1>2. Active(r)
  BY <1>1 DEF RunnerStep, MarkStarted, AppendRunnerEvent, Heartbeat, ConsumeUsage,
              PublicSearch, MarkCompleted, MarkFailed, MarkCancelled, HoldsToken, RowInv
<1>3. CASE MarkStarted(j, t)
  <2>1. /\ StartedRow(r, now).state = "running" /\ StartedRow(r, now).started = now
        /\ StartedRow(r, now).searches = r.searches
    BY <1>1 DEF StartedRow, Row
  <2>2. starts'[j] = starts[j] + 1 /\ starts' = [starts EXCEPT ![j] = starts'[j]]
    BY <1>3 DEF MarkStarted, IInv, TypeOK
  <2>3. now # None
    BY <1>1
  <2>4. job' = [job EXCEPT ![j] = StartedRow(r, now)] /\ r.state = "dispatched"
    BY <1>3 DEF MarkStarted, Write
  <2>5. RowStep(r, StartedRow(r, now), starts[j], starts'[j], now)
    BY <2>1, <2>2, <2>3, <2>4 DEF RowStep
  <2> QED
    BY <2>2, <2>4, <2>5, OneRow
<1>4. CASE AppendRunnerEvent(j, t) \/ Heartbeat(j, t) \/ ConsumeUsage(j, t)
  <2>1. RowStep(r, TouchedRow(r, now), starts[j], starts[j], now)
    BY <1>1, <1>2, RowFacts DEF RowStep, Row
  <2>2. job' = [job EXCEPT ![j] = TouchedRow(r, now)] /\ starts' = starts
    BY <1>4 DEF AppendRunnerEvent, Heartbeat, ConsumeUsage, WriteSilently, Rest
  <2> QED
    BY <2>1, <2>2, OneRowNoStart
<1>5. CASE PublicSearch(j, t)
  <2> DEFINE q == [TouchedRow(r, now) EXCEPT !.searches = @ + 1]
  <2>1. CASE WriteSilently(j, q)
    <3>1. q.state = r.state /\ q.started = r.started /\ q.searches = r.searches + 1
      BY <1>1 DEF TouchedRow, Row
    <3>2. job' = [job EXCEPT ![j] = q] /\ starts' = starts
      BY <1>5, <2>1 DEF PublicSearch, WriteSilently, Rest
    <3> HIDE DEF q
    <3>3. RowStep(r, q, starts[j], starts[j], now)
      BY <1>1, <1>2, <3>1 DEF RowStep, Row
    <3> QED
      BY <3>2, <3>3, OneRowNoStart
  <2>2. CASE /\ r.state \in {"dispatched", "running"}
             /\ Write(j, FailedRow(r, now), "job.failed")
    <3>1. RowStep(r, FailedRow(r, now), starts[j], starts[j], now)
      BY <1>1, <2>2, RowFacts, FinishedRowFacts DEF RowStep, Row
    <3>2. job' = [job EXCEPT ![j] = FailedRow(r, now)] /\ starts' = starts
      BY <1>5, <2>2 DEF PublicSearch, Write, Rest
    <3> QED
      BY <3>1, <3>2, OneRowNoStart
  <2> QED
    BY <1>5, <2>1, <2>2 DEF PublicSearch
<1>6. CASE MarkCompleted(j, t)
  <2>0. PICK u \in NullOrNat : Write(j, SucceededRow(r, u, now), "job.succeeded")
    BY <1>6, ReportAssumption DEF MarkCompleted, NullOrNat
  <2>1. RowStep(r, SucceededRow(r, u, now), starts[j], starts[j], now)
    BY <1>1, <1>6, RowFacts, FinishedRowFacts DEF RowStep, Row, MarkCompleted
  <2>2. job' = [job EXCEPT ![j] = SucceededRow(r, u, now)] /\ starts' = starts
    BY <1>6, <2>0 DEF MarkCompleted, Write, Rest
  <2> QED
    BY <2>1, <2>2, OneRowNoStart
<1>7. CASE MarkFailed(j, t)
  <2>1. RowStep(r, FailedRow(r, now), starts[j], starts[j], now)
    BY <1>1, <1>7, RowFacts, FinishedRowFacts DEF RowStep, Row, MarkFailed
  <2>2. job' = [job EXCEPT ![j] = FailedRow(r, now)] /\ starts' = starts
    BY <1>7 DEF MarkFailed, Write, Rest
  <2> QED
    BY <2>1, <2>2, OneRowNoStart
<1>8. CASE MarkCancelled(j, t)
  <2>1. RowStep(r, CancelledRow(r, now), starts[j], starts[j], now)
    BY <1>1, <1>8, RowFacts, FinishedRowFacts DEF RowStep, Row, MarkCancelled
  <2>2. job' = [job EXCEPT ![j] = CancelledRow(r, now)] /\ starts' = starts
    BY <1>8 DEF MarkCancelled, Write, Rest
  <2> QED
    BY <2>1, <2>2, OneRowNoStart
<1> QED
  BY <1>3, <1>4, <1>5, <1>6, <1>7, <1>8 DEF RunnerStep

LEMMA UserStepMoves ==
  ASSUME IInv, NEW j \in Jobs, UserStep(j), NEW i \in Jobs
  PROVE  RowStep(job[i], job'[i], starts[i], starts'[i], now)
<1> DEFINE r == job[j]
<1>1. r \in Row /\ now \in Nat /\ RowInv(r, now)
  BY DEF IInv, TypeOK, RowsInv
<1>2. CASE CreateJob(j)
  <2>1. /\ CreatedRow(now).state = "pending" /\ CreatedRow(now).started = None
        /\ CreatedRow(now).searches = 0
    BY DEF CreatedRow, NoRow
  <2>2. job' = [job EXCEPT ![j] = CreatedRow(now)] /\ starts' = starts
        /\ r.state = "absent"
    BY <1>2 DEF CreateJob, Write, Rest
  <2>3. r.started = None /\ r.searches = 0
    BY <1>1, <2>2 DEF RowInv
  <2>4. RowStep(r, CreatedRow(now), starts[j], starts[j], now)
    BY <2>1, <2>2, <2>3 DEF RowStep
  <2> QED
    BY <2>2, <2>4, OneRowNoStart
<1>3. CASE RequestCancel(j)
  <2> DEFINE q == CancelRequestedRow(r, now)
  <2>1. job' = [job EXCEPT ![j] = q] /\ starts' = starts
    BY <1>3 DEF RequestCancel, Write, Rest
  <2>2. r.state \in {"pending", "dispatched", "running"}
    BY <1>3 DEF RequestCancel
  <2>3. q.started = r.started /\ q.searches = r.searches
    BY <1>1 DEF CancelRequestedRow, Row
  <2>4. q.state = IF r.state = "pending" THEN "cancelled" ELSE "cancel_requested"
    BY <1>1 DEF CancelRequestedRow, Row
  <2> HIDE DEF q
  <2>5. RowStep(r, q, starts[j], starts[j], now)
    BY <1>1, <2>2, <2>3, <2>4 DEF RowStep, Row
  <2> QED
    BY <2>1, <2>5, OneRowNoStart
<1> QED
  BY <1>2, <1>3 DEF UserStep

LEMMA ClaimStepMoves ==
  ASSUME IInv, NEW j \in Jobs, ClaimNext(j), NEW i \in Jobs
  PROVE  RowStep(job[i], job'[i], starts[i], starts'[i], now)
<1>1. job[j] \in Row /\ now \in Nat /\ job[j].state = "pending"
  BY DEF ClaimNext, IInv, TypeOK
<1>2. RowStep(job[j], ClaimedRow(job[j], now), starts[j], starts[j], now)
  BY <1>1, RowFacts DEF RowStep, Row
<1>3. job' = [job EXCEPT ![j] = ClaimedRow(job[j], now)] /\ starts' = starts
  BY DEF ClaimNext, Write, Rest
<1> QED
  BY <1>2, <1>3, OneRowNoStart

LEMMA ReconcileDispatchMoves ==
  ASSUME IInv, NEW d \in dispatchList, NEW status,
         ReconcileExpiredDispatch(d, status), NEW i \in Jobs
  PROVE  RowStep(job[i], job'[i], starts[i], starts'[i], now)
<1> DEFINE j == d.id
           r == job[j]
           row == DispatchReconciledRow(r, DispatchAction(d, status), now)
<1>1. j \in Jobs /\ r \in Row /\ now \in Nat
  BY DEF IInv, TypeOK, ExpiredDispatch
<1>2. r.state \in {"dispatched", "cancel_requested"}
  BY DEF ReconcileExpiredDispatch, DispatchStillMatches
<1>3. job' = [job EXCEPT ![j] = row] /\ starts' = starts
  BY DEF ReconcileExpiredDispatch, Write, WriteSilently, Rest
<1>4. \/ row = RenewedRow(r, now)
      \/ r.state = "cancel_requested" /\ row = CancelledRow(r, now)
      \/ r.state = "dispatched" /\ row = DispatchRequeuedRow(r, now)
      \/ r.state = "dispatched" /\ row = FailedRow(r, now)
  BY <1>2 DEF DispatchReconciledRow
<1> HIDE DEF row
<1>5. RowStep(r, row, starts[j], starts[j], now)
  BY <1>1, <1>2, <1>4, RowFacts, FinishedRowFacts
     DEF RowStep, Row, Active, ActiveStates
<1> QED
  BY <1>1, <1>3, <1>5, OneRowNoStart

LEMMA ReconcileStaleMoves ==
  ASSUME IInv, NEW s \in staleList, ReconcileStaleRunner(s), NEW i \in Jobs
  PROVE  RowStep(job[i], job'[i], starts[i], starts'[i], now)
<1> DEFINE j == s.id
           r == job[j]
           row == StaleReconciledRow(r, StaleAction(s), now)
<1>1. j \in Jobs /\ r \in Row /\ now \in Nat /\ s.updated \in Nat
  BY DEF IInv, TypeOK, StaleRunner
<1>2. r.state \in {"running", "cancel_requested"} /\ r.updated <= s.updated
  BY DEF ReconcileStaleRunner, RunnerStillMatches
<1>3. r.updated <= now - StaleSeconds
  <2>1. s.updated <= now - StaleSeconds
    BY DEF IInv, ListInv
  <2> QED
    BY <1>1, <1>2, <2>1 DEF Row
<1>4. job' = [job EXCEPT ![j] = row] /\ starts' = starts
  BY DEF ReconcileStaleRunner, Write, Rest
<1>5. \/ row = CancelledRow(r, now)
      \/ r.state = "running" /\ row = RunnerRequeuedRow(r, now)
      \/ r.state = "running" /\ row = FailedRow(r, now)
  BY <1>2 DEF StaleReconciledRow
<1> HIDE DEF row
<1>6. RowStep(r, row, starts[j], starts[j], now)
  BY <1>1, <1>2, <1>3, <1>5, RowFacts, FinishedRowFacts DEF RowStep, Row
<1> QED
  BY <1>1, <1>4, <1>6, OneRowNoStart

LEMMA EveryStepMoves ==
  ASSUME IInv, [Next]_vars, NEW i \in Jobs
  PROVE  RowStep(job[i], job'[i], starts[i], starts'[i], now)
<1>1. CASE Tick \/ UNCHANGED vars \/ \E j \in Jobs : ListStep(j)
  BY <1>1 DEF Tick, vars, ListStep, ListExpiredDispatch, ListStaleRunner, RowStep
<1>2. ASSUME NEW j \in Jobs, UserStep(j)
      PROVE  RowStep(job[i], job'[i], starts[i], starts'[i], now)
  BY <1>2, UserStepMoves
<1>3. ASSUME NEW j \in Jobs, ClaimNext(j)
      PROVE  RowStep(job[i], job'[i], starts[i], starts'[i], now)
  BY <1>3, ClaimStepMoves
<1>4. ASSUME NEW j \in Jobs, NEW t \in IssuedTokens(j), RunnerStep(j, t)
      PROVE  RowStep(job[i], job'[i], starts[i], starts'[i], now)
  BY <1>4, RunnerStepMoves
<1>5. ASSUME NEW d \in dispatchList, NEW status, ReconcileExpiredDispatch(d, status)
      PROVE  RowStep(job[i], job'[i], starts[i], starts'[i], now)
  BY <1>5, ReconcileDispatchMoves
<1>6. ASSUME NEW s \in staleList, ReconcileStaleRunner(s)
      PROVE  RowStep(job[i], job'[i], starts[i], starts'[i], now)
  BY <1>6, ReconcileStaleMoves
<1> QED
  BY <1>1, <1>2, <1>3, <1>4, <1>5, <1>6 DEF Next

------------------------------------------------------------------------------
(* Theorems. *)

\* The inductive invariant holds in every reachable state.
THEOREM Invariant == Spec => []IInv
BY InitInv, NextInv, PTL DEF Spec

\* Every variable keeps its type.
THEOREM TypeCorrect == Spec => []TypeOK
<1>1. IInv => TypeOK
  BY DEF IInv
<1> QED
  BY <1>1, Invariant, PTL

\* An active job is always in reach of exactly one recovery query.
THEOREM RecoveryCovered == Spec => []RecoveryCoverage
<1>1. IInv => RecoveryCoverage
  BY DEF IInv, RowsInv, RowInv, RecoveryCoverage, WatchedByDispatch, WatchedByStale,
         Active, ActiveStates
<1> QED
  BY <1>1, Invariant, PTL

\* Only the credential of the latest claim of an active job is accepted.
THEOREM TokenFenced == Spec => []TokenFence
<1>1. IInv => TokenFence
  BY DEF IInv, RowsInv, RowInv, TokenFence
<1> QED
  BY <1>1, Invariant, PTL

\* The outcome columns agree with the state.
THEOREM OutcomesAgree == Spec => []OutcomeConsistent
<1>1. IInv => OutcomeConsistent
  BY DEF IInv, RowsInv, RowInv, OutcomeConsistent
<1> QED
  BY <1>1, Invariant, PTL

\* A job is started at most RUNNER_MAX_ATTEMPTS times.
THEOREM StartsBounded == Spec => []StartBudget
<1>1. IInv => StartBudget
  BY DEF IInv, StartInv, StartsOK, StartBudget
<1> QED
  BY <1>1, Invariant, PTL

\* A terminal job never changes again.
THEOREM TerminalFinal == Spec => TerminalIsFinal
<1>1. IInv /\ [Next]_vars
        => [\A j \in Jobs : Terminal(job[j]) => job'[j] = job[j]]_job
  BY EveryStepMoves DEF RowStep, Active, Terminal, ActiveStates, TerminalStates
<1> QED
  BY <1>1, Invariant, PTL DEF Spec, TerminalIsFinal

\* An accepted cancel can only end in "cancelled".
THEOREM CancelFinal == Spec => CancelWins
<1>1. IInv /\ [Next]_vars
        => [\A j \in Jobs : job[j].state = "cancel_requested"
              => job'[j].state \in {"cancel_requested", "cancelled"}]_job
  BY EveryStepMoves DEF RowStep
<1> QED
  BY <1>1, Invariant, PTL DEF Spec, CancelWins

\* A runner that was heard of within RUNNER_STALE_SECONDS keeps its job.
THEOREM HeartbeatSaves == Spec => OnlySilentRunnersRequeued
<1>1. IInv /\ [Next]_vars
        => [\A j \in Jobs : job[j].state = "running" /\ job'[j].state = "pending"
              => job[j].updated <= now - StaleSeconds]_job
  BY EveryStepMoves DEF RowStep
<1> QED
  BY <1>1, Invariant, PTL DEF Spec, OnlySilentRunnersRequeued

\* Until a completion reports its own usage, the query counter stays within the
\* budget and no step lowers it (consume_usage and the requeues keep usage).
THEOREM QueriesBounded == Spec => QueryAllowance
<1>1. IInv /\ [Next]_vars
        => [\A j \in Jobs : job'[j].state # "succeeded"
              => job'[j].searches \in job[j].searches .. MaxQueries]_job
  <2> SUFFICES ASSUME IInv, [Next]_vars, NEW j \in Jobs, job'[j].state # "succeeded"
               PROVE  job'[j].searches \in job[j].searches .. MaxQueries
    OBVIOUS
  <2>1. IInv'
    BY NextInv
  <2>2. job'[j].searches <= MaxQueries
    BY <2>1 DEF IInv, RowsInv, RowInv
  <2>3. RowStep(job[j], job'[j], starts[j], starts'[j], now)
    BY EveryStepMoves
  <2>4. job[j].searches \in Nat /\ job'[j].searches \in Nat
    BY <2>1 DEF IInv, TypeOK, Row
  <2> QED
    BY <2>2, <2>3, <2>4, ConfigAssumption DEF RowStep
<1> QED
  BY <1>1, Invariant, PTL DEF Spec, QueryAllowance

------------------------------------------------------------------------------
(* Refinement: JobLifecycle moves one job at a time, as the table does. *)

LEMMA OneJobMoves ==
  ASSUME IInv, [Next]_vars
  PROVE  \/ job' = job /\ starts' = starts
         \/ \E j \in Jobs : /\ job' = [job EXCEPT ![j] = job'[j]]
                            /\ starts' = [starts EXCEPT ![j] = starts'[j]]
<1>1. CASE Tick \/ UNCHANGED vars \/ \E j \in Jobs : ListStep(j)
  BY <1>1 DEF Tick, vars, ListStep, ListExpiredDispatch, ListStaleRunner
<1>2. ASSUME NEW j \in Jobs, NEW row, job' = [job EXCEPT ![j] = row],
             starts' = starts \/ starts' = [starts EXCEPT ![j] = @ + 1]
      PROVE  /\ job' = [job EXCEPT ![j] = job'[j]]
             /\ starts' = [starts EXCEPT ![j] = starts'[j]]
  BY <1>2 DEF IInv, TypeOK
<1>3. ASSUME NEW j \in Jobs, UserStep(j) \/ ClaimNext(j)
      PROVE  \E row : job' = [job EXCEPT ![j] = row] /\ starts' = starts
  BY <1>3 DEF UserStep, CreateJob, RequestCancel, ClaimNext, Write, Rest
<1>4. ASSUME NEW j \in Jobs, NEW t, RunnerStep(j, t)
      PROVE  \E row : /\ job' = [job EXCEPT ![j] = row]
                      /\ starts' = starts \/ starts' = [starts EXCEPT ![j] = @ + 1]
  BY <1>4 DEF RunnerStep, MarkStarted, AppendRunnerEvent, Heartbeat, ConsumeUsage,
              PublicSearch, MarkCompleted, MarkFailed, MarkCancelled,
              Write, WriteSilently, Rest
<1>5. ASSUME NEW d \in dispatchList, NEW status, ReconcileExpiredDispatch(d, status)
      PROVE  d.id \in Jobs /\ \E row : job' = [job EXCEPT ![d.id] = row] /\ starts' = starts
  BY <1>5 DEF ReconcileExpiredDispatch, Write, WriteSilently, Rest, IInv, TypeOK,
              ExpiredDispatch
<1>6. ASSUME NEW s \in staleList, ReconcileStaleRunner(s)
      PROVE  s.id \in Jobs /\ \E row : job' = [job EXCEPT ![s.id] = row] /\ starts' = starts
  BY <1>6 DEF ReconcileStaleRunner, Write, Rest, IInv, TypeOK, StaleRunner
<1>7. CASE \E j \in Jobs : UserStep(j) \/ ClaimNext(j)
  BY <1>2, <1>3, <1>7
<1>8. CASE \E j \in Jobs : \E t \in IssuedTokens(j) : RunnerStep(j, t)
  BY <1>2, <1>4, <1>8
<1>9. CASE \E d \in dispatchList, status \in {"active", "missing", "exited"} :
             ReconcileExpiredDispatch(d, status)
  BY <1>2, <1>5, <1>9
<1>10. CASE \E s \in staleList : ReconcileStaleRunner(s)
  BY <1>2, <1>6, <1>10
<1> QED
  BY <1>1, <1>7, <1>8, <1>9, <1>10 DEF Next

\* How JobPhase and JobBegun follow a row.
LEMMA PhaseMoves ==
  ASSUME IInv, NEW j \in Jobs, job' = [job EXCEPT ![j] = job'[j]]
  PROVE  /\ JobPhase' = [JobPhase EXCEPT ![j] = PhaseOf(job'[j].state)]
         /\ JobBegun' = [JobBegun EXCEPT ![j] = job'[j].started # None]
         /\ JobPhase[j] = PhaseOf(job[j].state)
         /\ JobBegun[j] = (job[j].started # None)
<1>1. \A i \in Jobs : i # j => job'[i] = job[i]
  BY DEF IInv, TypeOK
<1>2. JobPhase' = [JobPhase EXCEPT ![j] = PhaseOf(job'[j].state)]
  BY <1>1 DEF JobPhase
<1>3. JobBegun' = [JobBegun EXCEPT ![j] = job'[j].started # None]
  BY <1>1 DEF JobBegun
<1> QED
  BY <1>2, <1>3 DEF JobPhase, JobBegun

\* A step of the table is a step of JobLifecycle or leaves it unchanged.
LEMMA AbstractStep ==
  ASSUME IInv, [Next]_vars
  PROVE  [Lifecycle!Next]_(Lifecycle!lvars)
<1>1. CASE job' = job /\ starts' = starts
  BY <1>1 DEF Lifecycle!lvars, JobPhase, JobBegun
<1>2. ASSUME NEW j \in Jobs, job' = [job EXCEPT ![j] = job'[j]],
             starts' = [starts EXCEPT ![j] = starts'[j]]
      PROVE  [Lifecycle!Next]_(Lifecycle!lvars)
  <2> DEFINE r == job[j]
             q == job'[j]
  <2>1. RowStep(r, q, starts[j], starts'[j], now)
    BY EveryStepMoves
  <2>2. IInv'
    BY NextInv
  <2>3. /\ RowInv(r, now) /\ RowInv(q, now') /\ starts[j] \in Nat
        /\ StartsOK(r, starts[j])
    BY <2>2 DEF IInv, TypeOK, RowsInv, StartInv
  <2>4. /\ JobPhase' = [JobPhase EXCEPT ![j] = PhaseOf(q.state)]
        /\ JobBegun' = [JobBegun EXCEPT ![j] = q.started # None]
        /\ JobPhase[j] = PhaseOf(r.state)
        /\ JobBegun[j] = (r.started # None)
    BY <1>2, PhaseMoves
  <2>5. PhaseOf(q.state) = PhaseOf(r.state) => JobPhase' = JobPhase
    BY <2>4 DEF JobPhase
  <2>6. q.started = r.started => JobBegun' = JobBegun
    BY <2>4 DEF JobBegun
  <2>7. starts'[j] = starts[j] => starts' = starts
    BY <1>2 DEF IInv, TypeOK
  <2> HIDE DEF r, q
  <2>8. CASE q = r /\ starts'[j] = starts[j]
    BY <2>5, <2>6, <2>7, <2>8 DEF Lifecycle!lvars
  <2>9. ASSUME q.started = r.started, starts'[j] = starts[j],
               NEW x, NEW y, PhaseOf(r.state) = x, PhaseOf(q.state) = y
        PROVE  Lifecycle!Move(j, x, y) /\ UNCHANGED <<JobBegun, starts>>
    BY <2>4, <2>6, <2>7, <2>9 DEF Lifecycle!Move
  <2>10. CASE q.started = r.started /\ starts'[j] = starts[j] /\ r.state = "absent"
              /\ q.state = "pending"
    BY <2>9, <2>10 DEF PhaseOf, ActiveStates, Lifecycle!Next, Lifecycle!Submit
  <2>11. CASE q.started = r.started /\ starts'[j] = starts[j] /\ r.state = "pending"
              /\ q.state \in {"dispatched", "cancelled"}
    BY <2>9, <2>11 DEF PhaseOf, Lifecycle!Next, Lifecycle!Assign, Lifecycle!Cancel
  <2>12. CASE q.started = r.started /\ starts'[j] = starts[j] /\ q.state = r.state
    BY <2>5, <2>6, <2>7, <2>12 DEF Lifecycle!lvars
  <2>13. CASE q.started = r.started /\ starts'[j] = starts[j] /\ r.state = "dispatched"
              /\ q.state = "pending"
    <3>1. Lifecycle!Move(j, "assigned", "queued") /\ starts' = starts
      BY <2>9, <2>13, <2>7 DEF PhaseOf
    <3>2. q.started = None
      BY <2>3, <2>13 DEF RowInv
    <3> QED
      BY <1>2, <2>4, <3>1, <3>2 DEF Lifecycle!Next, Lifecycle!GiveBack
  <2>14. CASE q.started = r.started /\ starts'[j] = starts[j]
              /\ r.state \in {"dispatched", "running"}
              /\ q.state \in {"cancel_requested", "failed"}
    BY <2>9, <2>14 DEF PhaseOf, Lifecycle!Next, Lifecycle!AskToStop, Lifecycle!Fail
  <2>15. CASE q.started = r.started /\ starts'[j] = starts[j] /\ r.state = "running"
              /\ q.state \in {"succeeded", "cancelled"}
    <3>1. JobBegun[j]
      BY <2>3, <2>4, <2>15 DEF RowInv
    <3> QED
      BY <2>9, <2>15, <3>1
         DEF PhaseOf, Lifecycle!Next, Lifecycle!Succeed, Lifecycle!Cancel
  <2>16. CASE q.started = r.started /\ starts'[j] = starts[j]
              /\ r.state = "cancel_requested" /\ q.state = "cancelled"
    BY <2>9, <2>16 DEF PhaseOf, Lifecycle!Next, Lifecycle!Cancel
  <2>17. CASE r.state = "dispatched" /\ q.state = "running" /\ q.started # None
              /\ starts'[j] = starts[j] + 1
    <3>1. JobPhase[j] = "assigned" /\ JobPhase' = JobPhase
      BY <2>4, <2>5, <2>17 DEF PhaseOf
    <3>2. ~JobBegun[j] /\ JobBegun' = [JobBegun EXCEPT ![j] = TRUE]
      BY <2>3, <2>4, <2>17 DEF RowInv
    <3>3. starts[j] < RunnerMaxAttempts /\ starts' = [starts EXCEPT ![j] = starts[j] + 1]
      BY <1>2, <2>3, <2>17 DEF StartsOK
    <3> QED
      BY <3>1, <3>2, <3>3 DEF Lifecycle!Next, Lifecycle!Begin
  <2>18. CASE r.state = "running" /\ q.state = "pending" /\ q.started = None
              /\ starts'[j] = starts[j]
    <3>1. Lifecycle!Move(j, "assigned", "queued") /\ starts' = starts
      BY <2>4, <2>7, <2>18 DEF PhaseOf, Lifecycle!Move
    <3> QED
      BY <2>4, <2>18, <3>1 DEF Lifecycle!Next, Lifecycle!GiveBack
  <2> QED
    BY <2>1, <2>8, <2>10, <2>11, <2>12, <2>13, <2>14, <2>15, <2>16, <2>17, <2>18
       DEF RowStep
<1> QED
  BY <1>1, <1>2, OneJobMoves

\* The job table implements the life cycle promised to the user.
THEOREM LifecycleImplemented == Spec => ImplementsLifecycle
<1>1. Init => Lifecycle!Init
  <2>1. NoRow.state = "absent" /\ NoRow.started = None
    BY DEF NoRow
  <2>2. PhaseOf("absent") = "none"
    BY DEF PhaseOf
  <2>3. Init => \A j \in Jobs : job[j] = NoRow
    BY DEF Init
  <2>4. Init => JobPhase = [j \in Jobs |-> "none"]
    BY <2>1, <2>2, <2>3 DEF JobPhase
  <2>5. Init => JobBegun = [j \in Jobs |-> FALSE]
    BY <2>1, <2>3 DEF JobBegun
  <2> QED
    BY <2>4, <2>5 DEF Init, Lifecycle!Init
<1>2. IInv /\ [Next]_vars => [Lifecycle!Next]_(Lifecycle!lvars)
  BY AbstractStep
<1> QED
  BY <1>1, <1>2, Invariant, PTL DEF Spec, ImplementsLifecycle, Lifecycle!Spec

------------------------------------------------------------------------------
(* The event log.  LogOK is what a reader of the log of one job can tell:  *)
(* it is kept because whoever writes an event writes the state the event   *)
(* names, of a job that had not ended.                                     *)

StartsIn(log) == {i \in 1..Len(log) : log[i] = "job.started"}

LogOK(log, state, k) ==
  /\ log = <<>> <=> state = "absent"
  /\ log # <<>> => StateAfter(log[Len(log)]) = state
  /\ \A i \in 1..Len(log) - 1 : StateAfter(log[i]) \notin TerminalStates
  /\ Cardinality(StartsIn(log)) = k

LogInv == \A j \in Jobs : LogOK(events[j], job[j].state, starts[j])

\* What one step may do to one log: r and q are the row before and after.
LogStep(r, q, log, later, k, m) ==
  \/ q.state = r.state /\ later = log /\ m = k
  \/ \E type \in EventTypes :
       /\ later = Append(log, type) /\ q.state = StateAfter(type) /\ ~Terminal(r)
       /\ m = IF type = "job.started" THEN k + 1 ELSE k

\* An appended event is a start or not, and nothing else changes.
LEMMA StartsAppend ==
  ASSUME NEW log \in Seq(EventTypes), NEW type \in EventTypes
  PROVE  /\ IsFiniteSet(StartsIn(log))
         /\ Cardinality(StartsIn(Append(log, type))) =
              IF type = "job.started" THEN Cardinality(StartsIn(log)) + 1
                                      ELSE Cardinality(StartsIn(log))
<1> DEFINE n == Len(log)
           later == Append(log, type)
<1>1. /\ n \in Nat /\ Len(later) = n + 1 /\ later[n + 1] = type
      /\ \A i \in 1..n : later[i] = log[i]
  OBVIOUS
<1>2. IsFiniteSet(StartsIn(log)) /\ Cardinality(StartsIn(log)) \in Nat
  <2>1. IsFiniteSet(1..n)
    BY <1>1, FS_Interval
  <2>2. StartsIn(log) \subseteq 1..n
    BY DEF StartsIn
  <2> QED
    BY <2>1, <2>2, FS_Subset, FS_CardinalityType
<1>3. n + 1 \notin StartsIn(log)
  BY <1>1 DEF StartsIn
<1> HIDE DEF n, later
<1>4. StartsIn(later) = IF type = "job.started" THEN StartsIn(log) \union {n + 1}
                                                 ELSE StartsIn(log)
  <2>1. \A i : i \in 1..Len(later) <=> i \in 1..n \/ i = n + 1
    BY <1>1
  <2> QED
    BY <1>1, <2>1 DEF StartsIn, n
<1>5. Cardinality(StartsIn(log) \union {n + 1}) = Cardinality(StartsIn(log)) + 1
  BY <1>2, <1>3, FS_AddElement
<1> QED
  BY <1>2, <1>4, <1>5 DEF later

LEMMA LogGrows ==
  ASSUME NEW log \in Seq(EventTypes), NEW later, NEW r, NEW q, NEW k, NEW m,
         LogOK(log, r.state, k), LogStep(r, q, log, later, k, m)
  PROVE  LogOK(later, q.state, m)
<1>1. CASE q.state = r.state /\ later = log /\ m = k
  BY <1>1
<1>2. ASSUME NEW type \in EventTypes,
             later = Append(log, type), q.state = StateAfter(type), ~Terminal(r),
             m = IF type = "job.started" THEN k + 1 ELSE k
      PROVE  LogOK(later, q.state, m)
  <2>1. /\ Len(log) \in Nat /\ Len(later) = Len(log) + 1 /\ later[Len(later)] = type
        /\ \A i \in 1..Len(log) : later[i] = log[i]
        /\ later # <<>>
    BY <1>2
  <2>2. q.state # "absent"
    BY <1>2 DEF StateAfter, EventTypes
  <2>3. ASSUME NEW i \in 1..Len(later) - 1 PROVE StateAfter(later[i]) \notin TerminalStates
    <3>1. i \in 1..Len(log) /\ later[i] = log[i]
      BY <2>1
    <3>2. CASE i = Len(log)
      <4>1. StateAfter(log[i]) = r.state
        BY <2>1, <3>1, <3>2 DEF LogOK
      <4> QED
        BY <1>2, <3>1, <4>1 DEF Terminal
    <3>3. CASE i # Len(log)
      <4>1. i \in 1..Len(log) - 1
        BY <2>1, <3>1, <3>3
      <4> QED
        BY <3>1, <4>1 DEF LogOK
    <3> QED
      BY <3>2, <3>3
  <2>4. Cardinality(StartsIn(later)) = m
    BY <1>2, StartsAppend DEF LogOK
  <2>5. StateAfter(later[Len(later)]) = q.state
    BY <1>2, <2>1
  <2> QED
    BY <2>1, <2>2, <2>3, <2>4, <2>5 DEF LogOK
<1> QED
  BY <1>1, <1>2 DEF LogStep

\* A transaction on j that writes an event.
LEMMA OneEvent ==
  ASSUME IInv, NEW j \in Jobs, NEW row, NEW type \in EventTypes,
         Write(j, row, type), row.state = StateAfter(type), ~Terminal(job[j]),
         starts' = [starts EXCEPT ![j] = IF type = "job.started" THEN @ + 1 ELSE @],
         NEW i \in Jobs
  PROVE  LogStep(job[i], job'[i], events[i], events'[i], starts[i], starts'[i])
<1>1. /\ job' = [job EXCEPT ![j] = row] /\ events' = [events EXCEPT ![j] = Append(@, type)]
      /\ job \in [Jobs -> Row] /\ events \in [Jobs -> Seq(EventTypes)]
      /\ starts \in [Jobs -> Nat]
  BY DEF Write, IInv, TypeOK
<1>2. CASE i = j
  <2>1. /\ job'[i] = row /\ events'[i] = Append(events[i], type)
        /\ starts'[i] = IF type = "job.started" THEN starts[i] + 1 ELSE starts[i]
    BY <1>1, <1>2
  <2> QED
    BY <1>2, <2>1 DEF LogStep
<1>3. CASE i # j
  BY <1>1, <1>3 DEF LogStep
<1> QED
  BY <1>2, <1>3

\* One that starts nothing, and one that writes no event.
LEMMA OneOtherEvent ==
  ASSUME IInv, NEW j \in Jobs, NEW row, NEW type \in EventTypes, type # "job.started",
         Write(j, row, type), row.state = StateAfter(type), ~Terminal(job[j]),
         UNCHANGED Rest, NEW i \in Jobs
  PROVE  LogStep(job[i], job'[i], events[i], events'[i], starts[i], starts'[i])
<1>1. starts' = [starts EXCEPT ![j] = IF type = "job.started" THEN @ + 1 ELSE @]
  BY DEF Rest, IInv, TypeOK
<1> QED
  BY <1>1, OneEvent

LEMMA NoEvent ==
  ASSUME IInv, NEW j \in Jobs, NEW row, WriteSilently(j, row), row.state = job[j].state,
         UNCHANGED Rest, NEW i \in Jobs
  PROVE  LogStep(job[i], job'[i], events[i], events'[i], starts[i], starts'[i])
<1>1. job' = [job EXCEPT ![j] = row] /\ job \in [Jobs -> Row] /\ events' = events
      /\ starts' = starts
  BY DEF WriteSilently, Rest, IInv, TypeOK
<1>2. job'[i].state = job[i].state
  BY <1>1
<1> QED
  BY <1>1, <1>2 DEF LogStep

LEMMA RunnerStepLogs ==
  ASSUME IInv, NEW j \in Jobs, NEW t, RunnerStep(j, t), NEW i \in Jobs
  PROVE  LogStep(job[i], job'[i], events[i], events'[i], starts[i], starts'[i])
<1> DEFINE r == job[j]
<1>1. r \in Row /\ now \in Nat /\ RowInv(r, now)
  BY DEF IInv, TypeOK, RowsInv
<1>2. Active(r) /\ ~Terminal(r)
  BY <1>1 DEF RunnerStep, MarkStarted, AppendRunnerEvent, Heartbeat, ConsumeUsage,
              PublicSearch, MarkCompleted, MarkFailed, MarkCancelled, HoldsToken, RowInv,
              Active, Terminal, ActiveStates, TerminalStates
<1>3. CASE MarkStarted(j, t)
  <2>1. StartedRow(r, now).state = StateAfter("job.started") /\ "job.started" \in EventTypes
    BY <1>1 DEF StartedRow, Row, StateAfter, EventTypes
  <2>2. Write(j, StartedRow(r, now), "job.started") /\ starts' = [starts EXCEPT ![j] = @ + 1]
    BY <1>3 DEF MarkStarted
  <2> QED
    BY <1>2, <2>1, <2>2, OneEvent
<1>4. CASE AppendRunnerEvent(j, t) \/ Heartbeat(j, t) \/ ConsumeUsage(j, t)
  <2>1. WriteSilently(j, TouchedRow(r, now)) /\ UNCHANGED Rest
    BY <1>4 DEF AppendRunnerEvent, Heartbeat, ConsumeUsage
  <2> QED
    BY <1>1, <2>1, RowFacts, NoEvent
<1>5. /\ FailedRow(r, now).state = StateAfter("job.failed")
      /\ CancelledRow(r, now).state = StateAfter("job.cancelled")
      /\ \A u \in NullOrNat : SucceededRow(r, u, now).state = StateAfter("job.succeeded")
      /\ {"job.failed", "job.cancelled", "job.succeeded"} \subseteq EventTypes
  BY <1>1, FinishedRowFacts DEF StateAfter, EventTypes
<1>6. CASE PublicSearch(j, t)
  <2> DEFINE q == [TouchedRow(r, now) EXCEPT !.searches = @ + 1]
  <2>1. CASE WriteSilently(j, q)
    <3>1. q.state = r.state /\ UNCHANGED Rest
      BY <1>1, <1>6 DEF TouchedRow, Row, PublicSearch
    <3> HIDE DEF q
    <3> QED
      BY <2>1, <3>1, NoEvent
  <2>2. CASE Write(j, FailedRow(r, now), "job.failed")
    <3>1. UNCHANGED Rest
      BY <1>6 DEF PublicSearch
    <3> QED
      BY <1>2, <1>5, <2>2, <3>1, OneOtherEvent
  <2> QED
    BY <1>6, <2>1, <2>2 DEF PublicSearch
<1>7. CASE MarkCompleted(j, t)
  <2>1. PICK u \in NullOrNat : Write(j, SucceededRow(r, u, now), "job.succeeded") /\ UNCHANGED Rest
    BY <1>7, ReportAssumption DEF MarkCompleted, NullOrNat
  <2> QED
    BY <1>2, <1>5, <2>1, OneOtherEvent
<1>8. CASE MarkFailed(j, t)
  <2>1. Write(j, FailedRow(r, now), "job.failed") /\ UNCHANGED Rest
    BY <1>8 DEF MarkFailed
  <2> QED
    BY <1>2, <1>5, <2>1, OneOtherEvent
<1>9. CASE MarkCancelled(j, t)
  <2>1. Write(j, CancelledRow(r, now), "job.cancelled") /\ UNCHANGED Rest
    BY <1>9 DEF MarkCancelled
  <2> QED
    BY <1>2, <1>5, <2>1, OneOtherEvent
<1> QED
  BY <1>3, <1>4, <1>6, <1>7, <1>8, <1>9 DEF RunnerStep

LEMMA UserStepLogs ==
  ASSUME IInv, NEW j \in Jobs, UserStep(j), NEW i \in Jobs
  PROVE  LogStep(job[i], job'[i], events[i], events'[i], starts[i], starts'[i])
<1> DEFINE r == job[j]
<1>1. r \in Row
  BY DEF IInv, TypeOK
<1>2. CASE CreateJob(j)
  <2>1. /\ Write(j, CreatedRow(now), "job.created") /\ UNCHANGED Rest
        /\ ~Terminal(r) /\ "job.created" \in EventTypes
    BY <1>2 DEF CreateJob, Terminal, TerminalStates, EventTypes
  <2>2. CreatedRow(now).state = StateAfter("job.created")
    BY DEF CreatedRow, NoRow, StateAfter
  <2> QED
    BY <2>1, <2>2, OneOtherEvent
<1>3. CASE RequestCancel(j)
  <2> DEFINE q == CancelRequestedRow(r, now)
             type == IF r.state = "pending" THEN "job.cancelled" ELSE "job.cancel_requested"
  <2>1. /\ Write(j, q, type) /\ UNCHANGED Rest /\ ~Terminal(r)
        /\ type \in EventTypes /\ type # "job.started"
    BY <1>3 DEF RequestCancel, Terminal, TerminalStates, EventTypes
  <2>2. q.state = StateAfter(type)
    BY <1>1 DEF CancelRequestedRow, Row, StateAfter
  <2> HIDE DEF q, type
  <2> QED
    BY <2>1, <2>2, OneOtherEvent
<1> QED
  BY <1>2, <1>3 DEF UserStep

LEMMA ReconcileDispatchLogs ==
  ASSUME IInv, NEW d \in dispatchList, NEW status,
         ReconcileExpiredDispatch(d, status), NEW i \in Jobs
  PROVE  LogStep(job[i], job'[i], events[i], events'[i], starts[i], starts'[i])
<1> DEFINE j == d.id
           r == job[j]
           action == DispatchAction(d, status)
           row == DispatchReconciledRow(r, action, now)
           type == DispatchEvent(r, action)
<1>1. j \in Jobs /\ r \in Row /\ now \in Nat
  BY DEF IInv, TypeOK, ExpiredDispatch
<1>2. /\ r.state \in {"dispatched", "cancel_requested"} /\ UNCHANGED Rest
      /\ \/ action = "renew" /\ WriteSilently(j, row)
         \/ action # "renew" /\ Write(j, row, type)
  BY DEF ReconcileExpiredDispatch, DispatchStillMatches
<1>3. ~Terminal(r)
  BY <1>2 DEF Terminal, TerminalStates
<1>4. action = "renew" => row.state = r.state
  BY <1>1, RowFacts DEF DispatchReconciledRow
<1>5. /\ type \in EventTypes /\ type # "job.started"
      /\ action # "renew" => row.state = StateAfter(type)
  BY <1>1, RowFacts, FinishedRowFacts
     DEF DispatchReconciledRow, DispatchEvent, StateAfter, EventTypes
<1> HIDE DEF row, type, action
<1> QED
  BY <1>1, <1>2, <1>3, <1>4, <1>5, NoEvent, OneOtherEvent

LEMMA ReconcileStaleLogs ==
  ASSUME IInv, NEW s \in staleList, ReconcileStaleRunner(s), NEW i \in Jobs
  PROVE  LogStep(job[i], job'[i], events[i], events'[i], starts[i], starts'[i])
<1> DEFINE j == s.id
           r == job[j]
           row == StaleReconciledRow(r, StaleAction(s), now)
           type == StaleEvent(row)
<1>1. j \in Jobs /\ r \in Row /\ now \in Nat
  BY DEF IInv, TypeOK, StaleRunner
<1>2. /\ r.state \in {"running", "cancel_requested"} /\ UNCHANGED Rest
      /\ Write(j, row, type)
  BY DEF ReconcileStaleRunner, RunnerStillMatches
<1>3. ~Terminal(r)
  BY <1>2 DEF Terminal, TerminalStates
<1>4. row.state \in {"cancelled", "pending", "failed"}
  BY <1>1, RowFacts, FinishedRowFacts DEF StaleReconciledRow
<1> HIDE DEF row
<1>5. type \in EventTypes /\ type # "job.started" /\ row.state = StateAfter(type)
  BY <1>4 DEF StaleEvent, StateAfter, EventTypes
<1> HIDE DEF type
<1> QED
  BY <1>1, <1>2, <1>3, <1>5, OneOtherEvent

LEMMA EveryStepLogs ==
  ASSUME IInv, [Next]_vars, NEW i \in Jobs
  PROVE  LogStep(job[i], job'[i], events[i], events'[i], starts[i], starts'[i])
<1> DEFINE Step == LogStep(job[i], job'[i], events[i], events'[i], starts[i], starts'[i])
<1>1. CASE Tick \/ UNCHANGED vars \/ \E j \in Jobs : ListStep(j)
  BY <1>1 DEF Tick, vars, ListStep, ListExpiredDispatch, ListStaleRunner, LogStep
<1>2. ASSUME NEW j \in Jobs, UserStep(j) PROVE Step
  BY <1>2, UserStepLogs
<1>3. ASSUME NEW j \in Jobs, ClaimNext(j) PROVE Step
  <2>1. /\ job[j] \in Row /\ now \in Nat /\ ~Terminal(job[j]) /\ UNCHANGED Rest
        /\ Write(j, ClaimedRow(job[j], now), "job.dispatched")
    BY <1>3 DEF ClaimNext, IInv, TypeOK, Terminal, TerminalStates
  <2>2. /\ ClaimedRow(job[j], now).state = StateAfter("job.dispatched")
        /\ "job.dispatched" \in EventTypes
    BY <2>1, RowFacts DEF StateAfter, EventTypes
  <2> QED
    BY <2>1, <2>2, OneOtherEvent
<1>4. ASSUME NEW j \in Jobs, NEW t \in IssuedTokens(j), RunnerStep(j, t) PROVE Step
  BY <1>4, RunnerStepLogs
<1>5. ASSUME NEW d \in dispatchList, NEW status, ReconcileExpiredDispatch(d, status)
      PROVE  Step
  BY <1>5, ReconcileDispatchLogs
<1>6. ASSUME NEW s \in staleList, ReconcileStaleRunner(s) PROVE Step
  BY <1>6, ReconcileStaleLogs
<1> QED
  BY <1>1, <1>2, <1>3, <1>4, <1>5, <1>6 DEF Next

\* A reader of the event log alone ends up with the state of the row
\* (EventLogReplays; the events of every method of JobRepository).
THEOREM LogReplays == Spec => []EventLogReplays
<1>1. Init => LogInv
  <2> SUFFICES ASSUME Init, NEW j \in Jobs PROVE LogOK(events[j], job[j].state, starts[j])
    BY DEF LogInv
  <2>1. events[j] = <<>> /\ job[j].state = "absent" /\ starts[j] = 0
    BY DEF Init, NoRow
  <2>2. StartsIn(<<>>) = {} /\ Cardinality({}) = 0
    BY FS_EmptySet DEF StartsIn
  <2>3. \A i \in 1..Len(<<>>) - 1 : FALSE
    OBVIOUS
  <2> QED
    BY <2>1, <2>2, <2>3 DEF LogOK
<1>2. LogInv /\ IInv /\ [Next]_vars => LogInv'
  <2> SUFFICES ASSUME LogInv, IInv, [Next]_vars, NEW i \in Jobs
               PROVE  LogOK(events'[i], job'[i].state, starts'[i])
    BY DEF LogInv
  <2>1. LogStep(job[i], job'[i], events[i], events'[i], starts[i], starts'[i])
    BY EveryStepLogs
  <2>2. events[i] \in Seq(EventTypes) /\ LogOK(events[i], job[i].state, starts[i])
    BY DEF IInv, TypeOK, LogInv
  <2> QED
    BY <2>1, <2>2, LogGrows
<1>3. LogInv => EventLogReplays
  BY DEF LogInv, LogOK, StartsIn, EventLogReplays
<1> QED
  BY <1>1, <1>2, <1>3, Invariant, PTL DEF Spec

==============================================================================
