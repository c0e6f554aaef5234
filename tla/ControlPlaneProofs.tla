--------------------------- MODULE ControlPlaneProofs ---------------------------
(***************************************************************************)
(* Proofs about controllers, executor and runners, for any jobs, replicas, *)
(* limits and faults.  As long as no leader has lost its session, one      *)
(* controller at a time is past its election (LeaderInv), so that what it  *)
(* inspected, stopped or counted is still so when it acts on it (HandInv). *)
(* Then a tracked live process is always that of its job's last attempt,   *)
(* and its job was not requeued behind its back (ExecutorInv).  Whether    *)
(* leaders keep their sessions or not, jobs go through JobLifecycle.       *)
(***************************************************************************)
EXTENDS ControlPlane, FiniteSetTheorems, TLAPS

\* What a row says about tokens and attempts, in every state.
RowInv(r) ==
  /\ r \in Row
  /\ r.attempt <= MaxClaims
  /\ r.state = "absent" => r.attempt = 0
  /\ IF Active(r) THEN r.token = r.attempt /\ r.attempt > 0 ELSE r.token = None

\* A listed row names an attempt that was made.
EntryInv(d) ==
  /\ d \in ListedRow
  /\ d.attempt > 0 /\ d.attempt <= MaxClaims
  /\ d.attempt <= job[d.id].attempt

RowsInv == job \in [Jobs -> Row] /\ \A j \in Jobs : RowInv(job[j])

\* Lists hold such entries, and a controller handles one at a time.
ListsInv ==
  /\ todo \in [Controllers -> SUBSET ListedRow]
  /\ hand \in [Controllers -> SUBSET HeldRow]
  /\ \A c \in Controllers :
       /\ \A d \in todo[c] : EntryInv(d)
       /\ \A h \in hand[c] : EntryInv(h.row)
       /\ \A g, h \in hand[c] : g = h

PlainTypes ==
  /\ lock \in Controllers \union {NoController}
  /\ pc \in [Controllers -> ControllerStates]
  /\ faults \in [sessions : Nat, others : Nat]

\* There is no process for an attempt that was not made yet.
ProcsInv ==
  /\ executor \in [Runners -> ExecutorStates]
  /\ proc \in [Runners -> ProcStates]
  /\ \A rn \in Runners : rn[2] > RowOf(rn).attempt => proc[rn] = "none" /\ executor[rn] = "none"

DataInv == RowsInv /\ ListsInv /\ PlainTypes /\ ProcsInv

RunnerOf(d) == <<d.id, d.attempt>>

LeaderInv == \A c \in Controllers : pc[c] # "elect" => lock = c

\* What the leader found out and relies on later.
HandInv(c) ==
  /\ pc[c] = "reconcile dispatch" =>
       \A h \in hand[c] : h.action # "renew" => ~Tracked(RunnerOf(h.row))
  /\ pc[c] = "reconcile runner" => \A h \in hand[c] : ~Tracked(RunnerOf(h.row))
  /\ pc[c] = "submit" => \A h \in hand[c] :
       /\ job[h.row.id].attempt = h.row.attempt
       /\ job[h.row.id].state \in {"dispatched", "cancel_requested"}
       /\ proc[RunnerOf(h.row)] = "none"
  /\ pc[c] = "claim" => Cardinality(ActiveJobs) < MaxConcurrentJobs

ExecutorInv ==
  \A rn \in Runners : Tracked(rn) =>
    /\ rn[2] = RowOf(rn).attempt
    /\ RowOf(rn).state \notin {"absent", "pending"}
    /\ RowOf(rn).state = "cancelled" => proc[rn] = "failing"

LimitInv == IsFiniteSet(ActiveJobs) /\ Cardinality(ActiveJobs) <= MaxConcurrentJobs

LeaderFacts == LeaderInv /\ (\A c \in Controllers : HandInv(c)) /\ ExecutorInv /\ LimitInv

IInv == DataInv /\ (faults.sessions = 0 => LeaderFacts)

------------------------------------------------------------------------------
(* Rows. *)

LEMMA NowFacts ==
  /\ Now \in Nat /\ Now - StaleSeconds \in Nat /\ Now - WallTime \in Nat
  /\ LeaseSeconds \in Nat /\ MaxClaims \in Nat /\ MaxConcurrentJobs \in Nat \ {0}
BY ConfigAssumption, ControlAssumption DEF Now

LEMMA EndedRowInv ==
  ASSUME NEW r, RowInv(r)
  PROVE  /\ RowInv(CancelledRow(r, Now)) /\ CancelledRow(r, Now).attempt = r.attempt
         /\ CancelledRow(r, Now).state = "cancelled"
         /\ RowInv(FailedRow(r, Now)) /\ FailedRow(r, Now).attempt = r.attempt
         /\ FailedRow(r, Now).state = "failed"
         /\ RowInv(SucceededRow(r, None, Now)) /\ SucceededRow(r, None, Now).attempt = r.attempt
         /\ SucceededRow(r, None, Now).state = "succeeded"
<1>1. /\ r \in Row /\ Now \in NullOrNat /\ Now \in Nat /\ None \in NullOrNat
      /\ r.attempt \in Nat /\ r.token \in NullOrNat /\ TerminalStates \subseteq JobStates
      /\ {"cancelled", "failed", "succeeded"} \subseteq TerminalStates
  BY NowFacts DEF RowInv, Row, JobStates, NullOrNat, TerminalStates
<1>2. ASSUME NEW q, q \in Row, q.attempt = r.attempt, q.token = None, q.state \in TerminalStates
      PROVE  RowInv(q)
  BY <1>2 DEF RowInv, Active, ActiveStates, TerminalStates
<1>3. LET q == CancelledRow(r, Now)
      IN  q \in Row /\ q.attempt = r.attempt /\ q.state = "cancelled" /\ q.token = None
  BY <1>1 DEF CancelledRow, FinishedRow, Row
<1>4. LET q == FailedRow(r, Now)
      IN  q \in Row /\ q.attempt = r.attempt /\ q.state = "failed" /\ q.token = None
  BY <1>1 DEF FailedRow, FinishedRow, Row
<1>5. LET q == SucceededRow(r, None, Now)
      IN  q \in Row /\ q.attempt = r.attempt /\ q.state = "succeeded" /\ q.token = None
  BY <1>1 DEF SucceededRow, FinishedRow, Row
<1> QED
  BY <1>1, <1>2, <1>3, <1>4, <1>5

\* Rows of a job that lives on.
LEMMA LivingRowInv ==
  ASSUME NEW r, RowInv(r)
  PROVE  /\ LET q == TouchedRow(r, Now)
            IN  RowInv(q) /\ q.attempt = r.attempt /\ q.state = r.state
         /\ LET q == RenewedRow(r, Now)
            IN  RowInv(q) /\ q.attempt = r.attempt /\ q.state = r.state
         /\ LET q == DispatchRequeuedRow(r, Now)
            IN  RowInv(q) /\ q.attempt = r.attempt /\ q.state = "pending"
         /\ LET q == RunnerRequeuedRow(r, Now)
            IN  RowInv(q) /\ q.attempt = r.attempt /\ q.state = "pending"
         /\ LET q == AgedRow(r)
            IN  RowInv(q) /\ q.attempt = r.attempt /\ q.state = r.state
<1>1. /\ r \in Row /\ Now \in NullOrNat /\ Now \in Nat /\ None \in NullOrNat
      /\ Now + LeaseSeconds \in NullOrNat /\ "pending" \in JobStates
      /\ r.attempt \in Nat /\ r.token \in NullOrNat
  BY NowFacts DEF RowInv, Row, JobStates, NullOrNat
<1>2. ASSUME NEW q, q \in Row, q.attempt = r.attempt, q.token = r.token, q.state = r.state
      PROVE  RowInv(q)
  BY <1>2 DEF RowInv, Active
<1>3. ASSUME NEW q, q \in Row, q.attempt = r.attempt, q.token = None, q.state = "pending"
      PROVE  RowInv(q)
  BY <1>3 DEF RowInv, Active, ActiveStates
<1>4. LET q == TouchedRow(r, Now)
      IN  q \in Row /\ q.attempt = r.attempt /\ q.state = r.state /\ q.token = r.token
  BY <1>1 DEF TouchedRow, Row
<1>5. LET q == RenewedRow(r, Now)
      IN  q \in Row /\ q.attempt = r.attempt /\ q.state = r.state /\ q.token = r.token
  BY <1>1 DEF RenewedRow, Row
<1>6. LET q == DispatchRequeuedRow(r, Now)
      IN  q \in Row /\ q.attempt = r.attempt /\ q.state = "pending" /\ q.token = None
  BY <1>1 DEF DispatchRequeuedRow, Row
<1>7. LET q == RunnerRequeuedRow(r, Now)
      IN  q \in Row /\ q.attempt = r.attempt /\ q.state = "pending" /\ q.token = None
  BY <1>1 DEF RunnerRequeuedRow, Row
<1>8. LET q == AgedRow(r)
      IN  q \in Row /\ q.attempt = r.attempt /\ q.state = r.state /\ q.token = r.token
  <2>1. /\ Older(r.created, Now - WallTime) \in Nat
        /\ Older(r.updated, Now - StaleSeconds) \in Nat
        /\ Older(r.lease, Now) \in NullOrNat
    BY <1>1, NowFacts DEF Older, Row, NullOrNat, None
  <2> QED
    BY <1>1, <2>1 DEF AgedRow, Row
<1> QED
  BY <1>2, <1>3, <1>4, <1>5, <1>6, <1>7, <1>8

LEMMA NewRowInv ==
  /\ RowInv(NoRow) /\ NoRow.state = "absent" /\ NoRow.attempt = 0
  /\ RowInv(CreatedRow(Now)) /\ CreatedRow(Now).attempt = 0 /\ CreatedRow(Now).state = "pending"
<1>1. /\ NoRow \in Row /\ NoRow.state = "absent" /\ NoRow.attempt = 0 /\ NoRow.token = None
  BY DEF NoRow, Row, JobStates, NullOrNat
<1>2. LET q == CreatedRow(Now)
      IN  q \in Row /\ q.state = "pending" /\ q.attempt = 0 /\ q.token = None
  BY NowFacts DEF CreatedRow, NoRow, Row, JobStates, NullOrNat
<1> QED
  BY <1>1, <1>2, NowFacts DEF RowInv, Active, ActiveStates

LEMMA ClaimedRowInv ==
  ASSUME NEW r, RowInv(r), r.attempt < MaxClaims
  PROVE  LET q == ClaimedRow(r, Now)
         IN  RowInv(q) /\ q.attempt = r.attempt + 1 /\ q.state = "dispatched"
<1>1. /\ r \in Row /\ r.attempt \in Nat /\ r.attempt + 1 \in NullOrNat /\ r.attempt + 1 \in Nat
      /\ Now + LeaseSeconds \in NullOrNat /\ Now \in Nat /\ "dispatched" \in JobStates
  BY NowFacts DEF RowInv, Row, NullOrNat, JobStates, ActiveStates
<1>2. LET q == ClaimedRow(r, Now)
      IN  q \in Row /\ q.attempt = r.attempt + 1 /\ q.token = r.attempt + 1
            /\ q.state = "dispatched"
  BY <1>1 DEF ClaimedRow, Row
<1> QED
  BY <1>1, <1>2, NowFacts DEF RowInv, Active, ActiveStates

LEMMA StartedRowInv ==
  ASSUME NEW r, RowInv(r), r.state = "dispatched"
  PROVE  LET q == StartedRow(r, Now)
         IN  RowInv(q) /\ q.attempt = r.attempt /\ q.state = "running"
<1>1. /\ r \in Row /\ Now \in NullOrNat /\ Now \in Nat /\ None \in NullOrNat
      /\ "running" \in JobStates
  BY NowFacts DEF RowInv, NullOrNat, JobStates, ActiveStates
<1>2. LET q == StartedRow(r, Now)
      IN  q \in Row /\ q.attempt = r.attempt /\ q.token = r.token /\ q.state = "running"
  BY <1>1 DEF StartedRow, Row
<1> QED
  BY <1>2 DEF RowInv, Active, ActiveStates

LEMMA CancelRequestedRowInv ==
  ASSUME NEW r, RowInv(r), r.state \in {"pending", "dispatched", "running"}
  PROVE  LET q == CancelRequestedRow(r, Now)
         IN  /\ RowInv(q) /\ q.attempt = r.attempt
             /\ q.state = IF r.state = "pending" THEN "cancelled" ELSE "cancel_requested"
<1>1. /\ r \in Row /\ Now \in NullOrNat /\ Now \in Nat /\ None \in NullOrNat
      /\ "cancelled" \in JobStates /\ "cancel_requested" \in JobStates
  BY NowFacts DEF RowInv, NullOrNat, JobStates, ActiveStates, TerminalStates
<1>2. LET q == CancelRequestedRow(r, Now)
      IN  /\ q \in Row /\ q.attempt = r.attempt
          /\ r.state = "pending" => q.token = None /\ q.state = "cancelled"
          /\ r.state # "pending" => q.token = r.token /\ q.state = "cancel_requested"
  BY <1>1 DEF CancelRequestedRow, Row
<1> QED
  BY <1>2 DEF RowInv, Active, ActiveStates

\* The reconcilers requeue or end the job, unless they renew its lease.
LEMMA ReconciledRowInv ==
  ASSUME NEW r, RowInv(r), NEW action
  PROVE  /\ LET q == DispatchReconciledRow(r, action, Now)
            IN  /\ RowInv(q) /\ q.attempt = r.attempt
                /\ IF action = "renew" THEN q.state = r.state
                                       ELSE q.state \in {"pending", "cancelled", "failed"}
         /\ LET q == StaleReconciledRow(r, action, Now)
            IN  RowInv(q) /\ q.attempt = r.attempt /\ q.state \in {"pending", "cancelled", "failed"}
BY EndedRowInv, LivingRowInv DEF DispatchReconciledRow, StaleReconciledRow

------------------------------------------------------------------------------
(* What steps have in common. *)

LEMMA Types ==
  ASSUME DataInv
  PROVE  /\ job \in [Jobs -> Row] /\ \A j \in Jobs : RowInv(job[j]) /\ job[j].attempt \in Nat
         /\ \A rn \in Runners : /\ rn[1] \in Jobs /\ rn[2] \in Nat /\ rn = <<rn[1], rn[2]>>
                                /\ RowInv(RowOf(rn)) /\ RowOf(rn).attempt \in Nat
         /\ \A d : EntryInv(d) => /\ d.id \in Jobs /\ d.attempt \in Nat /\ RunnerOf(d) \in Runners
                                  /\ RunnerOf(d)[1] = d.id /\ RunnerOf(d)[2] = d.attempt
         /\ pc \in [Controllers -> ControllerStates]
         /\ executor \in [Runners -> ExecutorStates] /\ proc \in [Runners -> ProcStates]
         /\ faults \in [sessions : Nat, others : Nat] /\ faults.sessions \in Nat
         /\ todo \in [Controllers -> SUBSET ListedRow] /\ hand \in [Controllers -> SUBSET HeldRow]
<1>1. job \in [Jobs -> Row] /\ \A j \in Jobs : RowInv(job[j]) /\ job[j].attempt \in Nat
  BY DEF DataInv, RowsInv, RowInv, Row
<1>2. \A rn \in Runners : /\ rn[1] \in Jobs /\ rn[2] \in Nat /\ rn = <<rn[1], rn[2]>>
                          /\ RowInv(RowOf(rn)) /\ RowOf(rn).attempt \in Nat
  BY <1>1, NowFacts DEF Runners, RowOf
<1>3. \A d : EntryInv(d) => /\ d.id \in Jobs /\ d.attempt \in Nat /\ RunnerOf(d) \in Runners
                            /\ RunnerOf(d)[1] = d.id /\ RunnerOf(d)[2] = d.attempt
  BY NowFacts DEF EntryInv, ListedRow, RunnerOf, Runners
<1> QED
  BY <1>1, <1>2, <1>3 DEF DataInv, ListsInv, PlainTypes, ProcsInv

LEMMA SetRowMoves ==
  ASSUME DataInv, NEW j \in Jobs, NEW q, SetRow(j, q), RowInv(q)
  PROVE  RowsInv' /\ job'[j] = q /\ \A i \in Jobs : i # j => job'[i] = job[i]
<1>1. q \in Row
  BY DEF RowInv
<1> QED
  BY <1>1, Types DEF SetRow, RowsInv

\* Attempts only grow, so entries and the processes of later attempts stay right.
LEMMA ListsFrame ==
  ASSUME DataInv, RowsInv', \A j \in Jobs : job'[j].attempt >= job[j].attempt
  PROVE  /\ \A d : EntryInv(d) => EntryInv(d)'
         /\ UNCHANGED <<todo, hand>> => ListsInv'
         /\ UNCHANGED <<executor, proc>> => ProcsInv'
<1>0. \A j \in Jobs : job[j].attempt \in Nat /\ job'[j].attempt \in Nat
  BY Types DEF RowsInv, Row
<1>1. \A d : EntryInv(d) => EntryInv(d)'
  <2> SUFFICES ASSUME NEW d, EntryInv(d) PROVE EntryInv(d)'
    OBVIOUS
  <2>1. /\ d \in ListedRow /\ d.attempt > 0 /\ d.attempt <= MaxClaims
        /\ d.attempt <= job[d.id].attempt
    BY DEF EntryInv
  <2>2. d.id \in Jobs /\ d.attempt \in Nat
    BY <2>1 DEF ListedRow
  <2> QED
    BY <1>0, <2>1, <2>2 DEF EntryInv
<1>2. ASSUME UNCHANGED <<todo, hand>> PROVE ListsInv'
  BY <1>1, <1>2 DEF DataInv, ListsInv
<1>3. ASSUME UNCHANGED <<executor, proc>> PROVE ProcsInv'
  <2>1. \A rn \in Runners : /\ rn[1] \in Jobs /\ rn[2] \in Nat
                            /\ rn[2] > RowOf(rn)'.attempt => rn[2] > RowOf(rn).attempt
    BY <1>0, Types DEF RowOf
  <2> QED
    BY <1>3, <2>1 DEF DataInv, ProcsInv
<1> QED
  BY <1>1, <1>2, <1>3

\* The number of active jobs does not grow unless a job becomes active.
LEMMA ActiveJobsFrame ==
  ASSUME IsFiniteSet(ActiveJobs), \A j \in Jobs : Active(job'[j]) => Active(job[j])
  PROVE  IsFiniteSet(ActiveJobs)' /\ Cardinality(ActiveJobs') <= Cardinality(ActiveJobs)
           /\ Cardinality(ActiveJobs) \in Nat /\ Cardinality(ActiveJobs') \in Nat
<1>1. ActiveJobs' \subseteq ActiveJobs
  BY DEF ActiveJobs
<1> QED
  BY <1>1, FS_Subset, FS_CardinalityType

LEMMA LimitFrame ==
  ASSUME LimitInv, \A j \in Jobs : Active(job'[j]) => Active(job[j])
  PROVE  /\ LimitInv'
         /\ Cardinality(ActiveJobs) < MaxConcurrentJobs
              => Cardinality(ActiveJobs') < MaxConcurrentJobs
BY ActiveJobsFrame, NowFacts DEF LimitInv

\* One controller at most is past its election.
LEMMA OneLeader ==
  ASSUME LeaderInv, NEW c \in Controllers, pc[c] # "elect" \/ lock = NoController
  PROVE  \A b \in Controllers : b # c => pc[b] = "elect"
BY ControlAssumption DEF LeaderInv

------------------------------------------------------------------------------
(* Users. *)

UserStep(j) == CreateJob(j) \/ RequestCancel(j)

LEMMA UserMoves ==
  ASSUME DataInv, NEW j \in Jobs, UserStep(j)
  PROVE  /\ RowsInv' /\ \A i \in Jobs : i # j => job'[i] = job[i]
         /\ job'[j].attempt = job[j].attempt
         /\ \/ job[j].state = "absent" /\ job'[j].state = "pending"
            \/ job[j].state = "pending" /\ job'[j].state = "cancelled"
            \/ job[j].state \in {"dispatched", "running"} /\ job'[j].state = "cancel_requested"
         /\ UNCHANGED <<lock, pc, todo, hand, executor, proc, faults>>
<1>1. CASE CreateJob(j)
  <2>1. SetRow(j, CreatedRow(Now)) /\ job[j].state = "absent" /\ job[j].attempt = 0
    BY <1>1, Types DEF CreateJob, RowInv
  <2> QED
    BY <1>1, <2>1, SetRowMoves, NewRowInv DEF CreateJob, ControllerVars, RunnerVars
<1>2. CASE RequestCancel(j)
  <2>1. SetRow(j, CancelRequestedRow(job[j], Now)) /\ job[j].state \in {"pending", "dispatched", "running"}
    BY <1>2 DEF RequestCancel
  <2>2. LET q == CancelRequestedRow(job[j], Now)
        IN  /\ RowInv(q) /\ q.attempt = job[j].attempt
            /\ q.state = IF job[j].state = "pending" THEN "cancelled" ELSE "cancel_requested"
    BY <2>1, Types, CancelRequestedRowInv
  <2> QED
    BY <1>2, <2>1, <2>2, SetRowMoves DEF RequestCancel, ControllerVars, RunnerVars
<1> QED
  BY <1>1, <1>2 DEF UserStep

LEMMA UserKeeps ==
  ASSUME IInv, NEW j \in Jobs, UserStep(j)
  PROVE  IInv'
<1>0. /\ DataInv
      /\ RowsInv' /\ \A i \in Jobs : i # j => job'[i] = job[i]
      /\ job'[j].attempt = job[j].attempt
      /\ \/ job[j].state = "absent" /\ job'[j].state = "pending"
         \/ job[j].state = "pending" /\ job'[j].state = "cancelled"
         \/ job[j].state \in {"dispatched", "running"} /\ job'[j].state = "cancel_requested"
      /\ UNCHANGED <<lock, pc, todo, hand, executor, proc, faults>>
  BY UserMoves DEF IInv
<1>1. DataInv'
  <2>1. \A i \in Jobs : job'[i].attempt >= job[i].attempt
    BY <1>0, Types
  <2>2. PlainTypes'
    BY <1>0 DEF DataInv, PlainTypes
  <2> QED
    BY <1>0, <2>1, <2>2, ListsFrame DEF DataInv
<1>2. ASSUME faults.sessions = 0 PROVE LeaderFacts'
  <2>0. LeaderFacts
    BY <1>2 DEF IInv
  <2>1. \A i \in Jobs : Active(job'[i]) => Active(job[i])
    BY <1>0 DEF Active, ActiveStates
  <2>2. LeaderInv'
    BY <1>0, <2>0 DEF LeaderFacts, LeaderInv
  <2>3. LimitInv'
    BY <2>0, <2>1, LimitFrame DEF LeaderFacts
  <2>4. ASSUME NEW c \in Controllers PROVE HandInv(c)'
    <3>1. HandInv(c) /\ LimitInv
      BY <2>0 DEF LeaderFacts
    <3>2. \A h \in hand[c] : h.row.id \in Jobs
      BY <1>0, Types DEF DataInv, ListsInv
    <3>3. \A i \in Jobs : /\ job'[i].attempt = job[i].attempt
                          /\ job[i].state \in {"dispatched", "cancel_requested"}
                               => job'[i].state \in {"dispatched", "cancel_requested"}
      BY <1>0
    <3> QED
      BY <1>0, <2>1, <3>1, <3>2, <3>3, LimitFrame DEF HandInv, Tracked, Live
  <2>5. ExecutorInv'
    <3>1. ASSUME NEW rn \in Runners, Tracked(rn)
          PROVE  /\ rn[2] = RowOf(rn)'.attempt
                 /\ RowOf(rn)'.state \notin {"absent", "pending"}
                 /\ RowOf(rn)'.state = "cancelled" => proc[rn] = "failing"
      BY <1>0, <2>0, <3>1, Types DEF LeaderFacts, ExecutorInv, RowOf
    <3> QED
      BY <1>0, <3>1 DEF ExecutorInv, Tracked, Live
  <2> QED
    BY <2>2, <2>3, <2>4, <2>5 DEF LeaderFacts
<1> QED
  BY <1>0, <1>1, <1>2 DEF IInv

------------------------------------------------------------------------------
(* Runner processes. *)

RunnerStep(rn) ==
  \/ RunnerProgress(rn) \/ Heartbeat(rn) \/ PollState(rn)
  \/ LimitExceeded(rn) \/ Kill(rn) \/ CrashRunner(rn) \/ Forget(rn)

\* Only the holder of the token changes the row, and it neither requeues the job
\* nor closes it as cancelled while it goes on working.
RowMove(rn) ==
  LET j == rn[1] IN
  \/ UNCHANGED job
  \/ /\ Holds(rn)
     /\ RowsInv' /\ \A i \in Jobs : i # j => job'[i] = job[i]
     /\ job'[j].attempt = job[j].attempt
     /\ job'[j].state \notin {"absent", "pending"}
     /\ job'[j].state = "cancelled" => proc'[rn] \in {"failing", "gone"}

LEMMA SetRowMove ==
  ASSUME DataInv, NEW rn \in Runners, NEW q, SetRow(rn[1], q), RowInv(q), Holds(rn),
         q.attempt = RowOf(rn).attempt, q.state \notin {"absent", "pending"},
         q.state = "cancelled" => proc'[rn] \in {"failing", "gone"}
  PROVE  RowMove(rn)
BY SetRowMoves, Types DEF RowMove, RowOf

LEMMA DeliverMoves ==
  ASSUME DataInv, NEW rn \in Runners, NEW q, NEW yes \in {"failing", "gone"},
         NEW no \in {"failing", "gone"}, RowInv(q),
         q.attempt = RowOf(rn).attempt, q.state \notin {"absent", "pending"},
         Become(rn, yes) \/ Become(rn, no),
         UNCHANGED job \/ (Holds(rn) /\ SetRow(rn[1], q)),
         UNCHANGED faults \/ Fault
  PROVE  /\ RowMove(rn) /\ proc' \in [Runners -> ProcStates] /\ proc'[rn] \in {"failing", "gone"}
         /\ \A x \in Runners : x # rn => proc'[x] = proc[x]
         /\ faults' \in [sessions : Nat, others : Nat] /\ faults'.sessions = faults.sessions
<1>2. /\ proc' \in [Runners -> ProcStates] /\ proc'[rn] \in {"failing", "gone"}
      /\ \A x \in Runners : x # rn => proc'[x] = proc[x]
  BY Types DEF Become, ProcStates
<1>3. faults' \in [sessions : Nat, others : Nat] /\ faults'.sessions = faults.sessions
  BY Types DEF Fault
<1>4. RowMove(rn)
  <2>1. CASE UNCHANGED job
    BY <2>1 DEF RowMove
  <2>2. CASE Holds(rn) /\ SetRow(rn[1], q)
    BY <1>2, <2>2, SetRowMove
  <2> QED
    BY <2>1, <2>2
<1> QED
  BY <1>2, <1>3, <1>4

\* What a runner step does: the process exists already, and one that is gone or
\* failing does not work again.
LEMMA RunnerMoves ==
  ASSUME DataInv, NEW rn \in Runners, RunnerStep(rn)
  PROVE  /\ RowMove(rn)
         /\ proc' \in [Runners -> ProcStates] /\ executor' \in [Runners -> ExecutorStates]
         /\ \A x \in Runners : x # rn => proc'[x] = proc[x] /\ executor'[x] = executor[x]
         /\ proc[rn] # "none" /\ (Tracked(rn)' => Tracked(rn))
         /\ proc[rn] = "failing" => proc'[rn] \in {"failing", "gone"}
         /\ faults' \in [sessions : Nat, others : Nat] /\ faults'.sessions = faults.sessions
         /\ UNCHANGED <<lock, pc, todo, hand>>
<1>0. /\ RowInv(RowOf(rn)) /\ rn[1] \in Jobs /\ proc \in [Runners -> ProcStates]
      /\ executor \in [Runners -> ExecutorStates]
      /\ faults \in [sessions : Nat, others : Nat]
  BY Types
<1>1. CASE Start(rn)
  <2>1. /\ proc[rn] = "boot" /\ proc' \in [Runners -> ProcStates]
        /\ \A x \in Runners : x # rn => proc'[x] = proc[x]
        /\ faults' \in [sessions : Nat, others : Nat] /\ faults'.sessions = faults.sessions
        /\ UNCHANGED <<lock, pc, todo, hand, executor>>
    BY <1>0, <1>1 DEF Start, Become, Fault, ControllerVars, ProcStates
  <2>2. RowMove(rn)
    <3>1. CASE UNCHANGED job
      BY <3>1 DEF RowMove
    <3>2. CASE Holds(rn) /\ RowOf(rn).state = "dispatched" /\ SetRow(rn[1], StartedRow(RowOf(rn), Now))
      BY <1>0, <3>2, StartedRowInv, SetRowMove
    <3> QED
      BY <1>1, <3>1, <3>2 DEF Start
  <2> QED
    BY <1>0, <2>1, <2>2 DEF Tracked, Live
<1>2. CASE FinishResearch(rn) \/ PollState(rn)
  BY <1>0, <1>2 DEF FinishResearch, PollState, Become, ControllerVars, ProcStates, RowMove,
     Tracked, Live
<1>3. CASE Heartbeat(rn) \/ LimitExceeded(rn)
  <2>1. /\ proc[rn] \notin {"none", "gone"} /\ Holds(rn)
        /\ UNCHANGED <<proc, executor, faults, lock, pc, todo, hand>>
    BY <1>3 DEF Heartbeat, LimitExceeded, RunnerVars, ControllerVars
  <2>2. \/ /\ SetRow(rn[1], TouchedRow(RowOf(rn), Now))
           /\ RowOf(rn).state \in {"running", "cancel_requested"}
        \/ SetRow(rn[1], FailedRow(RowOf(rn), Now))
    BY <1>3 DEF Heartbeat, LimitExceeded
  <2>3. RowMove(rn)
    BY <1>0, <2>1, <2>2, LivingRowInv, EndedRowInv, SetRowMove
  <2> QED
    BY <1>0, <2>1, <2>3 DEF Tracked, Live
<1>4. CASE Complete(rn)
  <2>1. /\ proc[rn] = "completing"
        /\ Become(rn, "gone") \/ Become(rn, "failing")
        /\ UNCHANGED job \/ (Holds(rn) /\ SetRow(rn[1], SucceededRow(RowOf(rn), None, Now)))
        /\ UNCHANGED faults \/ Fault
        /\ UNCHANGED <<lock, pc, todo, hand, executor>>
    BY <1>4 DEF Complete, Deliver, ControllerVars
  <2>2. /\ RowMove(rn) /\ proc' \in [Runners -> ProcStates] /\ proc'[rn] \in {"failing", "gone"}
        /\ \A x \in Runners : x # rn => proc'[x] = proc[x]
        /\ faults' \in [sessions : Nat, others : Nat] /\ faults'.sessions = faults.sessions
    BY <1>0, <2>1, EndedRowInv, DeliverMoves
  <2> QED
    BY <1>0, <2>1, <2>2 DEF Tracked, Live
<1>5. CASE ReportCancelled(rn)
  <2>1. /\ proc[rn] = "cancelling"
        /\ Become(rn, "gone") \/ Become(rn, "failing")
        /\ UNCHANGED job \/ (Holds(rn) /\ SetRow(rn[1], CancelledRow(RowOf(rn), Now)))
        /\ UNCHANGED faults \/ Fault
        /\ UNCHANGED <<lock, pc, todo, hand, executor>>
    BY <1>5 DEF ReportCancelled, Deliver, ControllerVars
  <2>2. /\ RowMove(rn) /\ proc' \in [Runners -> ProcStates] /\ proc'[rn] \in {"failing", "gone"}
        /\ \A x \in Runners : x # rn => proc'[x] = proc[x]
        /\ faults' \in [sessions : Nat, others : Nat] /\ faults'.sessions = faults.sessions
    BY <1>0, <2>1, EndedRowInv, DeliverMoves
  <2> QED
    BY <1>0, <2>1, <2>2 DEF Tracked, Live
<1>6. CASE ReportFailed(rn)
  <2>1. /\ proc[rn] = "failing"
        /\ Become(rn, "gone") \/ Become(rn, "gone")
        /\ UNCHANGED job \/ (Holds(rn) /\ SetRow(rn[1], FailedRow(RowOf(rn), Now)))
        /\ UNCHANGED faults \/ Fault
        /\ UNCHANGED <<lock, pc, todo, hand, executor>>
    BY <1>6 DEF ReportFailed, Deliver, ControllerVars
  <2>2. /\ RowMove(rn) /\ proc' \in [Runners -> ProcStates] /\ proc'[rn] \in {"failing", "gone"}
        /\ \A x \in Runners : x # rn => proc'[x] = proc[x]
        /\ faults' \in [sessions : Nat, others : Nat] /\ faults'.sessions = faults.sessions
    BY <1>0, <2>1, EndedRowInv, DeliverMoves
  <2> QED
    BY <1>0, <2>1, <2>2 DEF Tracked, Live
<1>7. CASE Kill(rn) \/ CrashRunner(rn) \/ Forget(rn)
  <2>1. /\ proc' \in [Runners -> ProcStates] /\ executor' \in [Runners -> ExecutorStates]
        /\ \A x \in Runners : x # rn => proc'[x] = proc[x] /\ executor'[x] = executor[x]
        /\ proc[rn] # "none" /\ proc'[rn] = "gone"
        /\ UNCHANGED <<job, lock, pc, todo, hand>>
    BY <1>0, <1>7 DEF Kill, CrashRunner, Forget, Become, Live, ProcStates, ExecutorStates,
       ControllerVars
  <2>2. faults' \in [sessions : Nat, others : Nat] /\ faults'.sessions = faults.sessions
    BY <1>0, <1>7 DEF Kill, CrashRunner, Forget, Fault
  <2> QED
    BY <2>1, <2>2 DEF RowMove, Tracked, Live
<1> QED
  BY <1>1, <1>2, <1>3, <1>4, <1>5, <1>6, <1>7 DEF RunnerStep, RunnerProgress

LEMMA RunnerKeeps ==
  ASSUME IInv, NEW rn \in Runners, RunnerStep(rn)
  PROVE  IInv'
<1> DEFINE j == rn[1]
<1>0. /\ DataInv /\ RowMove(rn)
      /\ proc' \in [Runners -> ProcStates] /\ executor' \in [Runners -> ExecutorStates]
      /\ \A x \in Runners : x # rn => proc'[x] = proc[x] /\ executor'[x] = executor[x]
      /\ proc[rn] # "none" /\ (Tracked(rn)' => Tracked(rn))
      /\ proc[rn] = "failing" => proc'[rn] \in {"failing", "gone"}
      /\ faults' \in [sessions : Nat, others : Nat] /\ faults'.sessions = faults.sessions
      /\ UNCHANGED <<lock, pc, todo, hand>>
  BY RunnerMoves DEF IInv
<1>1. RowsInv' /\ \A i \in Jobs : job'[i].attempt = job[i].attempt
  BY <1>0, Types DEF RowMove, DataInv, RowsInv
<1>2. DataInv'
  <2>1. \A i \in Jobs : job'[i].attempt >= job[i].attempt
    BY <1>1, Types, <1>0
  <2>2. PlainTypes'
    BY <1>0 DEF DataInv, PlainTypes
  <2>3. ProcsInv'
    <3>1. \A x \in Runners : RowOf(x)'.attempt = RowOf(x).attempt
      BY <1>0, <1>1, Types DEF RowOf
    <3>2. ~(rn[2] > RowOf(rn).attempt)
      BY <1>0 DEF DataInv, ProcsInv
    <3> QED
      BY <1>0, <3>1, <3>2 DEF DataInv, ProcsInv
  <2> QED
    BY <1>0, <1>1, <2>1, <2>2, <2>3, ListsFrame DEF DataInv
<1>3. ASSUME faults.sessions = 0 PROVE LeaderFacts'
  <2>0. LeaderFacts
    BY <1>3 DEF IInv
  <2>1. /\ Holds(rn) => rn[2] = RowOf(rn).attempt /\ Active(RowOf(rn))
        /\ rn \in Runners /\ rn[1] \in Jobs
    BY <1>0, Types DEF Holds, HoldsToken, RowInv
  <2>2. \A i \in Jobs : Active(job'[i]) => Active(job[i])
    BY <1>0, <2>1 DEF RowMove, RowOf
  <2>3. LeaderInv'
    BY <1>0, <2>0 DEF LeaderFacts, LeaderInv
  <2>4. LimitInv'
    BY <2>0, <2>2, LimitFrame DEF LeaderFacts
  <2>5. \A x \in Runners : Tracked(x)' => Tracked(x)
    <3>1. \A x \in Runners : x # rn => (Tracked(x)' => Tracked(x))
      BY <1>0 DEF Tracked, Live
    <3> QED
      BY <1>0, <3>1
  <2>6. ASSUME NEW c \in Controllers PROVE HandInv(c)'
    <3>1. HandInv(c) /\ LimitInv
      BY <2>0 DEF LeaderFacts
    <3>2. \A h \in hand[c] : RunnerOf(h.row) \in Runners
      BY <1>0, Types DEF DataInv, ListsInv
    <3>3. ASSUME pc[c] = "submit", NEW h \in hand[c]
          PROVE  /\ job'[h.row.id] = job[h.row.id]
                 /\ proc'[RunnerOf(h.row)] = proc[RunnerOf(h.row)]
      <4>1. /\ RunnerOf(h.row) \in Runners /\ RunnerOf(h.row) # rn
            /\ job[h.row.id].attempt = h.row.attempt /\ h.row.id \in Jobs
        <5>1. EntryInv(h.row)
          BY <1>0, <3>3 DEF DataInv, ListsInv
        <5>2. proc[RunnerOf(h.row)] = "none" /\ job[h.row.id].attempt = h.row.attempt
          BY <3>1, <3>3 DEF HandInv
        <5> QED
          BY <1>0, <5>1, <5>2, Types
      <4>2. rn[1] = h.row.id => ~Holds(rn)
        BY <2>1, <4>1, Types, <1>0 DEF RunnerOf, RowOf
      <4> QED
        BY <1>0, <4>1, <4>2 DEF RowMove
    <3>4. Cardinality(ActiveJobs) < MaxConcurrentJobs
            => Cardinality(ActiveJobs') < MaxConcurrentJobs
      BY <2>2, <3>1, LimitFrame
    <3> QED
      BY <1>0, <2>5, <3>1, <3>2, <3>3, <3>4 DEF HandInv
  <2>7. ExecutorInv'
    <3> SUFFICES ASSUME NEW x \in Runners, Tracked(x)'
                 PROVE  /\ x[2] = RowOf(x)'.attempt
                        /\ RowOf(x)'.state \notin {"absent", "pending"}
                        /\ RowOf(x)'.state = "cancelled" => proc'[x] = "failing"
      BY DEF ExecutorInv
    <3>1. /\ Tracked(x) /\ x[2] = RowOf(x).attempt /\ x[1] \in Jobs
          /\ RowOf(x).state \notin {"absent", "pending"}
          /\ RowOf(x).state = "cancelled" => proc[x] = "failing"
      BY <1>0, <2>0, <2>5, Types DEF LeaderFacts, ExecutorInv
    <3>2. proc'[x] # "gone"
      BY DEF Tracked, Live
    <3>3. proc[x] = "failing" => proc'[x] = "failing"
      BY <1>0, <3>2
    <3>4. CASE job'[x[1]] = job[x[1]]
      BY <3>1, <3>3, <3>4 DEF RowOf
    <3>5. CASE job'[x[1]] # job[x[1]]
      <4>1. Holds(rn) /\ x[1] = rn[1] /\ x[2] = rn[2]
        BY <1>0, <2>1, <3>1, <3>5 DEF RowMove, RowOf
      <4>2. x = rn
        BY <1>0, <4>1, Types
      <4> QED
        BY <1>0, <3>1, <3>2, <3>5, <4>2 DEF RowMove, RowOf
    <3> QED
      BY <3>4, <3>5
  <2> QED
    BY <2>3, <2>4, <2>6, <2>7 DEF LeaderFacts
<1> QED
  BY <1>0, <1>2, <1>3 DEF IInv

------------------------------------------------------------------------------
(* Controllers: what they know and do stays well-formed. *)

LEMMA EntryOfRow ==
  ASSUME NEW j \in Jobs, NEW r, RowInv(r), Active(r)
  PROVE  LET d == Entry(j, r)
         IN  /\ d \in ListedRow /\ d.id = j /\ d.attempt = r.attempt
             /\ d.attempt > 0 /\ d.attempt <= MaxClaims
BY DEF Entry, ListedRow, RowInv, Row, Active, NullOrNat

\* Leaving the loop forgets everything.
LEMMA LeaveLoopMoves ==
  ASSUME DataInv, NEW c \in Controllers, LeaveLoop(c), UNCHANGED <<job, proc>>
  PROVE  /\ ListsInv' /\ pc' \in [Controllers -> ControllerStates] /\ pc'[c] = "elect"
         /\ \A b \in Controllers : b # c => pc'[b] = pc[b]
         /\ lock' \in {lock, NoController} /\ lock' \in Controllers \union {NoController}
         /\ (lock = c => lock' = NoController)
<1>1. /\ \A b \in Controllers : todo'[b] \in {todo[b], {}} /\ hand'[b] \in {hand[b], {}}
      /\ todo' \in [Controllers -> SUBSET ListedRow] /\ hand' \in [Controllers -> SUBSET HeldRow]
  BY Types DEF LeaveLoop
<1>2. ListsInv'
  BY <1>1 DEF DataInv, ListsInv, EntryInv
<1> QED
  BY <1>2, Types DEF LeaveLoop, Goto, ControllerStates, DataInv, PlainTypes

\* The executor only loses track.
LEMMA ExecutorForgets ==
  ASSUME DataInv, UNCHANGED <<job, proc>>, executor' \in [Runners -> ExecutorStates],
         \A rn \in Runners : executor'[rn] = executor[rn] \/ executor[rn] = "held"
  PROVE  ProcsInv'
BY DEF DataInv, ProcsInv, RowOf

LEMMA StatusIsActive ==
  ASSUME NEW rn
  PROVE  Status(rn) = "active" <=> Tracked(rn)
<1>1. CASE Tracked(rn)
  BY <1>1 DEF Status, Tracked
<1>2. CASE ~Tracked(rn)
  <2>1. Status(rn) \in {"missing", "exited"}
    BY <1>2 DEF Status
  <2> QED
    BY <1>2, <2>1
<1> QED
  BY <1>1, <1>2

LEMMA StoppedMoves ==
  ASSUME DataInv, NEW rn \in Runners
  PROVE  /\ Stopped(rn) \in [Runners -> ExecutorStates]
         /\ \A x \in Runners : Stopped(rn)[x] = executor[x] \/ executor[x] = "held"
         /\ \A x \in Runners : Stopped(rn)[x] = "held" => executor[x] = "held"
         /\ Live(rn) => Stopped(rn)[rn] # "held"
<1>1. CASE Tracked(rn)
  BY <1>1, Types, StatusIsActive DEF Stopped, ExecutorStates, Tracked
<1>2. CASE ~Tracked(rn)
  BY <1>2, Types, StatusIsActive DEF Stopped, Tracked
<1> QED
  BY <1>1, <1>2

LEMMA RestData ==
  ASSUME DataInv, UNCHANGED job, ListsInv', ProcsInv', PlainTypes'
  PROVE  DataInv'
BY DEF DataInv, RowsInv

\* A controller steps through its states, and no other controller moves.
LEMMA GotoMoves ==
  ASSUME DataInv, NEW c \in Controllers, NEW l \in ControllerStates, Goto(c, l)
  PROVE  /\ pc' \in [Controllers -> ControllerStates] /\ pc'[c] = l
         /\ \A b \in Controllers : b # c => pc'[b] = pc[b]
BY Types DEF Goto

LEMMA LeadershipData ==
  ASSUME DataInv, NEW c \in Controllers,
         Elect(c) \/ CheckLease(c) \/ LoseSession(c) \/ CrashController(c) \/ CountActive(c)
  PROVE  /\ DataInv' /\ UNCHANGED <<job, proc>> /\ \A b \in Controllers : b # c => pc'[b] = pc[b]
         /\ \A rn \in Runners : executor'[rn] = "held" => executor[rn] = "held"
         /\ faults'.sessions = 0 => faults.sessions = 0 /\ ~LoseSession(c)
<1>1. UNCHANGED <<job, proc>> /\ faults' \in [sessions : Nat, others : Nat]
      /\ faults'.sessions >= faults.sessions /\ faults.sessions \in Nat
      /\ (LoseSession(c) => faults'.sessions > faults.sessions)
  <2>0. faults \in [sessions : Nat, others : Nat] /\ faults.sessions \in Nat
    BY Types
  <2>1. UNCHANGED <<job, proc>>
    BY DEF Elect, CheckLease, LoseSession, CrashController, CountActive, RunnerVars
  <2>2. \/ UNCHANGED faults
        \/ faults' = [faults EXCEPT !.others = @ + 1]
        \/ faults' = [faults EXCEPT !.sessions = @ + 1]
    BY DEF Elect, CheckLease, LoseSession, CrashController, CountActive, Fault
  <2>3. LoseSession(c) => faults' = [faults EXCEPT !.sessions = @ + 1]
    BY DEF LoseSession
  <2> QED
    BY <2>0, <2>1, <2>2, <2>3
<1>2. /\ executor' \in [Runners -> ExecutorStates]
      /\ \A rn \in Runners : executor'[rn] = executor[rn] \/ executor[rn] = "held"
  BY Types DEF Elect, CheckLease, LoseSession, CrashController, CountActive, RunnerVars,
     ExecutorStates
<1>3. ProcsInv'
  BY <1>1, <1>2, ExecutorForgets
<1>6. /\ faults'.sessions = 0 => faults.sessions = 0 /\ ~LoseSession(c)
      /\ \A rn \in Runners : executor'[rn] = "held" => executor[rn] = "held"
  BY <1>1, <1>2
<1>4. CASE LeaveLoop(c)
  BY <1>1, <1>3, <1>4, <1>6, LeaveLoopMoves, RestData DEF PlainTypes
<1>5. CASE ~LeaveLoop(c)
  <2>1. /\ UNCHANGED <<todo, hand>> /\ lock' \in Controllers \union {NoController}
        /\ UNCHANGED pc \/ \E l \in {"check", "list dispatches", "claim"} : Goto(c, l)
    BY <1>5 DEF Elect, CheckLease, LoseSession, CrashController, CountActive, DataInv, PlainTypes
  <2>2. ListsInv'
    BY <1>1, <2>1 DEF DataInv, ListsInv, EntryInv
  <2>3. /\ pc' \in [Controllers -> ControllerStates]
        /\ \A b \in Controllers : b # c => pc'[b] = pc[b]
    BY <2>1, Types, GotoMoves DEF ControllerStates
  <2> QED
    BY <1>1, <1>2, <1>3, <1>6, <2>1, <2>2, <2>3, RestData DEF PlainTypes
<1> QED
  BY <1>4, <1>5

LEMMA ListData ==
  ASSUME DataInv, NEW c \in Controllers, NEW rows \in SUBSET Jobs, NEW l \in ControllerStates,
         List(c, rows, l), \A j \in rows : Active(job[j])
  PROVE  /\ DataInv' /\ pc'[c] = l /\ \A b \in Controllers : b # c => pc'[b] = pc[b]
<1>1. \A j \in rows : Entry(j, job[j]) \in ListedRow /\ EntryInv(Entry(j, job[j]))
  BY EntryOfRow, Types DEF EntryInv
<1>2. /\ todo' \in [Controllers -> SUBSET ListedRow]
      /\ todo'[c] = {Entry(j, job[j]) : j \in rows}
      /\ \A b \in Controllers : b # c => todo'[b] = todo[b]
      /\ UNCHANGED <<job, hand, lock, executor, proc, faults>>
  BY <1>1, Types DEF List, RunnerVars
<1>3. ListsInv'
  <2>1. \A d : EntryInv(d)' <=> EntryInv(d)
    BY <1>2 DEF EntryInv
  <2>2. \A b \in Controllers : \A d \in todo'[b] : EntryInv(d)
    BY <1>1, <1>2 DEF DataInv, ListsInv
  <2> QED
    BY <1>2, <2>1, <2>2 DEF DataInv, ListsInv
<1>4. pc' \in [Controllers -> ControllerStates] /\ pc'[c] = l
      /\ \A b \in Controllers : b # c => pc'[b] = pc[b]
  BY GotoMoves DEF List
<1> QED
  BY <1>2, <1>3, <1>4, RestData, ExecutorForgets, Types DEF DataInv, PlainTypes

\* One row is taken from the list into the hand, or skipped.
LEMMA InspectData ==
  ASSUME DataInv, NEW c \in Controllers, NEW d \in todo[c], NEW h, NEW l \in ControllerStates,
         todo' = [todo EXCEPT ![c] = @ \ {d}],
         \/ UNCHANGED hand
         \/ hand' = [hand EXCEPT ![c] = {h}] /\ h \in HeldRow /\ h.row = d,
         Goto(c, l), UNCHANGED <<job, lock, proc>>,
         executor' = executor \/ executor' = Stopped(RunnerOf(d)),
         UNCHANGED faults \/ Fault
  PROVE  /\ DataInv' /\ pc'[c] = l /\ \A b \in Controllers : b # c => pc'[b] = pc[b]
         /\ \A rn \in Runners : executor'[rn] = "held" => executor[rn] = "held"
         /\ faults'.sessions = faults.sessions
<1>1. EntryInv(d) /\ RunnerOf(d) \in Runners
  BY Types DEF DataInv, ListsInv
<1>2. /\ executor' \in [Runners -> ExecutorStates]
      /\ \A rn \in Runners : executor'[rn] = executor[rn] \/ executor[rn] = "held"
      /\ \A rn \in Runners : executor'[rn] = "held" => executor[rn] = "held"
  BY <1>1, Types, StoppedMoves
<1>3. ListsInv'
  <2>1. \A e : EntryInv(e)' <=> EntryInv(e)
    BY DEF EntryInv
  <2>2. /\ todo' \in [Controllers -> SUBSET ListedRow]
        /\ \A b \in Controllers : todo'[b] \subseteq todo[b]
    BY Types
  <2>3. /\ hand' \in [Controllers -> SUBSET HeldRow]
        /\ \A b \in Controllers : hand'[b] = hand[b] \/ (hand'[b] = {h} /\ h.row = d)
    BY Types
  <2> QED
    BY <1>1, <2>1, <2>2, <2>3 DEF DataInv, ListsInv
<1>4. /\ faults' \in [sessions : Nat, others : Nat] /\ faults'.sessions = faults.sessions
  BY Types DEF Fault
<1>5. pc' \in [Controllers -> ControllerStates] /\ pc'[c] = l
      /\ \A b \in Controllers : b # c => pc'[b] = pc[b]
  BY GotoMoves
<1> QED
  BY <1>2, <1>3, <1>4, <1>5, RestData, ExecutorForgets DEF DataInv, PlainTypes

\* A reconciled row: the attempt stays, the hand is empty.
LEMMA ReconcileData ==
  ASSUME DataInv, NEW c \in Controllers, NEW j \in Jobs, NEW q, NEW l \in ControllerStates,
         UNCHANGED job \/ SetRow(j, q), RowInv(q), q.attempt = job[j].attempt,
         hand' = [hand EXCEPT ![c] = {}], Goto(c, l),
         UNCHANGED <<lock, todo, executor, proc, faults>>
  PROVE  /\ DataInv' /\ pc'[c] = l /\ \A b \in Controllers : b # c => pc'[b] = pc[b]
         /\ job'[j] \in {job[j], q} /\ \A i \in Jobs : i # j => job'[i] = job[i]
         /\ UNCHANGED <<lock, executor, proc, faults>>
<1>1. /\ RowsInv' /\ job'[j] \in {job[j], q} /\ \A i \in Jobs : i # j => job'[i] = job[i]
  <2>1. CASE UNCHANGED job
    BY <2>1 DEF DataInv, RowsInv
  <2> QED
    BY <2>1, SetRowMoves
<1>2. \A i \in Jobs : job'[i].attempt >= job[i].attempt
  BY <1>1, Types
<1>3. ListsInv'
  <2>1. \A e : EntryInv(e) => EntryInv(e)'
    BY <1>1, <1>2, ListsFrame
  <2>2. /\ hand' \in [Controllers -> SUBSET HeldRow]
        /\ \A b \in Controllers : hand'[b] \in {hand[b], {}}
    BY Types
  <2> QED
    BY <2>1, <2>2 DEF DataInv, ListsInv
<1>4. ProcsInv'
  BY <1>1, <1>2, ListsFrame
<1>5. pc' \in [Controllers -> ControllerStates] /\ pc'[c] = l
      /\ \A b \in Controllers : b # c => pc'[b] = pc[b]
  BY GotoMoves
<1> QED
  BY <1>1, <1>3, <1>4, <1>5 DEF DataInv, PlainTypes

LEMMA ClaimData ==
  ASSUME DataInv, NEW c \in Controllers, NEW j \in Jobs, NEW q, NEW d,
         job[j].state = "pending", job[j].attempt < MaxClaims,
         q = ClaimedRow(job[j], Now), d = Entry(j, q), SetRow(j, q),
         hand' = [hand EXCEPT ![c] = {[row |-> d, action |-> "submit"]}],
         Goto(c, "submit"), UNCHANGED <<lock, todo, executor, proc, faults>>
  PROVE  /\ DataInv' /\ pc'[c] = "submit" /\ \A b \in Controllers : b # c => pc'[b] = pc[b]
         /\ job'[j].state = "dispatched" /\ \A i \in Jobs : i # j => job'[i] = job[i]
         /\ \A h \in hand'[c] : h.row.id = j /\ h.row.attempt = job'[j].attempt
         /\ proc[<<j, job'[j].attempt>>] = "none" /\ <<j, job'[j].attempt>> \in Runners
<1>1. RowInv(q) /\ q.attempt = job[j].attempt + 1 /\ q.state = "dispatched"
  BY Types, ClaimedRowInv
<1>2. RowsInv' /\ job'[j] = q /\ \A i \in Jobs : i # j => job'[i] = job[i]
  BY <1>1, SetRowMoves
<1>3. \A i \in Jobs : job'[i].attempt >= job[i].attempt
  BY <1>1, <1>2, Types
<1>4. /\ d \in ListedRow /\ d.id = j /\ d.attempt = q.attempt
      /\ d.attempt > 0 /\ d.attempt <= MaxClaims
  BY <1>1, EntryOfRow DEF Active, ActiveStates
<1>5. EntryInv(d)'
  BY <1>1, <1>2, <1>4, Types DEF EntryInv
<1>6. ListsInv'
  <2>1. \A e : EntryInv(e) => EntryInv(e)'
    BY <1>2, <1>3, ListsFrame
  <2>2. [row |-> d, action |-> "submit"] \in HeldRow
    BY <1>4 DEF HeldRow
  <2>3. /\ hand' \in [Controllers -> SUBSET HeldRow]
        /\ \A b \in Controllers : hand'[b] \in {hand[b], {[row |-> d, action |-> "submit"]}}
    BY <2>2, Types
  <2> QED
    BY <1>5, <2>1, <2>3 DEF DataInv, ListsInv
<1>7. ProcsInv'
  BY <1>2, <1>3, ListsFrame
<1>8. /\ pc' \in [Controllers -> ControllerStates] /\ pc'[c] = "submit"
      /\ \A b \in Controllers : b # c => pc'[b] = pc[b]
  BY GotoMoves DEF ControllerStates
<1>9. proc[<<j, job'[j].attempt>>] = "none" /\ <<j, job'[j].attempt>> \in Runners
  <2>1. job[j].attempt + 1 \in 1..MaxClaims
    BY Types, NowFacts
  <2> DEFINE rn == <<j, job[j].attempt + 1>>
  <2>2. rn \in Runners /\ rn[1] = j /\ rn[2] = job[j].attempt + 1
    BY <2>1 DEF Runners
  <2> HIDE DEF rn
  <2>3. rn[2] > RowOf(rn).attempt
    BY <2>2, Types DEF RowOf
  <2>4. proc[rn] = "none"
    BY <2>2, <2>3 DEF DataInv, ProcsInv
  <2> QED
    BY <1>1, <1>2, <2>2, <2>4 DEF rn
<1>10. \A h \in hand'[c] : h.row.id = j /\ h.row.attempt = job'[j].attempt
  BY <1>2, <1>4, Types
<1> QED
  BY <1>1, <1>2, <1>6, <1>7, <1>8, <1>9, <1>10 DEF DataInv, PlainTypes

\* The process of the claimed row may come to be, tracked by the executor.
LEMMA SubmitData ==
  ASSUME DataInv, NEW c \in Controllers, Submit(c)
  PROVE  /\ DataInv' /\ UNCHANGED <<job, lock>> /\ pc[c] = "submit"
         /\ pc'[c] \in {"check", "submit failed"}
         /\ \A b \in Controllers : b # c => pc'[b] = pc[b]
         /\ \E h \in hand[c] : \A x \in Runners : x # RunnerOf(h.row) =>
              proc'[x] = proc[x] /\ executor'[x] = executor[x]
         /\ faults'.sessions = faults.sessions
<1>1. PICK h \in hand[c] : LET rn == RunnerOf(h.row) IN
        /\ \/ /\ executor' = [executor EXCEPT ![rn] = "held"]
              /\ proc' = [proc EXCEPT ![rn] = "boot"]
           \/ UNCHANGED <<executor, proc>>
        /\ hand' = [hand EXCEPT ![c] = {}] \/ UNCHANGED hand
        /\ Goto(c, "check") \/ Goto(c, "submit failed")
        /\ UNCHANGED faults \/ Fault
  BY DEF Submit, RunnerOf
<1>2. pc[c] = "submit" /\ UNCHANGED <<job, lock, todo>>
  BY DEF Submit
<1>3. /\ EntryInv(h.row) /\ RunnerOf(h.row) \in Runners /\ h.row.id \in Jobs
      /\ RunnerOf(h.row)[1] = h.row.id /\ RunnerOf(h.row)[2] = h.row.attempt
  BY Types DEF DataInv, ListsInv
<1>4. ~(h.row.attempt > job[h.row.id].attempt)
  BY <1>3, Types DEF EntryInv
<1>5. /\ executor' \in [Runners -> ExecutorStates] /\ proc' \in [Runners -> ProcStates]
      /\ \A x \in Runners : x # RunnerOf(h.row) =>
              proc'[x] = proc[x] /\ executor'[x] = executor[x]
  BY <1>1, <1>3, Types DEF ExecutorStates, ProcStates
<1>6. ProcsInv'
  BY <1>2, <1>3, <1>4, <1>5 DEF DataInv, ProcsInv, RowOf
<1>7. ListsInv'
  <2>1. \A e : EntryInv(e)' <=> EntryInv(e)
    BY <1>2 DEF EntryInv
  <2>2. /\ hand' \in [Controllers -> SUBSET HeldRow]
        /\ \A b \in Controllers : hand'[b] \in {hand[b], {}}
    BY <1>1, Types
  <2> QED
    BY <1>2, <2>1, <2>2 DEF DataInv, ListsInv
<1>8. /\ pc' \in [Controllers -> ControllerStates] /\ pc'[c] \in {"check", "submit failed"}
      /\ \A b \in Controllers : b # c => pc'[b] = pc[b]
  BY <1>1, GotoMoves DEF ControllerStates
<1>9. faults' \in [sessions : Nat, others : Nat] /\ faults'.sessions = faults.sessions
  <2>1. UNCHANGED faults \/ Fault
    BY <1>1
  <2> QED
    BY <2>1, Types DEF Fault
<1>10. DataInv'
  BY <1>2, <1>6, <1>7, <1>8, <1>9, RestData DEF DataInv, PlainTypes
<1> QED
  BY <1>2, <1>5, <1>8, <1>9, <1>10

LEMMA SubmitFailedData ==
  ASSUME DataInv, NEW c \in Controllers, SubmitFailed(c)
  PROVE  /\ DataInv' /\ UNCHANGED <<executor, proc, faults>>
         /\ pc'[c] \in {"elect", "check"} /\ \A b \in Controllers : b # c => pc'[b] = pc[b]
         /\ pc[c] = "submit failed" /\ (UNCHANGED lock \/ pc'[c] = "elect")
         /\ \A i \in Jobs : /\ job'[i].attempt = job[i].attempt
                            /\ job'[i].state \in {job[i].state, "failed"}
<1>1. /\ UNCHANGED <<executor, proc, faults>> /\ pc[c] = "submit failed"
  BY DEF SubmitFailed, RunnerVars
<1>2. PICK h \in hand[c] :
        \/ /\ SetRow(h.row.id, FailedRow(job[h.row.id], Now))
           /\ Goto(c, "check")
           /\ hand' = [hand EXCEPT ![c] = {}]
           /\ UNCHANGED <<lock, todo>>
        \/ LeaveLoop(c) /\ UNCHANGED job
  BY DEF SubmitFailed
<1>3. EntryInv(h.row) /\ h.row.id \in Jobs
  BY Types DEF DataInv, ListsInv
<1>4. CASE LeaveLoop(c) /\ UNCHANGED job
  <2>1. /\ ListsInv' /\ pc' \in [Controllers -> ControllerStates] /\ pc'[c] = "elect"
        /\ \A b \in Controllers : b # c => pc'[b] = pc[b]
        /\ lock' \in Controllers \union {NoController}
    BY <1>1, <1>4, LeaveLoopMoves
  <2>2. ProcsInv'
    BY <1>1, <1>4 DEF DataInv, ProcsInv, RowOf
  <2>3. DataInv'
    BY <1>1, <1>4, <2>1, <2>2, RestData DEF DataInv, PlainTypes
  <2> QED
    BY <1>1, <1>4, <2>1, <2>3
<1>5. CASE /\ SetRow(h.row.id, FailedRow(job[h.row.id], Now))
           /\ Goto(c, "check")
           /\ hand' = [hand EXCEPT ![c] = {}]
           /\ UNCHANGED <<lock, todo>>
  <2> DEFINE j == h.row.id
             q == FailedRow(job[j], Now)
  <2>1. j \in Jobs /\ RowInv(q) /\ q.attempt = job[j].attempt /\ q.state = "failed"
    BY <1>3, Types, EndedRowInv
  <2>2. SetRow(j, q)
    BY <1>5
  <2> HIDE DEF q, j
  <2>3. /\ DataInv' /\ pc'[c] = "check" /\ \A b \in Controllers : b # c => pc'[b] = pc[b]
        /\ job'[j] \in {job[j], q} /\ \A i \in Jobs : i # j => job'[i] = job[i]
    BY <1>1, <1>5, <2>1, <2>2, ReconcileData DEF ControllerStates
  <2> QED
    BY <1>1, <1>5, <2>1, <2>3
<1> QED
  BY <1>2, <1>4, <1>5

------------------------------------------------------------------------------
(* Controllers: the leader relies on what it knows. *)

\* While the leader c moves, no other controller is past its election.
LEMMA LeaderKeeps ==
  ASSUME LeaderFacts, NEW c \in Controllers, pc[c] # "elect",
         \A b \in Controllers : b # c => pc'[b] = pc[b],
         pc'[c] = "elect" \/ UNCHANGED lock,
         HandInv(c)', ExecutorInv', LimitInv'
  PROVE  LeaderFacts'
<1>1. \A b \in Controllers : b # c => pc'[b] = "elect"
  BY OneLeader DEF LeaderFacts
<1>2. LeaderInv'
  BY <1>1 DEF LeaderFacts, LeaderInv
<1>3. \A b \in Controllers : b # c => HandInv(b)'
  BY <1>1 DEF HandInv
<1> QED
  BY <1>2, <1>3 DEF LeaderFacts

\* The tracked processes that are left belong to jobs that did not change.
LEMMA ExecutorFrame ==
  ASSUME ExecutorInv,
         \A x \in Runners : Tracked(x)' =>
           /\ Tracked(x) /\ proc'[x] = proc[x]
           /\ RowOf(x)'.attempt = RowOf(x).attempt /\ RowOf(x)'.state = RowOf(x).state
  PROVE  ExecutorInv'
BY DEF ExecutorInv

LEMMA UnchangedFrame ==
  ASSUME LeaderFacts, UNCHANGED <<job, proc>>,
         \A x \in Runners : executor'[x] = "held" => executor[x] = "held"
  PROVE  /\ ExecutorInv' /\ LimitInv' /\ ActiveJobs' = ActiveJobs
         /\ \A x \in Runners : Tracked(x)' => Tracked(x)
<1>1. \A x \in Runners : Tracked(x)' => Tracked(x)
  BY DEF Tracked, Live
<1>2. ExecutorInv'
  BY <1>1, ExecutorFrame DEF LeaderFacts, RowOf
<1>3. ActiveJobs' = ActiveJobs
  BY DEF ActiveJobs
<1> QED
  BY <1>1, <1>2, <1>3 DEF LeaderFacts, LimitInv

LEMMA LeadershipKeeps ==
  ASSUME IInv, NEW c \in Controllers,
         Elect(c) \/ CheckLease(c) \/ LoseSession(c) \/ CrashController(c) \/ CountActive(c)
  PROVE  IInv'
<1>1. /\ DataInv' /\ UNCHANGED <<job, proc>> /\ \A b \in Controllers : b # c => pc'[b] = pc[b]
      /\ \A rn \in Runners : executor'[rn] = "held" => executor[rn] = "held"
      /\ faults'.sessions = 0 => faults.sessions = 0 /\ ~LoseSession(c)
  BY LeadershipData DEF IInv
<1>2. ASSUME faults'.sessions = 0 PROVE LeaderFacts'
  <2>0. LeaderFacts /\ DataInv
    BY <1>1, <1>2 DEF IInv
  <2>1. ExecutorInv' /\ LimitInv' /\ ActiveJobs' = ActiveJobs
    BY <1>1, <2>0, UnchangedFrame
  <2>2. CASE Elect(c)
    <3>1. lock = NoController /\ lock' = c /\ pc'[c] = "check"
      BY <2>0, <2>2, Types DEF Elect, Goto
    <3>2. \A b \in Controllers : b # c => pc'[b] = "elect"
      BY <1>1, <2>0, <3>1, OneLeader DEF LeaderFacts
    <3>3. LeaderInv' /\ \A b \in Controllers : HandInv(b)'
      BY <3>1, <3>2 DEF LeaderInv, HandInv
    <3> QED
      BY <2>1, <3>3 DEF LeaderFacts
  <2>3. CASE CheckLease(c) \/ CrashController(c) \/ CountActive(c)
    <3>1. /\ pc[c] # "elect"
          /\ pc'[c] = "elect" \/ UNCHANGED lock
          /\ pc'[c] \in {"elect", "list dispatches", "check", "claim"}
          /\ pc'[c] = "claim" => Cardinality(ActiveJobs) < MaxConcurrentJobs
      BY <2>0, <2>3, Types DEF CheckLease, CrashController, CountActive, LeaveLoop, Goto
    <3>2. HandInv(c)'
      BY <2>1, <3>1 DEF HandInv
    <3> QED
      BY <1>1, <2>0, <2>1, <3>1, <3>2, LeaderKeeps
  <2> QED
    BY <1>1, <1>2, <2>2, <2>3
<1> QED
  BY <1>1, <1>2 DEF IInv

LEMMA ListKeeps ==
  ASSUME IInv, NEW c \in Controllers, ListExpiredDispatches(c) \/ ListStaleRunners(c)
  PROVE  IInv'
<1>1. PICK rows \in SUBSET Jobs, l \in {"list runners", "dispatches", "count", "runners"} :
        List(c, rows, l) /\ \A j \in rows : Active(job[j])
  <2>1. CASE ListExpiredDispatches(c)
    <3>1. PICK rows \in Batches({j \in Jobs : DispatchExpired(job[j], Now)}) :
                 List(c, rows, NextDispatch(rows))
      BY <2>1 DEF ListExpiredDispatches
    <3>2. rows \in SUBSET Jobs /\ \A j \in rows : Active(job[j])
      BY DEF Batches, DispatchExpired, Active, ActiveStates
    <3> QED
      BY <3>1, <3>2 DEF NextDispatch
  <2>2. CASE ListStaleRunners(c)
    <3>1. PICK rows \in Batches({j \in Jobs : RunnerStale(job[j], Now)}) :
                 List(c, rows, NextRunner(rows))
      BY <2>2 DEF ListStaleRunners
    <3>2. rows \in SUBSET Jobs /\ \A j \in rows : Active(job[j])
      BY DEF Batches, RunnerStale, Active, ActiveStates
    <3> QED
      BY <3>1, <3>2 DEF NextRunner
  <2> QED
    BY <2>1, <2>2
<1>2. /\ DataInv' /\ pc'[c] = l /\ \A b \in Controllers : b # c => pc'[b] = pc[b]
  BY <1>1, ListData DEF IInv, ControllerStates
<1>3. pc[c] # "elect" /\ UNCHANGED <<job, proc, executor, faults, lock>>
  BY <1>1 DEF ListExpiredDispatches, ListStaleRunners, List, RunnerVars
<1>4. ASSUME faults.sessions = 0 PROVE LeaderFacts'
  <2>0. LeaderFacts
    BY <1>4 DEF IInv
  <2>1. ExecutorInv' /\ LimitInv'
    BY <1>3, <2>0, UnchangedFrame
  <2>2. HandInv(c)'
    BY <1>1, <1>2 DEF HandInv
  <2> QED
    BY <1>2, <1>3, <2>0, <2>1, <2>2, LeaderKeeps
<1> QED
  BY <1>2, <1>3, <1>4 DEF IInv

\* What the executor says of a listed dispatch decides: a requeued or ended one
\* has no tracked process any more.
LEMMA InspectDispatchKeeps ==
  ASSUME IInv, NEW c \in Controllers, InspectDispatch(c)
  PROVE  IInv'
<1>0. pc[c] = "dispatches" /\ UNCHANGED <<job, lock, proc>> /\ DataInv
  BY DEF InspectDispatch, IInv
<1>1. PICK d \in todo[c] :
        /\ todo' = [todo EXCEPT ![c] = @ \ {d}]
        /\ \/ /\ hand' = [hand EXCEPT ![c] =
                            {[row |-> d, action |-> DispatchAction(d, Status(RunnerOf(d)))]}]
              /\ executor' = IF d.state = "cancel_requested" THEN Stopped(RunnerOf(d)) ELSE executor
              /\ Goto(c, "reconcile dispatch")
              /\ UNCHANGED faults
           \/ /\ Fault
              /\ Goto(c, NextDispatch(todo[c] \ {d}))
              /\ UNCHANGED <<hand, executor>>
  BY DEF InspectDispatch, RunnerOf
<1>2. EntryInv(d) /\ d \in ListedRow /\ RunnerOf(d) \in Runners
  BY <1>0, Types DEF DataInv, ListsInv, EntryInv
<1>3. PICK h : h = [row |-> d, action |-> DispatchAction(d, Status(RunnerOf(d)))]
  OBVIOUS
<1>4. h \in HeldRow /\ h.row = d /\ h.action = DispatchAction(d, Status(RunnerOf(d)))
  BY <1>2, <1>3 DEF HeldRow, DispatchAction
<1>5. PICK l \in {"reconcile dispatch", "list runners", "dispatches"} :
        /\ Goto(c, l)
        /\ l = "reconcile dispatch" =>
             /\ hand' = [hand EXCEPT ![c] = {h}]
             /\ executor' = IF d.state = "cancel_requested" THEN Stopped(RunnerOf(d)) ELSE executor
        /\ UNCHANGED hand \/ hand' = [hand EXCEPT ![c] = {h}]
        /\ executor' = executor \/ executor' = Stopped(RunnerOf(d))
        /\ UNCHANGED faults \/ Fault
  BY <1>1, <1>3 DEF NextDispatch
<1>6. /\ DataInv' /\ pc'[c] = l /\ \A b \in Controllers : b # c => pc'[b] = pc[b]
      /\ \A rn \in Runners : executor'[rn] = "held" => executor[rn] = "held"
      /\ faults'.sessions = faults.sessions
  BY <1>0, <1>1, <1>4, <1>5, InspectData DEF ControllerStates
<1>7. ASSUME faults.sessions = 0 PROVE LeaderFacts'
  <2>0. LeaderFacts
    BY <1>7 DEF IInv
  <2>1. /\ ExecutorInv' /\ LimitInv' /\ ActiveJobs' = ActiveJobs
        /\ \A x \in Runners : Tracked(x)' => Tracked(x)
    BY <1>0, <1>6, <2>0, UnchangedFrame
  <2>2. ASSUME l = "reconcile dispatch", h.action # "renew" PROVE ~Tracked(RunnerOf(d))'
    <3>1. CASE d.state = "cancel_requested"
      BY <1>0, <1>2, <1>5, <2>1, <2>2, <3>1, StoppedMoves DEF Tracked
    <3>2. CASE d.state # "cancel_requested"
      BY <1>2, <1>4, <2>1, <2>2, <3>2, StatusIsActive DEF DispatchAction
    <3> QED
      BY <3>1, <3>2
  <2>3. l = "reconcile dispatch" => hand'[c] = {h}
    BY <1>0, <1>5, Types
  <2>4. HandInv(c)'
    BY <1>4, <1>6, <2>2, <2>3 DEF HandInv, RunnerOf
  <2> QED
    BY <1>0, <1>6, <2>0, <2>1, <2>4, LeaderKeeps
<1> QED
  BY <1>6, <1>7 DEF IInv

\* A stale runner is stopped before its job is requeued or ended.
LEMMA InspectRunnerKeeps ==
  ASSUME IInv, NEW c \in Controllers, InspectRunner(c)
  PROVE  IInv'
<1>0. pc[c] = "runners" /\ UNCHANGED <<job, lock, proc>> /\ DataInv
  BY DEF InspectRunner, IInv
<1>1. PICK s \in todo[c] :
        /\ todo' = [todo EXCEPT ![c] = @ \ {s}]
        /\ \/ /\ hand' = [hand EXCEPT ![c] = {[row |-> s, action |-> StaleAction(s)]}]
              /\ executor' = Stopped(RunnerOf(s))
              /\ Goto(c, "reconcile runner")
              /\ UNCHANGED faults
           \/ /\ Fault
              /\ Goto(c, NextRunner(todo[c] \ {s}))
              /\ UNCHANGED <<hand, executor>>
  BY DEF InspectRunner, RunnerOf
<1>2. EntryInv(s) /\ s \in ListedRow /\ RunnerOf(s) \in Runners
  BY <1>0, Types DEF DataInv, ListsInv, EntryInv
<1>3. PICK h : h = [row |-> s, action |-> StaleAction(s)]
  OBVIOUS
<1>4. h \in HeldRow /\ h.row = s
  BY <1>2, <1>3 DEF HeldRow, StaleAction
<1>5. PICK l \in {"reconcile runner", "count", "runners"} :
        /\ Goto(c, l)
        /\ l = "reconcile runner" =>
             hand' = [hand EXCEPT ![c] = {h}] /\ executor' = Stopped(RunnerOf(s))
        /\ UNCHANGED hand \/ hand' = [hand EXCEPT ![c] = {h}]
        /\ executor' = executor \/ executor' = Stopped(RunnerOf(s))
        /\ UNCHANGED faults \/ Fault
  BY <1>1, <1>3 DEF NextRunner
<1>6. /\ DataInv' /\ pc'[c] = l /\ \A b \in Controllers : b # c => pc'[b] = pc[b]
      /\ \A rn \in Runners : executor'[rn] = "held" => executor[rn] = "held"
      /\ faults'.sessions = faults.sessions
  BY <1>0, <1>1, <1>4, <1>5, InspectData DEF ControllerStates
<1>7. ASSUME faults.sessions = 0 PROVE LeaderFacts'
  <2>0. LeaderFacts
    BY <1>7 DEF IInv
  <2>1. /\ ExecutorInv' /\ LimitInv'
        /\ \A x \in Runners : Tracked(x)' => Tracked(x)
    BY <1>0, <1>6, <2>0, UnchangedFrame
  <2>2. l = "reconcile runner" => hand'[c] = {h} /\ ~Tracked(RunnerOf(s))'
    BY <1>0, <1>2, <1>5, <2>1, Types, StoppedMoves DEF Tracked
  <2>3. HandInv(c)'
    BY <1>4, <1>6, <2>2 DEF HandInv, RunnerOf
  <2> QED
    BY <1>0, <1>6, <2>0, <2>1, <2>3, LeaderKeeps
<1> QED
  BY <1>6, <1>7 DEF IInv

\* The reconcilers requeue or end a job whose last attempt is not tracked.
LEMMA ReconcileFacts ==
  ASSUME DataInv, LeaderFacts, NEW c \in Controllers, NEW j \in Jobs,
         pc[c] # "elect", \A b \in Controllers : b # c => pc'[b] = pc[b],
         pc'[c] \in {"list runners", "dispatches", "count", "runners"},
         UNCHANGED <<lock, executor, proc>>,
         \A i \in Jobs : i # j => job'[i] = job[i],
         job'[j].attempt = job[j].attempt,
         \/ job'[j].state = job[j].state
         \/ /\ job'[j].state \in {"pending", "cancelled", "failed"}
            /\ ~Tracked(<<j, job[j].attempt>>)
  PROVE  LeaderFacts'
<1>1. \A i \in Jobs : Active(job'[i]) => Active(job[i])
  BY DEF Active, ActiveStates
<1>2. LimitInv'
  BY <1>1, LimitFrame DEF LeaderFacts
<1>3. ExecutorInv'
  <2>1. ASSUME NEW x \in Runners, Tracked(x)'
        PROVE  /\ Tracked(x) /\ proc'[x] = proc[x]
               /\ RowOf(x)'.attempt = RowOf(x).attempt /\ RowOf(x)'.state = RowOf(x).state
    <3>1. Tracked(x) /\ x[1] \in Jobs /\ x = <<x[1], x[2]>>
      BY <2>1, Types DEF Tracked, Live
    <3>2. x[2] = job[x[1]].attempt
      BY <3>1 DEF LeaderFacts, ExecutorInv, RowOf
    <3>3. x[1] = j => x = <<j, job[j].attempt>>
      BY <3>1, <3>2
    <3> QED
      BY <3>1, <3>3 DEF RowOf
  <2> QED
    BY <2>1, ExecutorFrame DEF LeaderFacts
<1>4. HandInv(c)'
  BY DEF HandInv
<1> QED
  BY <1>2, <1>3, <1>4, LeaderKeeps

LEMMA ReconcileKeeps ==
  ASSUME IInv, NEW c \in Controllers, ReconcileExpiredDispatch(c) \/ ReconcileStaleRunner(c)
  PROVE  IInv'
<1>0. DataInv
  BY DEF IInv
<1>1. CASE ReconcileExpiredDispatch(c)
  <2>1. PICK h \in hand[c] :
          \/ /\ DispatchStillMatches(job[h.row.id], h.row)
             /\ SetRow(h.row.id, DispatchReconciledRow(job[h.row.id], h.action, Now))
          \/ UNCHANGED job
    BY <1>1 DEF ReconcileExpiredDispatch
  <2>2. PICK j : j = h.row.id
    OBVIOUS
  <2>3. PICK q : q = DispatchReconciledRow(job[j], h.action, Now)
    OBVIOUS
  <2>4. PICK l \in {"list runners", "dispatches"} :
          /\ Goto(c, l) /\ hand' = [hand EXCEPT ![c] = {}]
          /\ UNCHANGED <<lock, todo, executor, proc, faults>>
          /\ pc[c] = "reconcile dispatch"
    <3>1. /\ hand' = [hand EXCEPT ![c] = {}] /\ Goto(c, NextDispatch(todo[c]))
          /\ UNCHANGED <<lock, todo, executor, proc, faults>>
          /\ pc[c] = "reconcile dispatch"
      BY <1>1 DEF ReconcileExpiredDispatch, RunnerVars
    <3>2. NextDispatch(todo[c]) \in {"list runners", "dispatches"}
      BY DEF NextDispatch
    <3> QED
      BY <3>1, <3>2
  <2>5. j \in Jobs /\ RowInv(job[j])
    <3>1. EntryInv(h.row)
      BY <1>0 DEF DataInv, ListsInv
    <3> QED
      BY <1>0, <2>2, <3>1, Types
  <2>6. /\ RowInv(q) /\ q.attempt = job[j].attempt
        /\ IF h.action = "renew" THEN q.state = job[j].state
                                 ELSE q.state \in {"pending", "cancelled", "failed"}
    BY <2>3, <2>5, ReconciledRowInv
  <2>7. /\ DataInv' /\ pc'[c] = l /\ \A b \in Controllers : b # c => pc'[b] = pc[b]
        /\ job'[j] \in {job[j], q} /\ \A i \in Jobs : i # j => job'[i] = job[i]
    BY <1>0, <2>1, <2>4, <2>6, <2>2, <2>3, <2>5, ReconcileData DEF ControllerStates
  <2>8. ASSUME faults.sessions = 0 PROVE LeaderFacts'
    <3>0. LeaderFacts
      BY <2>8 DEF IInv
    <3>1. CASE UNCHANGED job
      BY <1>0, <2>4, <2>7, <2>5, <3>0, <3>1, ReconcileFacts
    <3>2. CASE DispatchStillMatches(job[j], h.row)
      <4>1. RunnerOf(h.row) = <<j, job[j].attempt>>
        BY <2>2, <3>2 DEF DispatchStillMatches, RunnerOf
      <4>2. h.action # "renew" => ~Tracked(<<j, job[j].attempt>>)
        BY <2>4, <3>0, <4>1 DEF LeaderFacts, HandInv
      <4> QED
        BY <1>0, <2>4, <2>6, <2>7, <2>5, <3>0, <4>2, ReconcileFacts
    <3> QED
      BY <2>1, <2>2, <3>1, <3>2
  <2> QED
    BY <2>4, <2>7, <2>8 DEF IInv
<1>2. CASE ReconcileStaleRunner(c)
  <2>1. PICK h \in hand[c] :
          \/ /\ RunnerStillMatches(job[h.row.id], h.row)
             /\ SetRow(h.row.id, StaleReconciledRow(job[h.row.id], h.action, Now))
          \/ UNCHANGED job
    BY <1>2 DEF ReconcileStaleRunner
  <2>2. PICK j : j = h.row.id
    OBVIOUS
  <2>3. PICK q : q = StaleReconciledRow(job[j], h.action, Now)
    OBVIOUS
  <2>4. PICK l \in {"count", "runners"} :
          /\ Goto(c, l) /\ hand' = [hand EXCEPT ![c] = {}]
          /\ UNCHANGED <<lock, todo, executor, proc, faults>>
          /\ pc[c] = "reconcile runner"
    <3>1. /\ hand' = [hand EXCEPT ![c] = {}] /\ Goto(c, NextRunner(todo[c]))
          /\ UNCHANGED <<lock, todo, executor, proc, faults>>
          /\ pc[c] = "reconcile runner"
      BY <1>2 DEF ReconcileStaleRunner, RunnerVars
    <3>2. NextRunner(todo[c]) \in {"count", "runners"}
      BY DEF NextRunner
    <3> QED
      BY <3>1, <3>2
  <2>5. j \in Jobs /\ RowInv(job[j])
    <3>1. EntryInv(h.row)
      BY <1>0 DEF DataInv, ListsInv
    <3> QED
      BY <1>0, <2>2, <3>1, Types
  <2>6. /\ RowInv(q) /\ q.attempt = job[j].attempt
        /\ q.state \in {"pending", "cancelled", "failed"}
    BY <2>3, <2>5, ReconciledRowInv
  <2>7. /\ DataInv' /\ pc'[c] = l /\ \A b \in Controllers : b # c => pc'[b] = pc[b]
        /\ job'[j] \in {job[j], q} /\ \A i \in Jobs : i # j => job'[i] = job[i]
    BY <1>0, <2>1, <2>4, <2>6, <2>2, <2>3, <2>5, ReconcileData DEF ControllerStates
  <2>8. ASSUME faults.sessions = 0 PROVE LeaderFacts'
    <3>0. LeaderFacts
      BY <2>8 DEF IInv
    <3>1. CASE UNCHANGED job
      BY <1>0, <2>4, <2>7, <2>5, <3>0, <3>1, ReconcileFacts
    <3>2. CASE RunnerStillMatches(job[j], h.row)
      <4>1. RunnerOf(h.row) = <<j, job[j].attempt>>
        BY <2>2, <3>2 DEF RunnerStillMatches, RunnerOf
      <4>2. ~Tracked(<<j, job[j].attempt>>)
        BY <2>4, <3>0, <4>1 DEF LeaderFacts, HandInv
      <4> QED
        BY <1>0, <2>4, <2>6, <2>7, <2>5, <3>0, <4>2, ReconcileFacts
    <3> QED
      BY <2>1, <2>2, <3>1, <3>2
  <2> QED
    BY <2>4, <2>7, <2>8 DEF IInv
<1> QED
  BY <1>1, <1>2

\* The claim adds one job to those that were counted.
LEMMA ClaimKeeps ==
  ASSUME IInv, NEW c \in Controllers, ClaimNext(c)
  PROVE  IInv'
<1>0. DataInv /\ pc[c] = "claim" /\ UNCHANGED <<lock, todo, executor, proc, faults>>
  BY DEF IInv, ClaimNext, RunnerVars
<1>1. CASE Goto(c, "check") /\ UNCHANGED <<job, hand>>
  <2>1. /\ pc' \in [Controllers -> ControllerStates] /\ pc'[c] = "check"
        /\ \A b \in Controllers : b # c => pc'[b] = pc[b]
    BY <1>0, <1>1, GotoMoves DEF ControllerStates
  <2>2. DataInv'
    BY <1>0, <1>1, <2>1 DEF DataInv, RowsInv, ListsInv, EntryInv, PlainTypes, ProcsInv, RowOf
  <2>3. ASSUME faults.sessions = 0 PROVE LeaderFacts'
    <3>0. LeaderFacts
      BY <2>3 DEF IInv
    <3>1. ExecutorInv' /\ LimitInv'
      BY <1>0, <1>1, <3>0, UnchangedFrame
    <3> QED
      BY <1>0, <2>1, <3>0, <3>1, LeaderKeeps DEF HandInv
  <2> QED
    BY <1>0, <2>2, <2>3 DEF IInv
<1>2. ASSUME NEW j \in PendingJobs, job[j].attempt < MaxClaims,
             SetRow(j, ClaimedRow(job[j], Now)),
             hand' = [hand EXCEPT ![c] =
                        {[row |-> Entry(j, ClaimedRow(job[j], Now)), action |-> "submit"]}],
             Goto(c, "submit")
      PROVE  IInv'
  <2>1. j \in Jobs /\ job[j].state = "pending"
    BY DEF PendingJobs
  <2>2. PICK q, d : q = ClaimedRow(job[j], Now) /\ d = Entry(j, q)
    OBVIOUS
  <2>3. /\ DataInv' /\ pc'[c] = "submit" /\ \A b \in Controllers : b # c => pc'[b] = pc[b]
        /\ job'[j].state = "dispatched" /\ \A i \in Jobs : i # j => job'[i] = job[i]
        /\ \A h \in hand'[c] : h.row.id = j /\ h.row.attempt = job'[j].attempt
        /\ proc[<<j, job'[j].attempt>>] = "none" /\ <<j, job'[j].attempt>> \in Runners
    BY <1>0, <1>2, <2>1, <2>2, ClaimData
  <2>4. ASSUME faults.sessions = 0 PROVE LeaderFacts'
    <3>0. LeaderFacts
      BY <2>4 DEF IInv
    <3>1. LimitInv'
      <4>1. ActiveJobs' = ActiveJobs \union {j} /\ j \notin ActiveJobs
        BY <2>1, <2>3 DEF ActiveJobs, Active, ActiveStates
      <4>2. Cardinality(ActiveJobs) < MaxConcurrentJobs /\ IsFiniteSet(ActiveJobs)
        BY <1>0, <3>0 DEF LeaderFacts, HandInv, LimitInv
      <4>3. /\ IsFiniteSet(ActiveJobs') /\ Cardinality(ActiveJobs') = Cardinality(ActiveJobs) + 1
            /\ Cardinality(ActiveJobs) \in Nat
        BY <4>1, <4>2, FS_AddElement, FS_CardinalityType
      <4> QED
        BY <4>2, <4>3, NowFacts DEF LimitInv
    <3>2. ExecutorInv'
      <4>1. ASSUME NEW x \in Runners, Tracked(x)'
            PROVE  Tracked(x) /\ proc'[x] = proc[x] /\ RowOf(x)' = RowOf(x)
        <5>1. Tracked(x) /\ x[1] \in Jobs
          BY <1>0, <4>1, Types DEF Tracked, Live
        <5>2. x[1] # j
          BY <2>1, <3>0, <5>1 DEF LeaderFacts, ExecutorInv, RowOf
        <5> QED
          BY <1>0, <2>3, <5>1, <5>2 DEF RowOf
      <4> QED
        BY <3>0, <4>1, ExecutorFrame DEF LeaderFacts
    <3>3. HandInv(c)'
      BY <1>0, <2>3 DEF HandInv, RunnerOf
    <3> QED
      BY <1>0, <2>3, <3>0, <3>1, <3>2, <3>3, LeaderKeeps
  <2> QED
    BY <1>0, <2>3, <2>4 DEF IInv
<1> QED
  BY <1>1, <1>2 DEF ClaimNext

\* The process that is submitted is that of the last attempt of a job in progress.
LEMMA SubmitKeeps ==
  ASSUME IInv, NEW c \in Controllers, Submit(c)
  PROVE  IInv'
<1>1. /\ DataInv' /\ UNCHANGED <<job, lock>> /\ pc[c] = "submit"
      /\ pc'[c] \in {"check", "submit failed"}
      /\ \A b \in Controllers : b # c => pc'[b] = pc[b]
      /\ faults'.sessions = faults.sessions
  BY SubmitData DEF IInv
<1>2. PICK h \in hand[c] : \A x \in Runners : x # RunnerOf(h.row) =>
          proc'[x] = proc[x] /\ executor'[x] = executor[x]
  BY SubmitData DEF IInv
<1>3. ASSUME faults.sessions = 0 PROVE LeaderFacts'
  <2>0. LeaderFacts /\ DataInv
    BY <1>3 DEF IInv
  <2>1. LimitInv'
    BY <1>1, <2>0 DEF LeaderFacts, LimitInv, ActiveJobs
  <2>2. ExecutorInv'
    <3>1. /\ RunnerOf(h.row)[2] = RowOf(RunnerOf(h.row)).attempt
          /\ RowOf(RunnerOf(h.row)).state \in {"dispatched", "cancel_requested"}
      BY <1>1, <2>0 DEF LeaderFacts, HandInv, RowOf, RunnerOf
    <3>2. \A x \in Runners : RowOf(x)' = RowOf(x)
      BY <1>1 DEF RowOf
    <3>3. \A x \in Runners : x # RunnerOf(h.row) /\ Tracked(x)' => Tracked(x) /\ proc'[x] = proc[x]
      BY <1>2 DEF Tracked, Live
    <3> QED
      BY <2>0, <3>1, <3>2, <3>3 DEF LeaderFacts, ExecutorInv
  <2>3. HandInv(c)'
    BY <1>1 DEF HandInv
  <2> QED
    BY <1>1, <2>0, <2>1, <2>2, <2>3, LeaderKeeps
<1> QED
  BY <1>1, <1>3 DEF IInv

LEMMA SubmitFailedKeeps ==
  ASSUME IInv, NEW c \in Controllers, SubmitFailed(c)
  PROVE  IInv'
<1>1. /\ DataInv' /\ UNCHANGED <<executor, proc, faults>>
      /\ pc'[c] \in {"elect", "check"} /\ \A b \in Controllers : b # c => pc'[b] = pc[b]
      /\ pc[c] = "submit failed" /\ (UNCHANGED lock \/ pc'[c] = "elect")
      /\ \A i \in Jobs : /\ job'[i].attempt = job[i].attempt
                         /\ job'[i].state \in {job[i].state, "failed"}
  BY SubmitFailedData DEF IInv
<1>2. ASSUME faults.sessions = 0 PROVE LeaderFacts'
  <2>0. LeaderFacts /\ DataInv
    BY <1>2 DEF IInv
  <2>1. LimitInv'
    <3>1. \A i \in Jobs : Active(job'[i]) => Active(job[i])
      BY <1>1 DEF Active, ActiveStates
    <3> QED
      BY <2>0, <3>1, LimitFrame DEF LeaderFacts
  <2>2. ExecutorInv'
    <3>1. \A x \in Runners : /\ RowOf(x)'.attempt = RowOf(x).attempt
                             /\ RowOf(x)'.state \in {RowOf(x).state, "failed"}
      BY <1>1, <2>0, Types DEF RowOf
    <3> QED
      BY <1>1, <2>0, <3>1 DEF LeaderFacts, ExecutorInv, Tracked, Live
  <2>3. HandInv(c)'
    BY <1>1 DEF HandInv
  <2> QED
    BY <1>1, <2>0, <2>1, <2>2, <2>3, LeaderKeeps
<1> QED
  BY <1>1, <1>2 DEF IInv

------------------------------------------------------------------------------
(* Time, and all together. *)

LEMMA AgedEntryInv ==
  ASSUME DataInv, NEW d, EntryInv(d)
  PROVE  LET e == AgedEntry(d)
         IN  e \in ListedRow /\ e.id = d.id /\ e.attempt = d.attempt
<1>1. /\ d \in ListedRow /\ d.updated \in NullOrNat /\ d.id \in Jobs
      /\ job[d.id].updated \in Nat
  BY Types DEF EntryInv, ListedRow, Row
<1>2. (IF job[d.id].updated > d.updated THEN None ELSE Older(d.updated, Now - StaleSeconds))
        \in NullOrNat
  BY <1>1, NowFacts DEF Older, NullOrNat, None
<1> QED
  BY <1>1, <1>2 DEF AgedEntry, ListedRow

LEMMA TickKeeps ==
  ASSUME IInv, Tick
  PROVE  IInv'
<1>0. /\ DataInv /\ UNCHANGED <<lock, pc, executor, proc, faults>>
      /\ job' = [j \in Jobs |-> AgedRow(job[j])]
      /\ todo' = [c \in Controllers |-> {AgedEntry(d) : d \in todo[c]}]
      /\ hand' = [c \in Controllers |-> {[h EXCEPT !.row = AgedEntry(@)] : h \in hand[c]}]
  BY DEF IInv, Tick, RunnerVars
<1>1. \A j \in Jobs : /\ job'[j] = AgedRow(job[j]) /\ RowInv(job'[j]) /\ job'[j] \in Row
                      /\ job'[j].attempt = job[j].attempt /\ job'[j].state = job[j].state
  BY <1>0, Types, LivingRowInv DEF RowInv
<1>2. RowsInv' /\ \A j \in Jobs : job'[j].attempt >= job[j].attempt
  BY <1>0, <1>1, Types DEF RowsInv
<1>3. \A c \in Controllers : \A h \in hand[c] :
        LET g == [h EXCEPT !.row = AgedEntry(@)]
        IN  /\ EntryInv(h.row) /\ g \in HeldRow /\ g.action = h.action /\ g.row = AgedEntry(h.row)
            /\ g.row \in ListedRow /\ g.row.id = h.row.id /\ g.row.attempt = h.row.attempt
  <2> SUFFICES ASSUME NEW c \in Controllers, NEW h \in hand[c]
               PROVE  LET g == [h EXCEPT !.row = AgedEntry(@)]
                      IN  /\ EntryInv(h.row) /\ g \in HeldRow /\ g.action = h.action
                          /\ g.row = AgedEntry(h.row)
                          /\ g.row \in ListedRow /\ g.row.id = h.row.id
                          /\ g.row.attempt = h.row.attempt
    OBVIOUS
  <2>1. EntryInv(h.row) /\ h \in HeldRow
    BY <1>0, Types DEF DataInv, ListsInv
  <2>2. PICK e : e = AgedEntry(h.row)
    OBVIOUS
  <2>3. e \in ListedRow /\ e.id = h.row.id /\ e.attempt = h.row.attempt
    BY <1>0, <2>1, <2>2, AgedEntryInv
  <2>4. LET g == [h EXCEPT !.row = e] IN g \in HeldRow /\ g.action = h.action /\ g.row = e
    BY <2>1, <2>3 DEF HeldRow
  <2> QED
    BY <2>1, <2>2, <2>3, <2>4
<1>4. \A c \in Controllers : \A g \in hand'[c] : \E h \in hand[c] :
        /\ EntryInv(h.row) /\ g \in HeldRow /\ g.action = h.action
        /\ g.row \in ListedRow /\ g.row.id = h.row.id /\ g.row.attempt = h.row.attempt
        /\ g = [h EXCEPT !.row = AgedEntry(@)]
  <2>1. ASSUME NEW c \in Controllers, NEW g \in hand'[c]
        PROVE  \E h \in hand[c] : g = [h EXCEPT !.row = AgedEntry(@)]
    BY <1>0
  <2>2. ASSUME NEW c \in Controllers, NEW h \in hand[c], NEW g, g = [h EXCEPT !.row = AgedEntry(@)]
        PROVE  /\ EntryInv(h.row) /\ g \in HeldRow /\ g.action = h.action
               /\ g.row \in ListedRow /\ g.row.id = h.row.id /\ g.row.attempt = h.row.attempt
    BY <2>2, <1>3
  <2> HIDE <1>3
  <2> QED
    BY <2>1, <2>2
<1>5. \A c \in Controllers : \A e \in todo'[c] :
        e \in ListedRow /\ \E d \in todo[c] : EntryInv(d) /\ e.id = d.id /\ e.attempt = d.attempt
  BY <1>0, AgedEntryInv DEF DataInv, ListsInv
<1>6. ListsInv'
  <2>1. /\ todo' \in [Controllers -> SUBSET ListedRow]
        /\ hand' \in [Controllers -> SUBSET HeldRow]
    BY <1>0, <1>4, <1>5
  <2>2. ASSUME NEW d, EntryInv(d), NEW e \in ListedRow, e.id = d.id, e.attempt = d.attempt
        PROVE  EntryInv(e)'
    <3>1. EntryInv(d)'
      BY <1>0, <1>2, <2>2, ListsFrame
    <3> QED
      BY <2>2, <3>1 DEF EntryInv
  <2>3. \A c \in Controllers : \A g, h \in hand'[c] : g = h
    BY <1>0, <1>4 DEF DataInv, ListsInv
  <2> QED
    BY <1>4, <1>5, <2>1, <2>2, <2>3 DEF ListsInv
<1>7. DataInv'
  BY <1>0, <1>2, <1>6, ListsFrame DEF DataInv, PlainTypes
<1>8. ASSUME faults.sessions = 0 PROVE LeaderFacts'
  <2>0. LeaderFacts
    BY <1>8 DEF IInv
  <2>1. ActiveJobs' = ActiveJobs
    BY <1>1 DEF ActiveJobs, Active
  <2>2. LeaderInv' /\ LimitInv'
    BY <1>0, <2>0, <2>1 DEF LeaderFacts, LeaderInv, LimitInv
  <2>3. \A x \in Runners : /\ Tracked(x)' <=> Tracked(x)
                           /\ RowOf(x)'.attempt = RowOf(x).attempt
                           /\ RowOf(x)'.state = RowOf(x).state
    BY <1>0, <1>1, Types DEF Tracked, Live, RowOf
  <2>4. ExecutorInv'
    BY <1>0, <2>0, <2>3 DEF LeaderFacts, ExecutorInv
  <2>5. ASSUME NEW c \in Controllers PROVE HandInv(c)'
    <3>1. HandInv(c)
      BY <2>0 DEF LeaderFacts
    <3>2. \A g \in hand'[c] : \E h \in hand[c] :
            /\ g.action = h.action /\ g.row.id = h.row.id /\ g.row.attempt = h.row.attempt
            /\ RunnerOf(g.row) = RunnerOf(h.row) /\ RunnerOf(h.row) \in Runners
            /\ h.row.id \in Jobs
      <4> SUFFICES ASSUME NEW g \in hand'[c]
                   PROVE  \E h \in hand[c] :
                     /\ g.action = h.action /\ g.row.id = h.row.id
                     /\ g.row.attempt = h.row.attempt
                     /\ RunnerOf(g.row) = RunnerOf(h.row) /\ RunnerOf(h.row) \in Runners
                     /\ h.row.id \in Jobs
        OBVIOUS
      <4>1. PICK h \in hand[c] : /\ EntryInv(h.row) /\ g.action = h.action
                                /\ g.row.id = h.row.id /\ g.row.attempt = h.row.attempt
        BY <1>4
      <4>2. RunnerOf(h.row) \in Runners /\ h.row.id \in Jobs
        BY <1>0, <4>1, Types
      <4>3. RunnerOf(g.row) = RunnerOf(h.row)
        BY <4>1 DEF RunnerOf
      <4> QED
        BY <4>1, <4>2, <4>3
    <3>3. ASSUME NEW g \in hand'[c], pc[c] \in {"reconcile dispatch", "reconcile runner"},
                 pc[c] = "reconcile dispatch" => g.action # "renew"
          PROVE  ~Tracked(RunnerOf(g.row))'
      <4>1. PICK h \in hand[c] :
              g.action = h.action /\ RunnerOf(g.row) = RunnerOf(h.row)
                /\ RunnerOf(h.row) \in Runners
        BY <3>2, <3>3
      <4>2. PICK rn \in Runners : rn = RunnerOf(h.row)
        BY <4>1
      <4>3. ~Tracked(rn)
        BY <3>1, <3>3, <4>1, <4>2 DEF HandInv
      <4>4. ~Tracked(rn)'
        BY <2>3, <4>3
      <4> QED
        BY <4>1, <4>2, <4>4 DEF Tracked, Live
    <3>4. pc[c] = "submit" => \A g \in hand'[c] :
            /\ job'[g.row.id].attempt = g.row.attempt
            /\ job'[g.row.id].state \in {"dispatched", "cancel_requested"}
            /\ proc[RunnerOf(g.row)] = "none"
      BY <1>1, <3>1, <3>2 DEF HandInv
    <3> QED
      <4>1. pc'[c] = pc[c] /\ proc' = proc
        BY <1>0
      <4>2. pc[c] = "reconcile dispatch" =>
              \A g \in hand'[c] : g.action # "renew" => ~Tracked(RunnerOf(g.row))'
        BY <3>3
      <4>3. pc[c] = "reconcile runner" => \A g \in hand'[c] : ~Tracked(RunnerOf(g.row))'
        BY <3>3
      <4>4. pc[c] = "claim" => Cardinality(ActiveJobs') < MaxConcurrentJobs
        BY <2>1, <3>1 DEF HandInv
      <4> QED
        BY <3>4, <4>1, <4>2, <4>3, <4>4 DEF HandInv
  <2> QED
    BY <2>2, <2>4, <2>5 DEF LeaderFacts
<1> QED
  BY <1>0, <1>7, <1>8 DEF IInv

LEMMA InitHolds == Init => IInv
<1> SUFFICES ASSUME Init PROVE IInv
  OBVIOUS
<1>1. RowsInv /\ \A j \in Jobs : job[j] = NoRow
  BY NewRowInv DEF Init, RowsInv, RowInv
<1>2. ListsInv /\ PlainTypes
  BY DEF Init, ListsInv, PlainTypes, ControllerStates
<1>3. ProcsInv /\ \A rn \in Runners : ~Tracked(rn)
  BY DEF Init, ProcsInv, ExecutorStates, ProcStates, Tracked
<1>4. ActiveJobs = {}
  BY <1>1, NewRowInv DEF ActiveJobs, Active, ActiveStates
<1>5. LimitInv
  BY <1>4, FS_EmptySet, NowFacts DEF LimitInv
<1>6. LeaderFacts
  BY <1>3, <1>5 DEF Init, LeaderFacts, LeaderInv, HandInv, ExecutorInv
<1> QED
  BY <1>1, <1>2, <1>3, <1>6 DEF IInv, DataInv

LEMMA StutterKeeps ==
  ASSUME IInv, UNCHANGED vars
  PROVE  IInv'
<1>0. UNCHANGED <<job, lock, pc, todo, hand, executor, proc, faults>>
  BY DEF vars
<1>1. DataInv'
  BY <1>0 DEF IInv, DataInv, RowsInv, ListsInv, EntryInv, PlainTypes, ProcsInv, RowOf
<1>2. LeaderFacts => LeaderFacts'
  BY <1>0 DEF LeaderFacts, LeaderInv, HandInv, ExecutorInv, LimitInv, ActiveJobs, Tracked, Live,
     RowOf
<1> QED
  BY <1>0, <1>1, <1>2 DEF IInv

LEMMA StepHolds == IInv /\ [Next]_vars => IInv'
<1> SUFFICES ASSUME IInv, [Next]_vars PROVE IInv'
  OBVIOUS
<1>1. ASSUME NEW j \in Jobs, UserStep(j) PROVE IInv'
  BY <1>1, UserKeeps
<1>2. ASSUME NEW c \in Controllers, ControllerStep(c) \/ LoseSession(c) \/ CrashController(c)
      PROVE  IInv'
  BY <1>2, LeadershipKeeps, ListKeeps, InspectDispatchKeeps, InspectRunnerKeeps, ReconcileKeeps,
     ClaimKeeps, SubmitKeeps, SubmitFailedKeeps DEF ControllerStep
<1>3. ASSUME NEW rn \in Runners, RunnerStep(rn) PROVE IInv'
  BY <1>3, RunnerKeeps
<1>4. CASE Tick
  BY <1>4, TickKeeps
<1>5. CASE UNCHANGED vars
  BY <1>5, StutterKeeps
<1> QED
  BY <1>1, <1>2, <1>3, <1>4, <1>5 DEF Next, UserStep, RunnerStep

------------------------------------------------------------------------------
(* Theorems. *)

\* The inductive invariant holds in every reachable state, whatever fails.
THEOREM ControlInvariant == Spec => []IInv
BY InitHolds, StepHolds, PTL DEF Spec

\* No job has two tracked live processes as long as no leader loses its session
\* (the order of stop, requeue and claim in controller.py).
THEOREM OneExecutor == Spec => []OneExecutorPerJob
<1>1. IInv => OneExecutorPerJob
  <2> SUFFICES ASSUME IInv, faults.sessions = 0, NEW j \in Jobs,
                      NEW a \in 1..MaxClaims, NEW b \in 1..MaxClaims,
                      Tracked(<<j, a>>), Tracked(<<j, b>>)
               PROVE  a = b
    BY DEF OneExecutorPerJob
  <2>1. <<j, a>> \in Runners /\ <<j, b>> \in Runners
    BY DEF Runners
  <2> QED
    BY <2>1 DEF IInv, LeaderFacts, ExecutorInv, RowOf
<1> QED
  BY <1>1, ControlInvariant, PTL

\* Without lost sessions no fault but a lost session is ever counted as one.
LEMMA SessionsKept ==
  ASSUME SessionsDrop = FALSE
  PROVE  Spec => [](faults.sessions = 0)
<1>1. Init => faults.sessions = 0
  BY DEF Init
<1>2. IInv /\ faults.sessions = 0 /\ [Next]_vars => (faults.sessions = 0)'
  <2> SUFFICES ASSUME IInv, faults.sessions = 0, [Next]_vars PROVE faults'.sessions = 0
    OBVIOUS
  <2>1. UNCHANGED faults \/ Fault
    BY DEF Next, CreateJob, RequestCancel, ControllerStep, Elect, CheckLease,
       ListExpiredDispatches, List, InspectDispatch, ReconcileExpiredDispatch, ListStaleRunners,
       InspectRunner, ReconcileStaleRunner, CountActive, ClaimNext, Submit, SubmitFailed,
       LoseSession, CrashController, RunnerProgress, Start, FinishResearch, Complete,
       ReportCancelled, ReportFailed, Deliver, Heartbeat, PollState, LimitExceeded, Kill,
       CrashRunner, Forget, Tick, vars
  <2> QED
    BY <2>1, Types DEF IInv, Fault
<1> QED
  BY <1>1, <1>2, ControlInvariant, PTL DEF Spec

\* A cancelled job has no tracked process that works, where leaders keep their
\* sessions (reconciliation and runner_cancelled).
THEOREM CancelStops ==
  ASSUME SessionsDrop = FALSE
  PROVE  Spec => []CancelledMeansStopped
<1>1. IInv /\ faults.sessions = 0 => CancelledMeansStopped
  BY Types DEF IInv, LeaderFacts, ExecutorInv, CancelledMeansStopped, Tracked, Live
<1> QED
  BY <1>1, ControlInvariant, SessionsKept, PTL

\* MAX_CONCURRENT_JOBS holds where leaders keep their sessions, although the
\* count and the claim are separate statements (claim_next).
THEOREM ConcurrencyBounded ==
  ASSUME SessionsDrop = FALSE
  PROVE  Spec => []ConcurrencyLimit
<1>1. IInv /\ faults.sessions = 0 => ConcurrencyLimit
  BY DEF IInv, LeaderFacts, LimitInv, ConcurrencyLimit
<1> QED
  BY <1>1, ControlInvariant, SessionsKept, PTL

------------------------------------------------------------------------------
(* The life cycle.  A step moves one row at most, as RowStep says, or      *)
(* starts a job, and the starts of a job stay below its attempts and       *)
(* RUNNER_MAX_ATTEMPTS: only a claim pays for a start, and a controller    *)
(* grants a retry only of an attempt that was not the last one.            *)

\* Past deeds of the job are kept.
Kept(r, q) == q.attempt = r.attempt /\ q.started = r.started

RowStep(r, q) ==
  \/ Kept(r, q) /\ q.state = r.state
  \/ Kept(r, q) /\ r.state = "absent" /\ q.state = "pending"
  \/ Kept(r, q) /\ r.state = "pending" /\ q.state = "cancelled"
  \/ Kept(r, q) /\ r.state \in {"dispatched", "running"}
                /\ q.state \in {"cancel_requested", "failed"}
  \/ Kept(r, q) /\ r.state = "running" /\ q.state \in {"succeeded", "cancelled"}
  \/ Kept(r, q) /\ r.state = "cancel_requested" /\ q.state = "cancelled"
  \/ /\ r.state = "pending" /\ q.state = "dispatched"
     /\ q.attempt = r.attempt + 1 /\ q.started = r.started
  \/ Kept(r, q) /\ r.state = "dispatched" /\ q.state = "pending"
  \/ /\ r.state = "running" /\ q.state = "pending" /\ r.attempt < RunnerMaxAttempts
     /\ q.attempt = r.attempt /\ q.started = None

StartStep(r, q) ==
  /\ r.state = "dispatched" /\ q.state = "running"
  /\ q.attempt = r.attempt /\ q.started # None

\* A job that waits or is assigned can still afford a start.
StartsOK(r, n) ==
  /\ n <= r.attempt /\ n <= RunnerMaxAttempts
  /\ r.state = "dispatched" => n < r.attempt
  /\ r.state \in {"absent", "pending", "dispatched"} => r.started = None /\ n < RunnerMaxAttempts
  /\ r.state = "running" => r.started # None

StartInv == starts \in [Jobs -> Nat] /\ \A j \in Jobs : StartsOK(job[j], starts[j])

RetryInv ==
  \A c \in Controllers : \A h \in hand[c] :
    h.action = "retry" => h.row.attempt < RunnerMaxAttempts

LifeInv == IInv /\ StartInv /\ RetryInv

\* What the methods leave behind, seen as moves.
LEMMA EndedRowMoves ==
  ASSUME NEW r \in Row
  PROVE  /\ Kept(r, CancelledRow(r, Now)) /\ CancelledRow(r, Now).state = "cancelled"
         /\ Kept(r, FailedRow(r, Now)) /\ FailedRow(r, Now).state = "failed"
         /\ Kept(r, SucceededRow(r, None, Now)) /\ SucceededRow(r, None, Now).state = "succeeded"
BY DEF Kept, CancelledRow, FailedRow, SucceededRow, FinishedRow, Row

LEMMA LivingRowMoves ==
  ASSUME NEW r \in Row
  PROVE  /\ Kept(r, TouchedRow(r, Now)) /\ TouchedRow(r, Now).state = r.state
         /\ Kept(r, RenewedRow(r, Now)) /\ RenewedRow(r, Now).state = r.state
         /\ Kept(r, AgedRow(r)) /\ AgedRow(r).state = r.state
         /\ Kept(r, DispatchRequeuedRow(r, Now)) /\ DispatchRequeuedRow(r, Now).state = "pending"
         /\ LET q == RunnerRequeuedRow(r, Now)
            IN  q.attempt = r.attempt /\ q.started = None /\ q.state = "pending"
         /\ LET q == StartedRow(r, Now)
            IN  q.attempt = r.attempt /\ q.started # None /\ q.state = "running"
         /\ LET q == ClaimedRow(r, Now)
            IN  q.attempt = r.attempt + 1 /\ q.started = r.started /\ q.state = "dispatched"
         /\ LET q == CancelRequestedRow(r, Now)
            IN  /\ Kept(r, q)
                /\ q.state = IF r.state = "pending" THEN "cancelled" ELSE "cancel_requested"
<1>1. /\ Kept(r, TouchedRow(r, Now)) /\ TouchedRow(r, Now).state = r.state
      /\ Kept(r, RenewedRow(r, Now)) /\ RenewedRow(r, Now).state = r.state
      /\ Kept(r, AgedRow(r)) /\ AgedRow(r).state = r.state
  BY DEF Kept, TouchedRow, RenewedRow, AgedRow, Row
<1>2. /\ Kept(r, DispatchRequeuedRow(r, Now)) /\ DispatchRequeuedRow(r, Now).state = "pending"
      /\ LET q == RunnerRequeuedRow(r, Now)
         IN  q.attempt = r.attempt /\ q.started = None /\ q.state = "pending"
  BY DEF Kept, DispatchRequeuedRow, RunnerRequeuedRow, Row
<1>3. LET q == StartedRow(r, Now)
      IN  q.attempt = r.attempt /\ q.started # None /\ q.state = "running"
  BY NowFacts DEF StartedRow, Row, None
<1>4. LET q == ClaimedRow(r, Now)
      IN  q.attempt = r.attempt + 1 /\ q.started = r.started /\ q.state = "dispatched"
  BY DEF ClaimedRow, Row
<1>5. LET q == CancelRequestedRow(r, Now)
      IN  /\ Kept(r, q)
          /\ q.state = IF r.state = "pending" THEN "cancelled" ELSE "cancel_requested"
  BY DEF Kept, CancelRequestedRow, Row
<1> QED
  BY <1>1, <1>2, <1>3, <1>4, <1>5

LEMMA ReconciledRowMoves ==
  ASSUME NEW r \in Row, NEW action
  PROVE  /\ r.state \in {"dispatched", "cancel_requested"}
              => RowStep(r, DispatchReconciledRow(r, action, Now))
         /\ r.state \in {"running", "cancel_requested"}
            /\ (action = "retry" => r.attempt < RunnerMaxAttempts)
              => RowStep(r, StaleReconciledRow(r, action, Now))
<1>1. ASSUME r.state \in {"dispatched", "cancel_requested"}
      PROVE  RowStep(r, DispatchReconciledRow(r, action, Now))
  <2>1. CASE action = "renew"
    BY <2>1, LivingRowMoves DEF DispatchReconciledRow, RowStep
  <2>2. CASE action # "renew" /\ r.state = "cancel_requested"
    BY <2>2, EndedRowMoves DEF DispatchReconciledRow, RowStep
  <2>3. CASE action # "renew" /\ r.state = "dispatched"
    BY <2>3, LivingRowMoves, EndedRowMoves DEF DispatchReconciledRow, RowStep
  <2> QED
    BY <1>1, <2>1, <2>2, <2>3
<1>2. ASSUME r.state \in {"running", "cancel_requested"},
             action = "retry" => r.attempt < RunnerMaxAttempts
      PROVE  RowStep(r, StaleReconciledRow(r, action, Now))
  <2>1. CASE action = "cancel" \/ r.state = "cancel_requested"
    BY <1>2, <2>1, EndedRowMoves DEF StaleReconciledRow, RowStep
  <2>2. CASE ~(action = "cancel" \/ r.state = "cancel_requested")
    BY <1>2, <2>2, LivingRowMoves, EndedRowMoves DEF StaleReconciledRow, RowStep
  <2> QED
    BY <2>1, <2>2
<1> QED
  BY <1>1, <1>2

\* A move keeps what the rows say of starts, and a start is paid for.
LEMMA StartsKept ==
  ASSUME NEW r \in Row, NEW q \in Row, NEW n \in Nat, StartsOK(r, n)
  PROVE  /\ RowStep(r, q) => StartsOK(q, n)
         /\ StartStep(r, q) => StartsOK(q, n + 1)
<1>1. r.attempt \in Nat /\ q.attempt \in Nat /\ RunnerMaxAttempts \in Nat
  BY ConfigAssumption DEF Row
<1>2. ASSUME RowStep(r, q), Kept(r, q) PROVE StartsOK(q, n)
  BY <1>1, <1>2 DEF StartsOK, RowStep, Kept
<1>3. ASSUME RowStep(r, q), ~Kept(r, q) PROVE StartsOK(q, n)
  BY <1>1, <1>3 DEF StartsOK, RowStep, Kept
<1>4. StartStep(r, q) => StartsOK(q, n + 1)
  BY <1>1 DEF StartsOK, StartStep
<1> QED
  BY <1>2, <1>3, <1>4

\* At most one row moves, and a start is counted.
JobMoves(j) ==
  /\ job' = [job EXCEPT ![j] = job'[j]]
  /\ \/ RowStep(job[j], job'[j]) /\ UNCHANGED starts
     \/ StartStep(job[j], job'[j]) /\ starts' = [starts EXCEPT ![j] = @ + 1]

NoJobMoves ==
  /\ \A j \in Jobs : Kept(job[j], job'[j]) /\ job'[j].state = job[j].state
  /\ UNCHANGED starts

LEMMA SetRowJobMoves ==
  ASSUME job \in [Jobs -> Row], NEW j \in Jobs, NEW q, SetRow(j, q)
  PROVE  /\ RowStep(job[j], q) /\ UNCHANGED starts => JobMoves(j)
         /\ StartStep(job[j], q) /\ starts' = [starts EXCEPT ![j] = @ + 1] => JobMoves(j)
BY DEF SetRow, JobMoves

LEMMA RestMoves ==
  ASSUME UNCHANGED <<job, starts>>
  PROVE  NoJobMoves
BY DEF NoJobMoves, Kept

LEMMA UserJobMoves ==
  ASSUME DataInv, StartInv, NEW j \in Jobs, UserStep(j)
  PROVE  JobMoves(j)
<1>0. job \in [Jobs -> Row] /\ job[j] \in Row /\ RowInv(job[j]) /\ StartsOK(job[j], starts[j])
  BY Types DEF StartInv
<1>1. CASE CreateJob(j)
  <2>1. /\ SetRow(j, CreatedRow(Now)) /\ job[j].state = "absent" /\ job[j].attempt = 0
        /\ job[j].started = None
    BY <1>0, <1>1 DEF CreateJob, RowInv, StartsOK
  <2>2. Kept(job[j], CreatedRow(Now)) /\ CreatedRow(Now).state = "pending"
    BY <2>1 DEF Kept, CreatedRow, NoRow
  <2> QED
    BY <1>0, <1>1, <2>1, <2>2, SetRowJobMoves DEF RowStep, CreateJob, RunnerVars
<1>2. CASE RequestCancel(j)
  <2>1. RowStep(job[j], CancelRequestedRow(job[j], Now))
    BY <1>0, <1>2, LivingRowMoves DEF RequestCancel, RowStep
  <2> QED
    BY <1>0, <1>2, <2>1, SetRowJobMoves DEF RequestCancel, RunnerVars
<1> QED
  BY <1>1, <1>2 DEF UserStep

LEMMA RunnerJobMoves ==
  ASSUME DataInv, NEW rn \in Runners, RunnerStep(rn)
  PROVE  NoJobMoves \/ JobMoves(rn[1])
<1> DEFINE r == job[rn[1]]
<1>0. job \in [Jobs -> Row] /\ rn[1] \in Jobs /\ r \in Row /\ RowOf(rn) = r
  BY Types DEF RowOf
<1>1. CASE Start(rn)
  <2>1. r.state = "dispatched" => StartStep(r, StartedRow(r, Now))
    BY <1>0, LivingRowMoves DEF StartStep
  <2> QED
    BY <1>0, <1>1, <2>1, SetRowJobMoves, RestMoves DEF Start
<1>2. CASE Heartbeat(rn)
  <2>1. RowStep(r, TouchedRow(r, Now))
    BY <1>0, LivingRowMoves DEF RowStep
  <2> QED
    BY <1>0, <1>2, <2>1, SetRowJobMoves DEF Heartbeat, RunnerVars
<1>3. CASE LimitExceeded(rn)
  <2>1. r.state = "running" => RowStep(r, FailedRow(r, Now))
    BY <1>0, EndedRowMoves DEF RowStep
  <2> QED
    BY <1>0, <1>3, <2>1, SetRowJobMoves DEF LimitExceeded, RunnerVars
<1>4. CASE Complete(rn)
  <2>1. r.state = "running" => RowStep(r, SucceededRow(r, None, Now))
    BY <1>0, EndedRowMoves DEF RowStep
  <2> QED
    BY <1>0, <1>4, <2>1, SetRowJobMoves, RestMoves DEF Complete, Deliver
<1>5. CASE ReportCancelled(rn)
  <2>1. r.state \in {"running", "cancel_requested"} => RowStep(r, CancelledRow(r, Now))
    BY <1>0, EndedRowMoves DEF RowStep
  <2> QED
    BY <1>0, <1>5, <2>1, SetRowJobMoves, RestMoves DEF ReportCancelled, Deliver
<1>6. CASE ReportFailed(rn)
  <2>1. r.state \in {"dispatched", "running"} => RowStep(r, FailedRow(r, Now))
    BY <1>0, EndedRowMoves DEF RowStep
  <2> QED
    BY <1>0, <1>6, <2>1, SetRowJobMoves, RestMoves DEF ReportFailed, Deliver
<1>7. CASE FinishResearch(rn) \/ PollState(rn) \/ Kill(rn) \/ CrashRunner(rn) \/ Forget(rn)
  BY <1>7, RestMoves DEF FinishResearch, PollState, Kill, CrashRunner, Forget
<1> QED
  BY <1>1, <1>2, <1>3, <1>4, <1>5, <1>6, <1>7 DEF RunnerStep, RunnerProgress

\* What a controller holds with the intent to retry can be retried.
HandRetries(c) ==
  \A b \in Controllers : \A g \in hand'[b] : g.action = "retry" =>
    \/ b = c /\ g.row.attempt < RunnerMaxAttempts
    \/ \E h \in hand[b] : h.action = "retry" /\ h.row.attempt = g.row.attempt

LEMMA ControllerRetries ==
  ASSUME DataInv, NEW c \in Controllers,
         ControllerStep(c) \/ LoseSession(c) \/ CrashController(c)
  PROVE  HandRetries(c)
<1>0. hand \in [Controllers -> SUBSET HeldRow]
  BY Types
<1>1. CASE UNCHANGED hand \/ hand' = [hand EXCEPT ![c] = {}]
  BY <1>0, <1>1 DEF HandRetries
<1>2. CASE InspectDispatch(c)
  <2>1. ASSUME NEW d, NEW status PROVE DispatchAction(d, status) \in {"cancel", "renew", "requeue", "fail"}
    BY DEF DispatchAction
  <2>2. UNCHANGED hand \/ \E d \in todo[c] : hand' = [hand EXCEPT ![c] =
          {[row |-> d, action |-> DispatchAction(d, Status(<<d.id, d.attempt>>))]}]
    BY <1>2 DEF InspectDispatch
  <2>3. ASSUME NEW d \in todo[c], hand' = [hand EXCEPT ![c] =
               {[row |-> d, action |-> DispatchAction(d, Status(<<d.id, d.attempt>>))]}]
        PROVE  HandRetries(c)
    BY <1>0, <2>1, <2>3 DEF HandRetries
  <2> QED
    BY <1>1, <2>2, <2>3
<1>3. CASE InspectRunner(c)
  <2>1. ASSUME NEW s, StaleAction(s) = "retry" PROVE s.attempt < RunnerMaxAttempts
    BY <2>1 DEF StaleAction
  <2>2. UNCHANGED hand \/ \E s \in todo[c] :
          hand' = [hand EXCEPT ![c] = {[row |-> s, action |-> StaleAction(s)]}]
    BY <1>3 DEF InspectRunner
  <2>3. ASSUME NEW s \in todo[c],
               hand' = [hand EXCEPT ![c] = {[row |-> s, action |-> StaleAction(s)]}]
        PROVE  HandRetries(c)
    BY <1>0, <2>1, <2>3 DEF HandRetries
  <2> QED
    BY <1>1, <2>2, <2>3
<1>4. CASE ClaimNext(c)
  <2>1. UNCHANGED hand \/ \E d : hand' = [hand EXCEPT ![c] = {[row |-> d, action |-> "submit"]}]
    BY <1>4 DEF ClaimNext
  <2>2. ASSUME NEW d, hand' = [hand EXCEPT ![c] = {[row |-> d, action |-> "submit"]}]
        PROVE  HandRetries(c)
    BY <1>0, <2>2 DEF HandRetries
  <2> QED
    BY <1>1, <2>1, <2>2
<1>5. CASE Elect(c) \/ CheckLease(c) \/ ListExpiredDispatches(c) \/ ListStaleRunners(c)
           \/ CountActive(c) \/ LoseSession(c) \/ CrashController(c)
  BY <1>1, <1>5 DEF Elect, CheckLease, ListExpiredDispatches, ListStaleRunners, List, CountActive,
     LoseSession, CrashController, LeaveLoop
<1>6. CASE ReconcileExpiredDispatch(c) \/ ReconcileStaleRunner(c) \/ Submit(c) \/ SubmitFailed(c)
  BY <1>1, <1>6 DEF ReconcileExpiredDispatch, ReconcileStaleRunner, Submit, SubmitFailed, LeaveLoop
<1> QED
  BY <1>2, <1>3, <1>4, <1>5, <1>6 DEF ControllerStep

LEMMA ControllerJobMoves ==
  ASSUME DataInv, RetryInv, NEW c \in Controllers,
         ControllerStep(c) \/ LoseSession(c) \/ CrashController(c)
  PROVE  NoJobMoves \/ \E j \in Jobs : JobMoves(j)
<1>0. /\ job \in [Jobs -> Row]
      /\ \A h \in hand[c] : h.row.id \in Jobs /\ EntryInv(h.row)
  BY Types DEF DataInv, ListsInv
<1>1. CASE ReconcileExpiredDispatch(c)
  <2>1. PICK h \in hand[c] :
          \/ /\ DispatchStillMatches(job[h.row.id], h.row)
             /\ SetRow(h.row.id, DispatchReconciledRow(job[h.row.id], h.action, Now))
          \/ UNCHANGED job
    BY <1>1 DEF ReconcileExpiredDispatch
  <2>2. DispatchStillMatches(job[h.row.id], h.row)
          => RowStep(job[h.row.id], DispatchReconciledRow(job[h.row.id], h.action, Now))
    BY <1>0, ReconciledRowMoves DEF DispatchStillMatches
  <2>3. UNCHANGED starts
    BY <1>1 DEF ReconcileExpiredDispatch, RunnerVars
  <2> QED
    BY <1>0, <2>1, <2>2, <2>3, SetRowJobMoves, RestMoves
<1>2. CASE ReconcileStaleRunner(c)
  <2>1. PICK h \in hand[c] :
          \/ /\ RunnerStillMatches(job[h.row.id], h.row)
             /\ SetRow(h.row.id, StaleReconciledRow(job[h.row.id], h.action, Now))
          \/ UNCHANGED job
    BY <1>2 DEF ReconcileStaleRunner
  <2>2. h.action = "retry" => h.row.attempt < RunnerMaxAttempts
    BY DEF RetryInv
  <2>3. RunnerStillMatches(job[h.row.id], h.row)
          => RowStep(job[h.row.id], StaleReconciledRow(job[h.row.id], h.action, Now))
    BY <1>0, <2>2, ReconciledRowMoves DEF RunnerStillMatches
  <2>4. UNCHANGED starts
    BY <1>2 DEF ReconcileStaleRunner, RunnerVars
  <2> QED
    BY <1>0, <2>1, <2>3, <2>4, SetRowJobMoves, RestMoves
<1>3. CASE ClaimNext(c)
  <2>1. UNCHANGED job \/ \E j \in PendingJobs : SetRow(j, ClaimedRow(job[j], Now))
    BY <1>3 DEF ClaimNext
  <2>2. ASSUME NEW j \in PendingJobs
        PROVE  j \in Jobs /\ RowStep(job[j], ClaimedRow(job[j], Now))
    BY <1>0, LivingRowMoves DEF PendingJobs, RowStep
  <2>3. UNCHANGED starts
    BY <1>3 DEF ClaimNext, RunnerVars
  <2> QED
    BY <1>0, <2>1, <2>2, <2>3, SetRowJobMoves, RestMoves
<1>4. CASE SubmitFailed(c)
  <2>1. PICK h \in hand[c] :
          \/ /\ job[h.row.id].state \in {"dispatched", "running"}
             /\ SetRow(h.row.id, FailedRow(job[h.row.id], Now))
          \/ UNCHANGED job
    BY <1>4 DEF SubmitFailed
  <2>2. job[h.row.id].state \in {"dispatched", "running"}
          => RowStep(job[h.row.id], FailedRow(job[h.row.id], Now))
    BY <1>0, EndedRowMoves DEF RowStep
  <2>3. UNCHANGED starts
    BY <1>4 DEF SubmitFailed, RunnerVars
  <2> QED
    BY <1>0, <2>1, <2>2, <2>3, SetRowJobMoves, RestMoves
<1>5. CASE Elect(c) \/ CheckLease(c) \/ ListExpiredDispatches(c) \/ InspectDispatch(c)
           \/ ListStaleRunners(c) \/ InspectRunner(c) \/ CountActive(c) \/ Submit(c)
           \/ LoseSession(c) \/ CrashController(c)
  BY <1>5, RestMoves DEF Elect, CheckLease, ListExpiredDispatches, InspectDispatch,
     ListStaleRunners, List, InspectRunner, CountActive, Submit, LoseSession, CrashController,
     RunnerVars
<1> QED
  BY <1>1, <1>2, <1>3, <1>4, <1>5 DEF ControllerStep

\* Time changes nothing of this.
LEMMA TickMoves ==
  ASSUME DataInv, RetryInv, Tick
  PROVE  NoJobMoves /\ RetryInv'
<1>1. NoJobMoves
  BY Types, LivingRowMoves DEF Tick, NoJobMoves, RunnerVars
<1>2. ASSUME NEW c \in Controllers, NEW g \in hand'[c], g.action = "retry"
      PROVE  g.row.attempt < RunnerMaxAttempts
  <2>1. PICK h \in hand[c] : g = [h EXCEPT !.row = AgedEntry(@)]
    BY <1>2 DEF Tick
  <2>2. h \in HeldRow /\ EntryInv(h.row)
    BY Types DEF DataInv, ListsInv
  <2>3. g.action = h.action /\ g.row = AgedEntry(h.row)
    BY <2>1, <2>2 DEF HeldRow
  <2>4. g.row.attempt = h.row.attempt
    BY <2>2, <2>3, AgedEntryInv
  <2> QED
    BY <1>2, <2>3, <2>4 DEF RetryInv
<1> QED
  BY <1>1, <1>2 DEF RetryInv

LEMMA StepMoves ==
  ASSUME DataInv, StartInv, RetryInv, [Next]_vars
  PROVE  RetryInv' /\ (NoJobMoves \/ \E j \in Jobs : JobMoves(j))
<1>1. UNCHANGED hand => RetryInv'
  BY DEF RetryInv
<1>2. CASE \E j \in Jobs : UserStep(j)
  BY <1>1, <1>2, UserJobMoves DEF UserStep, CreateJob, RequestCancel, ControllerVars
<1>3. ASSUME NEW c \in Controllers, ControllerStep(c) \/ LoseSession(c) \/ CrashController(c)
      PROVE  RetryInv' /\ (NoJobMoves \/ \E j \in Jobs : JobMoves(j))
  BY <1>3, ControllerRetries, ControllerJobMoves DEF HandRetries, RetryInv
<1>4. ASSUME NEW rn \in Runners, RunnerStep(rn)
      PROVE  RetryInv' /\ (NoJobMoves \/ \E j \in Jobs : JobMoves(j))
  <2>1. rn[1] \in Jobs /\ UNCHANGED hand
    BY <1>4, Types, RunnerMoves
  <2> QED
    BY <1>1, <1>4, <2>1, RunnerJobMoves
<1>5. CASE Tick
  BY <1>5, TickMoves
<1>6. CASE UNCHANGED vars
  BY <1>1, <1>6, RestMoves DEF vars
<1> QED
  BY <1>2, <1>3, <1>4, <1>5, <1>6 DEF Next, UserStep, RunnerStep

LEMMA LifeInit == Init => LifeInv
<1> SUFFICES ASSUME Init PROVE LifeInv
  OBVIOUS
<1>1. NoRow.state = "absent" /\ NoRow.attempt = 0 /\ NoRow.started = None
  BY DEF NoRow
<1>2. StartInv
  BY <1>1, ConfigAssumption DEF Init, StartInv, StartsOK
<1>3. RetryInv
  BY DEF Init, RetryInv
<1> QED
  BY <1>2, <1>3, InitHolds DEF LifeInv

LEMMA LifeKept ==
  ASSUME LifeInv, [Next]_vars
  PROVE  LifeInv'
<1>0. DataInv /\ StartInv /\ RetryInv /\ IInv /\ starts \in [Jobs -> Nat]
  BY DEF LifeInv, IInv, StartInv
<1>1. IInv' /\ DataInv'
  BY <1>0, StepHolds DEF IInv
<1>2. job \in [Jobs -> Row] /\ job' \in [Jobs -> Row]
  BY <1>0, <1>1 DEF DataInv, RowsInv
<1>3. RetryInv' /\ (NoJobMoves \/ \E j \in Jobs : JobMoves(j))
  BY <1>0, StepMoves
<1>4. starts' \in [Jobs -> Nat]
  BY <1>0, <1>3 DEF NoJobMoves, JobMoves
<1>5. ASSUME NEW j \in Jobs
      PROVE  \/ RowStep(job[j], job'[j]) /\ starts'[j] = starts[j]
             \/ StartStep(job[j], job'[j]) /\ starts'[j] = starts[j] + 1
  <2>1. CASE NoJobMoves
    BY <2>1 DEF NoJobMoves, RowStep
  <2>2. ASSUME NEW i \in Jobs, JobMoves(i), i # j
        PROVE  job'[j] = job[j] /\ starts'[j] = starts[j]
    BY <1>0, <1>2, <2>2 DEF JobMoves
  <2>3. CASE JobMoves(j)
    BY <1>0, <2>3 DEF JobMoves
  <2> QED
    BY <1>3, <2>1, <2>2, <2>3 DEF RowStep, Kept
<1>6. ASSUME NEW j \in Jobs PROVE StartsOK(job'[j], starts'[j])
  BY <1>0, <1>2, <1>5, StartsKept DEF StartInv
<1> QED
  BY <1>1, <1>3, <1>4, <1>6 DEF LifeInv, StartInv

\* How JobPhase and JobBegun follow the row that moves.
LEMMA PhaseMoves ==
  ASSUME LifeInv, NEW j \in Jobs, JobMoves(j)
  PROVE  /\ JobPhase' = [JobPhase EXCEPT ![j] = PhaseOf(job'[j].state)]
         /\ JobBegun' = [JobBegun EXCEPT ![j] = job'[j].started # None]
         /\ JobPhase[j] = PhaseOf(job[j].state)
         /\ JobBegun[j] = (job[j].started # None)
<1>1. \A i \in Jobs : i # j => job'[i] = job[i]
  BY DEF JobMoves, LifeInv, IInv, DataInv, RowsInv
<1>2. /\ JobPhase' = [JobPhase EXCEPT ![j] = PhaseOf(job'[j].state)]
      /\ JobBegun' = [JobBegun EXCEPT ![j] = job'[j].started # None]
  BY <1>1 DEF JobPhase, JobBegun
<1> QED
  BY <1>2 DEF JobPhase, JobBegun

\* The row that moves makes a step of the life cycle, or none that shows.
LEMMA RowImplements ==
  ASSUME LifeInv, LifeInv', NEW j \in Jobs, JobMoves(j)
  PROVE  [Lifecycle!Next]_(Lifecycle!lvars)
<1> DEFINE r == job[j]
           q == job'[j]
<1>1. /\ StartsOK(r, starts[j]) /\ StartsOK(q, starts'[j])
      /\ \/ RowStep(r, q) /\ UNCHANGED starts
         \/ StartStep(r, q) /\ starts' = [starts EXCEPT ![j] = starts[j] + 1]
  BY DEF JobMoves, LifeInv, StartInv
<1>2. /\ JobPhase' = [JobPhase EXCEPT ![j] = PhaseOf(q.state)]
      /\ JobBegun' = [JobBegun EXCEPT ![j] = q.started # None]
      /\ JobPhase[j] = PhaseOf(r.state)
      /\ JobBegun[j] = (r.started # None)
  BY PhaseMoves
<1> HIDE DEF r, q
<1>3. /\ PhaseOf(q.state) = PhaseOf(r.state) => JobPhase' = JobPhase
      /\ q.started = r.started => JobBegun' = JobBegun
  BY <1>2 DEF JobPhase, JobBegun
<1>4. CASE StartStep(r, q) /\ starts' = [starts EXCEPT ![j] = starts[j] + 1]
  <2>1. JobPhase[j] = "assigned" /\ JobPhase' = JobPhase
    BY <1>2, <1>3, <1>4 DEF PhaseOf, StartStep
  <2>2. ~JobBegun[j] /\ JobBegun' = [JobBegun EXCEPT ![j] = TRUE]
    BY <1>1, <1>2, <1>4 DEF StartsOK, StartStep
  <2>3. starts[j] < RunnerMaxAttempts
    BY <1>1, <1>4 DEF StartsOK, StartStep
  <2> QED
    BY <1>4, <2>1, <2>2, <2>3 DEF Lifecycle!Next, Lifecycle!Begin
<1>5. CASE RowStep(r, q) /\ UNCHANGED starts
  <2>1. ASSUME NEW x, NEW y, q.started = r.started, PhaseOf(r.state) = x, PhaseOf(q.state) = y
        PROVE  Lifecycle!Move(j, x, y) /\ UNCHANGED <<JobBegun, starts>>
    BY <1>2, <1>3, <1>5, <2>1 DEF Lifecycle!Move
  <2>2. CASE Kept(r, q) /\ q.state = r.state
    BY <1>3, <1>5, <2>2 DEF Lifecycle!lvars, Kept
  <2>3. CASE Kept(r, q) /\ r.state = "absent" /\ q.state = "pending"
    BY <2>1, <2>3 DEF PhaseOf, Kept, Lifecycle!Next, Lifecycle!Submit
  <2>4. CASE Kept(r, q) /\ \/ r.state = "pending" /\ q.state = "cancelled"
                           \/ r.state = "cancel_requested" /\ q.state = "cancelled"
    BY <2>1, <2>4 DEF PhaseOf, Kept, Lifecycle!Next, Lifecycle!Cancel
  <2>5. CASE Kept(r, q) /\ r.state \in {"dispatched", "running"}
                        /\ q.state \in {"cancel_requested", "failed"}
    BY <2>1, <2>5 DEF PhaseOf, Kept, Lifecycle!Next, Lifecycle!AskToStop, Lifecycle!Fail
  <2>6. CASE Kept(r, q) /\ r.state = "running" /\ q.state \in {"succeeded", "cancelled"}
    <3>1. JobBegun[j]
      BY <1>1, <1>2, <2>6 DEF StartsOK
    <3> QED
      BY <2>1, <2>6, <3>1
         DEF PhaseOf, Kept, Lifecycle!Next, Lifecycle!Succeed, Lifecycle!Cancel
  <2>7. CASE r.state = "pending" /\ q.state = "dispatched" /\ q.started = r.started
    BY <2>1, <2>7 DEF PhaseOf, Lifecycle!Next, Lifecycle!Assign
  <2>8. CASE r.state \in {"dispatched", "running"} /\ q.state = "pending"
    <3>1. Lifecycle!Move(j, "assigned", "queued")
      BY <1>2, <2>8 DEF PhaseOf, Lifecycle!Move
    <3>2. JobBegun' = [JobBegun EXCEPT ![j] = FALSE]
      BY <1>1, <1>2, <2>8 DEF StartsOK
    <3> QED
      BY <1>5, <3>1, <3>2 DEF Lifecycle!Next, Lifecycle!GiveBack
  <2> QED
    BY <1>5, <2>2, <2>3, <2>4, <2>5, <2>6, <2>7, <2>8 DEF RowStep
<1> QED
  BY <1>1, <1>4, <1>5

LEMMA StepImplements ==
  ASSUME LifeInv, [Next]_vars
  PROVE  [Lifecycle!Next]_(Lifecycle!lvars)
<1>1. NoJobMoves \/ \E j \in Jobs : JobMoves(j)
  BY StepMoves DEF LifeInv, IInv
<1>2. CASE NoJobMoves
  BY <1>2 DEF NoJobMoves, Kept, JobPhase, JobBegun, Lifecycle!lvars
<1> QED
  BY <1>1, <1>2, LifeKept, RowImplements

\* Starts, and what a controller that decided on a retry knows, stay within the
\* attempts, whoever leads and whatever is lost (controller.py, reconcile_stale_runners).
THEOREM LifeInvariant == Spec => []LifeInv
BY LifeInit, LifeKept, PTL DEF Spec

\* Every variable keeps its type, and a controller handles one row at a time.
THEOREM ControlTypeCorrect == Spec => []TypeOK
<1>1. LifeInv => TypeOK
  <2> SUFFICES ASSUME LifeInv PROVE TypeOK
    OBVIOUS
  <2>1. ASSUME NEW c \in Controllers PROVE Cardinality(hand[c]) <= 1
    <3>1. CASE hand[c] = {}
      BY <3>1, FS_EmptySet
    <3>2. ASSUME NEW h \in hand[c] PROVE Cardinality(hand[c]) <= 1
      <4>1. hand[c] = {h}
        BY DEF LifeInv, IInv, DataInv, ListsInv
      <4> QED
        <5>1. Cardinality({h}) = 1
          BY FS_Singleton
        <5> QED
          BY <4>1, <5>1
    <3> QED
      BY <3>1, <3>2
  <2> QED
    BY <2>1 DEF LifeInv, StartInv, IInv, DataInv, RowsInv, ListsInv, PlainTypes, ProcsInv, TypeOK
<1> QED
  BY <1>1, LifeInvariant, PTL

\* Controllers, executor and runners implement the life cycle promised to the user,
\* for any jobs, replicas, crashes, lost sessions and lost requests.
THEOREM ControllersImplement == Spec => ControllersImplementLifecycle
<1>1. Init => Lifecycle!Init
  <2>1. NoRow.state = "absent" /\ NoRow.started = None
    BY DEF NoRow
  <2>2. PhaseOf("absent") = "none"
    BY DEF PhaseOf
  <2>3. Init => \A j \in Jobs : job[j] = NoRow
    BY DEF Init
  <2>4. Init => JobPhase = [j \in Jobs |-> "none"]
    BY <2>1, <2>2, <2>3 DEF JobPhase
  <2>5. Init => JobBegun = [j \in Jobs |-> FALSE]
    BY <2>1, <2>3 DEF JobBegun
  <2> QED
    BY <2>4, <2>5 DEF Init, Lifecycle!Init
<1>2. LifeInv /\ [Next]_vars => [Lifecycle!Next]_(Lifecycle!lvars)
  BY StepImplements
<1> QED
  BY <1>1, <1>2, LifeInvariant, PTL DEF Spec, ControllersImplementLifecycle, Lifecycle!Spec

===============================================================================
