-------------------------- MODULE ArtifactLifecycle --------------------------
(***************************************************************************)
(* Report artifacts live in two places that no transaction spans: objects  *)
(* in the artifact store (artifacts.py) and rows of research_artifacts.    *)
(* runner_complete (api.py) checks the job, uploads every artifact under a *)
(* fresh upload id and records them in a second transaction that checks    *)
(* the job again.  RetentionCleaner (cleanup.py) deletes what is past its  *)
(* retention and sweeps objects no row refers to.  Both may stop anywhere. *)
(*                                                                         *)
(* An upload is one call of runner_complete; the object keys contain the   *)
(* job, the attempt and the upload id, so uploads never share a key.       *)
(***************************************************************************)
EXTENDS Integers

CONSTANTS
  Jobs,               \* job ids
  Uploads,            \* upload ids
  Names,              \* artifact names of a completion
  ArtifactRetention,  \* ARTIFACT_RETENTION_DAYS
  JobRetention,       \* JOB_RETENTION_DAYS
  OrphanGrace,        \* ORPHAN_GRACE_SECONDS
  MaxUploadTime,      \* environment: no completion call lasts longer
  MaxRequeues,        \* bound: how often a job gets a new token
  MaxTime             \* bound: the clock stops here

ASSUME RetentionAssumption ==
  /\ Names # {}
  /\ ArtifactRetention \in Nat
  /\ JobRetention \in Nat /\ JobRetention >= ArtifactRetention
  /\ MaxUploadTime \in Nat
  /\ OrphanGrace \in Nat /\ OrphanGrace >= MaxUploadTime
  /\ MaxRequeues \in Nat
  /\ MaxTime \in Nat

Never == -1

Keys == Uploads \X Names

VARIABLES
  now,         \* one clock for gateway, store and cleaner
  job,         \* the columns of research_jobs that matter here
  upload,      \* progress of each completion call
  object,      \* last_modified of each stored object, or Never
  record,      \* object keys in research_artifacts
  cleaner,     \* where the cleanup run stands
  start,       \* when it began: its cutoffs count from here
  todo,        \* what its last listing returned and it has not handled
  hand,        \* the artifact whose object is deleted and whose row is not
  referenced,  \* the recorded keys it read before it listed the objects
  failed       \* history: whether this run skipped anything

vars == <<now, job, upload, object, record, cleaner, start, todo, hand,
          referenced, failed>>

\* A job is "live" until it ends.  token stands for the credential in force: a
\* requeued run gets a new one.
JobRow == [state : {"live", "succeeded", "unsuccessful", "deleted"},
           token : Nat, finished : Int]

UploadRow == [at : {"unused", "putting", "committed", "abandoned"},
              job : Jobs, token : Nat, began : Nat, stored : SUBSET Names]

CleanerStates == {"idle", "query", "artifacts", "record", "jobs", "keys", "list", "sweep"}

Init ==
  /\ now = 0
  /\ job = [j \in Jobs |-> [state |-> "live", token |-> 0, finished |-> Never]]
  /\ upload \in [Uploads -> {[at |-> "unused", job |-> j, token |-> 0, began |-> 0,
                              stored |-> {}] : j \in Jobs}]
  /\ object = [k \in Keys |-> Never]
  /\ record = {}
  /\ cleaner = "idle"
  /\ start = 0
  /\ todo = {}
  /\ hand = {}
  /\ referenced = {}
  /\ failed = FALSE

CleanerVars == <<cleaner, start, todo, hand, referenced, failed>>

Ended(j) == job[j].state \in {"succeeded", "unsuccessful"}
JobOf(k) == upload[k[1]].job

------------------------------------------------------------------------------
(* The job, as far as completion depends on it. *)

\* A stale runner is replaced: its token is no longer accepted.
Requeue(j) ==
  /\ job[j].state = "live"
  /\ job[j].token < MaxRequeues
  /\ job' = [job EXCEPT ![j].token = @ + 1]
  /\ UNCHANGED <<now, upload, object, record, CleanerVars>>

\* The job fails or is cancelled.
EndWithoutReport(j) ==
  /\ job[j].state = "live"
  /\ job' = [job EXCEPT ![j].state = "unsuccessful", ![j].finished = now]
  /\ UNCHANGED <<now, upload, object, record, CleanerVars>>

------------------------------------------------------------------------------
(* runner_complete. *)

\* First transaction: the job is running and the token is its own.
BeginUpload(u) ==
  LET j == upload[u].job IN
  /\ upload[u].at = "unused"
  /\ job[j].state = "live"
  /\ upload' = [upload EXCEPT ![u].at = "putting", ![u].token = job[j].token,
                              ![u].began = now]
  /\ UNCHANGED <<now, job, object, record, CleanerVars>>

Put(u, n) ==
  /\ upload[u].at = "putting"
  /\ n \notin upload[u].stored
  /\ object' = [object EXCEPT ![<<u, n>>] = now]
  /\ upload' = [upload EXCEPT ![u].stored = @ \union {n}]
  /\ UNCHANGED <<now, job, record, CleanerVars>>

\* The store refuses an object or the gateway stops: what is stored stays.
AbandonUpload(u) ==
  /\ upload[u].at = "putting"
  /\ upload' = [upload EXCEPT ![u].at = "abandoned"]
  /\ UNCHANGED <<now, job, object, record, CleanerVars>>

StillOwned(u) ==
  /\ job[upload[u].job].state = "live"
  /\ job[upload[u].job].token = upload[u].token

\* Second transaction: checked again, the job succeeds and its artifacts are
\* recorded, or nothing is and the answer is 409.
CommitUpload(u) ==
  /\ upload[u].at = "putting"
  /\ upload[u].stored = Names
  /\ \/ /\ StillOwned(u)
        /\ job' = [job EXCEPT ![upload[u].job].state = "succeeded",
                              ![upload[u].job].finished = now]
        /\ record' = record \union ({u} \X Names)
        /\ upload' = [upload EXCEPT ![u].at = "committed"]
     \/ /\ ~StillOwned(u)
        /\ upload' = [upload EXCEPT ![u].at = "abandoned"]
        /\ UNCHANGED <<job, record>>
  /\ UNCHANGED <<now, object, CleanerVars>>

------------------------------------------------------------------------------
(* RetentionCleaner.run.  One run at a time: the CronJob forbids overlap. *)

\* Mutant: the retention period is not subtracted.
ExpiredAtOnce(j, retention) == Ended(j) /\ job[j].finished < start

Expired(j, retention) == Ended(j) /\ job[j].finished < start - retention

\* The cutoffs of the whole run are fixed here.
StartRun ==
  /\ cleaner = "idle"
  /\ start' = now
  /\ failed' = FALSE
  /\ cleaner' = "query"
  /\ UNCHANGED <<now, job, upload, object, record, todo, hand, referenced>>

ListExpiredArtifacts ==
  /\ cleaner = "query"
  /\ cleaner' = "artifacts"
  /\ todo' = {k \in record : Expired(JobOf(k), ArtifactRetention)}
  /\ UNCHANGED <<now, job, upload, object, record, start, hand, referenced, failed>>

\* The object goes first; if the store fails, the row waits for the next run.
DeleteExpiredObject(k) ==
  /\ cleaner = "artifacts"
  /\ k \in todo
  /\ todo' = todo \ {k}
  /\ \/ /\ object' = [object EXCEPT ![k] = Never]
        /\ hand' = {k}
        /\ cleaner' = "record"
        /\ UNCHANGED failed
     \/ /\ failed' = TRUE
        /\ UNCHANGED <<object, hand, cleaner>>
  /\ UNCHANGED <<now, job, upload, record, start, referenced>>

DeleteRecord ==
  /\ cleaner = "record"
  /\ record' = record \ hand
  /\ hand' = {}
  /\ cleaner' = "artifacts"
  /\ UNCHANGED <<now, job, upload, object, start, todo, referenced, failed>>

\* Mutant: the job goes with whatever artifacts it still has.
DeletableWithArtifacts(j) == Expired(j, JobRetention)

\* delete_expired_jobs: only jobs without artifact rows, which would otherwise
\* be deleted with them (ON DELETE CASCADE).  Events go in the same transaction.
Deletable(j) ==
  /\ Expired(j, JobRetention)
  /\ \A k \in record : JobOf(k) # j

DeleteExpiredJobs ==
  /\ cleaner = "artifacts"
  /\ todo = {}
  /\ job' = [j \in Jobs |-> IF Deletable(j) THEN [job[j] EXCEPT !.state = "deleted"]
                                            ELSE job[j]]
  /\ cleaner' = "keys"
  /\ UNCHANGED <<now, upload, object, record, start, todo, hand, referenced, failed>>

ReadReferencedKeys ==
  /\ cleaner = "keys"
  /\ referenced' = record
  /\ cleaner' = "list"
  /\ UNCHANGED <<now, job, upload, object, record, start, todo, hand, failed>>

ListObjects ==
  /\ cleaner = "list"
  /\ todo' = {k \in Keys : object[k] # Never}
  /\ cleaner' = "sweep"
  /\ UNCHANGED <<now, job, upload, object, record, start, hand, referenced, failed>>

\* Mutant: every object without a row is an orphan, however young.
OrphanAnyAge(k) == k \notin referenced

\* Mutant: orphans are kept as long as artifacts.
OrphanLateCutoff(k) == k \notin referenced /\ object[k] < start - ArtifactRetention

Orphan(k) == k \notin referenced /\ object[k] < start - OrphanGrace

SweepObject(k) ==
  /\ cleaner = "sweep"
  /\ k \in todo
  /\ todo' = todo \ {k}
  /\ \/ ~Orphan(k) /\ UNCHANGED <<object, failed>>
     \/ /\ Orphan(k)
        /\ \/ object' = [object EXCEPT ![k] = Never] /\ UNCHANGED failed
           \/ failed' = TRUE /\ UNCHANGED object
  /\ UNCHANGED <<now, job, upload, record, cleaner, start, hand, referenced>>

EndRun ==
  /\ cleaner = "sweep"
  /\ todo = {}
  /\ cleaner' = "idle"
  /\ UNCHANGED <<now, job, upload, object, record, start, todo, hand, referenced, failed>>

\* The cleanup pod is killed or the database fails.
CrashRun ==
  /\ cleaner # "idle"
  /\ cleaner' = "idle"
  /\ todo' = {}
  /\ hand' = {}
  /\ failed' = TRUE
  /\ UNCHANGED <<now, job, upload, object, record, start, referenced>>

------------------------------------------------------------------------------
Tick ==
  /\ now < MaxTime
  /\ \A u \in Uploads : upload[u].at = "putting" => now < upload[u].began + MaxUploadTime
  /\ now' = now + 1
  /\ UNCHANGED <<job, upload, object, record, CleanerVars>>

JobStep(j) == Requeue(j) \/ EndWithoutReport(j)

UploadStep(u) ==
  \/ BeginUpload(u)
  \/ \E n \in Names : Put(u, n)
  \/ AbandonUpload(u)
  \/ CommitUpload(u)

CleanerStep ==
  \/ StartRun
  \/ ListExpiredArtifacts
  \/ \E k \in todo : DeleteExpiredObject(k) \/ SweepObject(k)
  \/ DeleteRecord
  \/ DeleteExpiredJobs
  \/ ReadReferencedKeys
  \/ ListObjects
  \/ EndRun
  \/ CrashRun

Next ==
  \/ Tick
  \/ \E j \in Jobs : JobStep(j)
  \/ \E u \in Uploads : UploadStep(u)
  \/ CleanerStep

Spec == Init /\ [][Next]_vars

------------------------------------------------------------------------------
(* Properties. *)

\* Every variable has its type.
TypeOK ==
  /\ now \in Nat
  /\ job \in [Jobs -> JobRow]
  /\ upload \in [Uploads -> UploadRow]
  /\ object \in [Keys -> Nat \union {Never}]
  /\ record \subseteq Keys
  /\ cleaner \in CleanerStates
  /\ start \in Nat
  /\ todo \subseteq Keys
  /\ hand \subseteq Keys
  /\ referenced \subseteq Keys
  /\ failed \in BOOLEAN

\* The report a user was told about stays complete until its retention is over:
\* all artifacts of a succeeded job have a row and an object, and all its rows come
\* from one completion (uq_artifact_job_name), whatever uploads raced with it and
\* wherever earlier cleanup runs stopped.
ReportKept ==
  \A j \in Jobs :
    job[j].state = "succeeded" /\ now - job[j].finished <= ArtifactRetention
      => \E u \in Uploads : /\ upload[u].job = j
                            /\ \A n \in Names : <<u, n>> \in record /\ object[<<u, n>>] # Never
                            /\ \A k \in record : JobOf(k) = j => k[1] = u

\* A row without its object is only ever what a cleanup run left of a job past
\* its retention: the sweep never takes the object of a recorded artifact, though
\* it compares with rows it read earlier.
NoDanglingRecord ==
  \A k \in record :
    object[k] # Never \/ now - job[JobOf(k)].finished > ArtifactRetention

\* A cleanup run that skipped nothing leaves only objects that are recorded or
\* were uploaded within the grace period before it began: what failed and crashed
\* completions and earlier runs left behind does not pile up.
SweepCollects ==
  [][EndRun /\ ~failed
       => \A k \in Keys : object[k] # Never /\ object[k] < start - OrphanGrace
                            => k \in record]_vars

\* A job row goes only after the objects of its artifacts.
JobOutlivesArtifacts ==
  [][\A j \in Jobs : job[j].state = "succeeded" /\ job'[j].state = "deleted"
       => \A k \in Keys : JobOf(k) = j /\ upload[k[1]].at = "committed"
                            => object[k] = Never]_job
=============================================================================
