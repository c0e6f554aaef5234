------------------------ MODULE ArtifactLifecycleProofs ------------------------
(***************************************************************************)
(* Proofs about artifacts, their rows and the retention cleaner, for any   *)
(* jobs, uploads, names and retention periods, a cleaner that stops        *)
(* anywhere and a store that refuses anything.  The argument is about      *)
(* times: what an upload in progress has stored is younger than its        *)
(* longest duration and so younger than the grace period, and a completion *)
(* that the sweep's list of rows does not have yet ended after the run     *)
(* began.                                                                  *)
(***************************************************************************)
EXTENDS ArtifactLifecycle, TLAPS

Committed(k) == upload[k[1]].at = "committed"
FinishOf(k) == job[JobOf(k)].finished

\* An upload's objects exist from their Put on and are not older than the
\* upload, which takes at most MaxUploadTime.
UploadInvOf(u) ==
  /\ upload[u].at = "unused" => upload[u].stored = {}
  /\ upload[u].at = "putting" =>
       /\ upload[u].began <= now /\ now <= upload[u].began + MaxUploadTime
       /\ \A n \in upload[u].stored : object[<<u, n>>] # Never
  /\ \A n \in Names :
       /\ n \notin upload[u].stored => object[<<u, n>>] = Never
       /\ upload[u].at \in {"putting", "committed"} /\ object[<<u, n>>] # Never =>
            object[<<u, n>>] >= upload[u].began

UploadInv == \A u \in Uploads : UploadInvOf(u)

\* Exactly one upload of a job that succeeded was committed.
CommitInv ==
  /\ \A u \in Uploads : upload[u].at = "committed" =>
       /\ job[upload[u].job].state \in {"succeeded", "deleted"}
       /\ job[upload[u].job].finished <= upload[u].began + MaxUploadTime
  /\ \A u, v \in Uploads :
       upload[u].at = "committed" /\ upload[v].at = "committed"
         /\ upload[u].job = upload[v].job => u = v
  /\ \A j \in Jobs : job[j].state = "succeeded" =>
       \E u \in Uploads : upload[u].at = "committed" /\ upload[u].job = j

\* The rows are those of committed uploads of jobs that are still there; they
\* are complete until the retention is over, and outlive their objects.
RecordInv ==
  /\ \A k \in record : Committed(k) /\ job[JobOf(k)].state = "succeeded"
  /\ \A k \in Keys : Committed(k) =>
       /\ k \notin record => object[k] = Never
       /\ now - FinishOf(k) <= ArtifactRetention => k \in record
  /\ NoDanglingRecord

\* What the cleaner has listed: artifacts past their retention, then the rows
\* that were there before the objects were listed.
CleanerInv ==
  /\ start <= now
  /\ cleaner \in {"artifacts", "record"} =>
       \A k \in todo \union hand : Committed(k) /\ FinishOf(k) < start - ArtifactRetention
  /\ hand # {} => cleaner = "record"
  /\ \A k \in hand : object[k] = Never
  /\ cleaner \in {"list", "sweep"} =>
       /\ referenced \subseteq record
       /\ \A k \in record \ referenced : FinishOf(k) >= start
  /\ cleaner = "sweep" /\ ~failed =>
       \A k \in Keys : object[k] # Never /\ object[k] < start - OrphanGrace =>
         k \in todo \union record

IInv == TypeOK /\ UploadInv /\ CommitInv /\ RecordInv /\ CleanerInv

------------------------------------------------------------------------------
(* Types. *)

LEMMA KeysOfUploads ==
  /\ \A k \in Keys : k[1] \in Uploads /\ k[2] \in Names /\ k = <<k[1], k[2]>>
  /\ \A u \in Uploads, n \in Names : <<u, n>> \in Keys /\ <<u, n>>[1] = u
BY DEF Keys

LEMMA Types ==
  ASSUME TypeOK
  PROVE  /\ now \in Int /\ start \in Int
         /\ job \in [Jobs -> JobRow] /\ upload \in [Uploads -> UploadRow]
         /\ object \in [Keys -> Int] /\ Never \in Int
         /\ \A j \in Jobs : job[j] \in JobRow /\ job[j].finished \in Int
         /\ \A u \in Uploads : /\ upload[u] \in UploadRow /\ upload[u].job \in Jobs
                               /\ upload[u].began \in Int /\ upload[u].stored \subseteq Names
         /\ \A k \in Keys : object[k] \in Int /\ JobOf(k) \in Jobs /\ k[1] \in Uploads
         /\ record \subseteq Keys /\ todo \subseteq Keys /\ hand \subseteq Keys
         /\ ArtifactRetention \in Int /\ JobRetention \in Int /\ JobRetention >= ArtifactRetention
         /\ MaxUploadTime \in Int /\ OrphanGrace \in Int /\ OrphanGrace >= MaxUploadTime
<1>1. /\ now \in Int /\ start \in Int /\ Never \in Int
      /\ job \in [Jobs -> JobRow] /\ upload \in [Uploads -> UploadRow]
      /\ object \in [Keys -> Int]
      /\ record \subseteq Keys /\ todo \subseteq Keys /\ hand \subseteq Keys
  BY DEF TypeOK, Never
<1>2. \A j \in Jobs : job[j] \in JobRow /\ job[j].finished \in Int
  BY <1>1 DEF JobRow
<1>3. \A u \in Uploads : /\ upload[u] \in UploadRow /\ upload[u].job \in Jobs
                         /\ upload[u].began \in Int /\ upload[u].stored \subseteq Names
  BY <1>1 DEF UploadRow
<1>4. \A k \in Keys : object[k] \in Int /\ JobOf(k) \in Jobs /\ k[1] \in Uploads
  BY <1>1, <1>3, KeysOfUploads DEF JobOf
<1> QED
  BY <1>1, <1>2, <1>3, <1>4, RetentionAssumption

LEMMA TypeStep == TypeOK /\ [Next]_vars => TypeOK'
<1> SUFFICES ASSUME TypeOK, [Next]_vars PROVE TypeOK'
  OBVIOUS
<1>0. /\ now \in Nat /\ job \in [Jobs -> JobRow] /\ upload \in [Uploads -> UploadRow]
      /\ object \in [Keys -> Nat \union {Never}] /\ record \subseteq Keys
      /\ cleaner \in CleanerStates /\ start \in Nat /\ todo \subseteq Keys /\ hand \subseteq Keys
      /\ referenced \subseteq Keys /\ failed \in BOOLEAN
  BY DEF TypeOK
<1>1. CASE UNCHANGED vars
  BY <1>0, <1>1 DEF vars, TypeOK
<1>2. CASE Tick
  BY <1>0, <1>2 DEF Tick, CleanerVars, TypeOK
<1>3. ASSUME NEW j \in Jobs, JobStep(j) PROVE TypeOK'
  <2>1. job' \in [Jobs -> JobRow]
    BY <1>0, <1>3 DEF JobStep, Requeue, EndWithoutReport, JobRow
  <2> QED
    BY <1>0, <1>3, <2>1 DEF JobStep, Requeue, EndWithoutReport, CleanerVars, TypeOK
<1>4. ASSUME NEW u \in Uploads, UploadStep(u) PROVE TypeOK'
  <2>0. /\ upload[u] \in UploadRow /\ upload[u].job \in Jobs
        /\ job[upload[u].job] \in JobRow /\ job[upload[u].job].token \in Nat
    BY <1>0 DEF UploadRow, JobRow
  <2>1. CASE BeginUpload(u)
    <3>1. [upload[u] EXCEPT !.at = "putting", !.token = job[upload[u].job].token, !.began = now]
            \in UploadRow
      BY <1>0, <2>0 DEF UploadRow
    <3> QED
      BY <1>0, <2>1, <3>1 DEF BeginUpload, CleanerVars, TypeOK
  <2>2. ASSUME NEW n \in Names, Put(u, n) PROVE TypeOK'
    <3>1. [upload[u] EXCEPT !.stored = @ \union {n}] \in UploadRow
      BY <1>0, <2>0 DEF UploadRow
    <3>2. object' \in [Keys -> Nat \union {Never}]
      BY <1>0, <2>2, KeysOfUploads DEF Put
    <3> QED
      BY <1>0, <2>2, <3>1, <3>2 DEF Put, CleanerVars, TypeOK
  <2>3. CASE AbandonUpload(u)
    <3>1. [upload[u] EXCEPT !.at = "abandoned"] \in UploadRow
      BY <1>0, <2>0 DEF UploadRow
    <3> QED
      BY <1>0, <2>3, <3>1 DEF AbandonUpload, CleanerVars, TypeOK
  <2>4. CASE CommitUpload(u)
    <3>1. /\ [upload[u] EXCEPT !.at = "abandoned"] \in UploadRow
          /\ [upload[u] EXCEPT !.at = "committed"] \in UploadRow
      BY <1>0, <2>0 DEF UploadRow
    <3>2. job' \in [Jobs -> JobRow]
      BY <1>0, <2>0, <2>4 DEF CommitUpload, JobRow
    <3>3. record' \subseteq Keys
      BY <1>0, <2>4 DEF CommitUpload, Keys
    <3>4. upload' \in [Uploads -> UploadRow]
      BY <1>0, <2>4, <3>1 DEF CommitUpload
    <3> QED
      BY <1>0, <2>4, <3>2, <3>3, <3>4 DEF CommitUpload, CleanerVars, TypeOK
  <2> QED
    BY <1>4, <2>1, <2>2, <2>3, <2>4 DEF UploadStep
<1>5. CASE CleanerStep
  <2>1. /\ UNCHANGED <<now, upload>> /\ object' \in [Keys -> Nat \union {Never}]
        /\ record' \subseteq Keys /\ start' \in Nat
    BY <1>0, <1>5 DEF CleanerStep, StartRun, ListExpiredArtifacts, DeleteExpiredObject,
       SweepObject, DeleteRecord, DeleteExpiredJobs, ReadReferencedKeys, ListObjects, EndRun,
       CrashRun
  <2>2. job' \in [Jobs -> JobRow]
    BY <1>0, <1>5 DEF CleanerStep, StartRun, ListExpiredArtifacts, DeleteExpiredObject,
       SweepObject, DeleteRecord, DeleteExpiredJobs, ReadReferencedKeys, ListObjects, EndRun,
       CrashRun, JobRow
  <2>3. /\ cleaner' \in CleanerStates /\ todo' \subseteq Keys /\ hand' \subseteq Keys
        /\ referenced' \subseteq Keys
    BY <1>0, <1>5 DEF CleanerStep, StartRun, ListExpiredArtifacts, DeleteExpiredObject,
       SweepObject, DeleteRecord, DeleteExpiredJobs, ReadReferencedKeys, ListObjects, EndRun,
       CrashRun, CleanerStates
  <2>4. failed' \in BOOLEAN
    BY <1>0, <1>5 DEF CleanerStep, StartRun, ListExpiredArtifacts, DeleteExpiredObject,
       SweepObject, DeleteRecord, DeleteExpiredJobs, ReadReferencedKeys, ListObjects, EndRun,
       CrashRun
  <2> QED
    BY <1>0, <2>1, <2>2, <2>3, <2>4 DEF TypeOK
<1> QED
  BY <1>1, <1>2, <1>3, <1>4, <1>5 DEF Next

------------------------------------------------------------------------------
(* The steps of jobs, uploads and the clock keep the invariant. *)

LEMMA TickStep ==
  ASSUME IInv, Tick
  PROVE  UploadInv' /\ CommitInv' /\ RecordInv' /\ CleanerInv'
<1>0. /\ now \in Int /\ now' = now + 1 /\ start \in Int /\ MaxUploadTime \in Int
      /\ \A u \in Uploads : upload[u].began \in Int
      /\ \A u \in Uploads : upload[u].at = "putting" => now < upload[u].began + MaxUploadTime
      /\ \A k \in Keys : JobOf(k) \in Jobs
      /\ \A j \in Jobs : job[j].finished \in Int
      /\ ArtifactRetention \in Int /\ record \subseteq Keys
      /\ UNCHANGED <<job, upload, object, record, cleaner, start, todo, hand, referenced, failed>>
  BY Types DEF IInv, Tick, CleanerVars
<1>1. UploadInv'
  BY <1>0 DEF IInv, UploadInv, UploadInvOf
<1>2. CommitInv'
  BY <1>0 DEF IInv, CommitInv
<1>3. RecordInv'
  BY <1>0 DEF IInv, RecordInv, NoDanglingRecord, Committed, FinishOf, JobOf
<1>4. CleanerInv'
  BY <1>0 DEF IInv, CleanerInv, Committed, FinishOf, JobOf
<1> QED
  BY <1>1, <1>2, <1>3, <1>4

\* A live job has no committed upload and no row.
LEMMA LiveJob ==
  ASSUME IInv, NEW j \in Jobs, job[j].state = "live"
  PROVE  /\ \A u \in Uploads : upload[u].at = "committed" => upload[u].job # j
         /\ \A k \in Keys : Committed(k) \/ k \in record => JobOf(k) # j
BY Types DEF IInv, CommitInv, RecordInv, Committed, JobOf

\* Jobs without a committed upload may change.
LEMMA JobStepKeeps ==
  ASSUME IInv, NEW j \in Jobs, JobStep(j)
  PROVE  UploadInv' /\ CommitInv' /\ RecordInv' /\ CleanerInv'
<1>0. /\ job[j].state = "live" /\ job'[j].state \in {"live", "unsuccessful"}
      /\ \A i \in Jobs \ {j} : job'[i] = job[i]
      /\ UNCHANGED <<now, upload, object, record, cleaner, start, todo, hand, referenced, failed>>
  BY Types DEF IInv, JobStep, Requeue, EndWithoutReport, CleanerVars, JobRow
<1>1. /\ \A u \in Uploads : upload[u].at = "committed" => job'[upload[u].job] = job[upload[u].job]
      /\ \A k \in Keys : Committed(k) \/ k \in record =>
           job'[upload[k[1]].job] = job[upload[k[1]].job]
  BY <1>0, LiveJob, Types DEF IInv, JobOf
<1>2. UploadInv'
  BY <1>0 DEF IInv, UploadInv, UploadInvOf
<1>3. CommitInv'
  BY <1>0, <1>1 DEF IInv, CommitInv
<1>4. RecordInv'
  BY <1>0, <1>1, Types DEF IInv, RecordInv, NoDanglingRecord, Committed, FinishOf, JobOf
<1>5. CleanerInv'
  BY <1>0, <1>1, Types DEF IInv, CleanerInv, Committed, FinishOf, JobOf, RecordInv
<1> QED
  BY <1>2, <1>3, <1>4, <1>5

LEMMA BeginUploadKeeps ==
  ASSUME IInv, NEW u \in Uploads, BeginUpload(u)
  PROVE  UploadInv' /\ CommitInv' /\ RecordInv' /\ CleanerInv'
<1>0. /\ upload[u].at = "unused" /\ upload'[u].at = "putting" /\ upload'[u].job = upload[u].job
      /\ upload'[u].stored = upload[u].stored /\ upload'[u].began = now
      /\ \A v \in Uploads \ {u} : upload'[v] = upload[v]
      /\ UNCHANGED <<now, job, object, record, cleaner, start, todo, hand, referenced, failed>>
  BY Types DEF IInv, BeginUpload, CleanerVars, UploadRow
<1>1. /\ \A k \in Keys : upload'[k[1]].job = upload[k[1]].job
      /\ \A k \in Keys : upload'[k[1]].at = "committed" <=> upload[k[1]].at = "committed"
  BY <1>0, KeysOfUploads
<1>2. UploadInv'
  <2>1. upload[u].stored = {} /\ \A n \in Names : object[<<u, n>>] = Never
    BY <1>0 DEF IInv, UploadInv, UploadInvOf
  <2>2. now \in Int /\ now <= now /\ now <= now + MaxUploadTime
    BY Types, RetentionAssumption DEF IInv
  <2>3. UploadInvOf(u)'
    BY <1>0, <2>1, <2>2 DEF UploadInvOf
  <2>4. ASSUME NEW v \in Uploads \ {u} PROVE UploadInvOf(v)'
    BY <1>0 DEF IInv, UploadInv, UploadInvOf
  <2> QED
    BY <2>3, <2>4 DEF UploadInv
<1>3. CommitInv'
  BY <1>0 DEF IInv, CommitInv
<1>4. RecordInv'
  BY <1>0, <1>1, Types DEF IInv, RecordInv, NoDanglingRecord, Committed, FinishOf, JobOf
<1>5. CleanerInv'
  BY <1>0, <1>1, Types DEF IInv, CleanerInv, Committed, FinishOf, JobOf
<1> QED
  BY <1>2, <1>3, <1>4, <1>5

LEMMA PutKeeps ==
  ASSUME IInv, NEW u \in Uploads, NEW n \in Names, Put(u, n)
  PROVE  UploadInv' /\ CommitInv' /\ RecordInv' /\ CleanerInv'
<1>0. /\ upload[u].at = "putting" /\ upload'[u].at = "putting"
      /\ upload'[u].job = upload[u].job /\ upload'[u].began = upload[u].began
      /\ upload'[u].stored = upload[u].stored \union {n}
      /\ \A v \in Uploads \ {u} : upload'[v] = upload[v]
      /\ object'[<<u, n>>] = now /\ now # Never
      /\ \A k \in Keys : k # <<u, n>> => object'[k] = object[k]
      /\ UNCHANGED <<now, job, record, cleaner, start, todo, hand, referenced, failed>>
  BY Types, KeysOfUploads DEF IInv, Put, CleanerVars, UploadRow, TypeOK, Never
<1>1. /\ \A k \in Keys : upload'[k[1]].job = upload[k[1]].job
      /\ \A k \in Keys : upload'[k[1]].at = "committed" <=> upload[k[1]].at = "committed"
      /\ \A k \in Keys : Committed(k) => object'[k] = object[k]
  BY <1>0, KeysOfUploads DEF Committed
<1>2. UploadInv'
  <2>1. \A v \in Uploads, m \in Names :
          object'[<<v, m>>] = IF v = u /\ m = n THEN now ELSE object[<<v, m>>]
    <3>1. \A v \in Uploads, m \in Names : <<v, m>> \in Keys
      BY KeysOfUploads
    <3> QED
      BY <1>0, <3>1
  <2>2. upload[u].began <= now /\ now <= upload[u].began + MaxUploadTime
    BY <1>0 DEF IInv, UploadInv, UploadInvOf
  <2>3. UploadInvOf(u)'
    <3>1. UploadInvOf(u)
      BY DEF IInv, UploadInv, UploadInvOf
    <3>2. \A m \in Names : object'[<<u, m>>] = IF m = n THEN now ELSE object[<<u, m>>]
      BY <2>1
    <3>3. now >= upload[u].began
      BY <2>2, Types DEF IInv
    <3>4. upload[u].stored \subseteq Names /\ now \in Int
      BY Types DEF IInv
    <3> QED
      BY <1>0, <2>2, <3>1, <3>2, <3>3, <3>4 DEF UploadInvOf
  <2>4. ASSUME NEW v \in Uploads \ {u} PROVE UploadInvOf(v)'
    <3>1. /\ upload'[v] = upload[v] /\ upload[v].stored \subseteq Names
          /\ \A m \in Names : object'[<<v, m>>] = object[<<v, m>>]
      BY <1>0, <2>1, Types DEF IInv
    <3> QED
      BY <1>0, <3>1 DEF IInv, UploadInv, UploadInvOf
  <2> QED
    BY <2>3, <2>4 DEF UploadInv
<1>3. CommitInv'
  BY <1>0 DEF IInv, CommitInv
<1>4. RecordInv'
  BY <1>0, <1>1, Types DEF IInv, RecordInv, NoDanglingRecord, Committed, FinishOf, JobOf
<1>5. CleanerInv'
  <2>1. \A k \in todo \union hand : Committed(k) => Committed(k)' /\ FinishOf(k)' = FinishOf(k)
    BY <1>0, <1>1, Types DEF IInv, Committed, FinishOf, JobOf
  <2>2. \A k \in record : FinishOf(k)' = FinishOf(k)
    BY <1>0, <1>1, Types DEF IInv, FinishOf, JobOf
  <2>3. \A k \in hand : object'[k] = Never
    <3>1. \A k \in hand : Committed(k)
      BY DEF IInv, CleanerInv
    <3> QED
      BY <1>0, <1>1, <3>1, Types DEF IInv, CleanerInv
  <2>4. \A k \in Keys : object'[k] # Never /\ object'[k] < start - OrphanGrace =>
          object[k] # Never /\ object[k] < start - OrphanGrace
    BY <1>0, Types, RetentionAssumption DEF IInv, CleanerInv
  <2> QED
    BY <1>0, <2>1, <2>2, <2>3, <2>4 DEF IInv, CleanerInv
<1> QED
  BY <1>2, <1>3, <1>4, <1>5

LEMMA AbandonKeeps ==
  ASSUME IInv, NEW u \in Uploads,
         upload[u].at = "putting", upload' = [upload EXCEPT ![u].at = "abandoned"],
         UNCHANGED <<now, job, object, record, CleanerVars>>
  PROVE  UploadInv' /\ CommitInv' /\ RecordInv' /\ CleanerInv'
<1>0. /\ upload[u].at = "putting" /\ upload'[u].at = "abandoned"
      /\ upload'[u].job = upload[u].job /\ upload'[u].began = upload[u].began
      /\ upload'[u].stored = upload[u].stored
      /\ \A v \in Uploads \ {u} : upload'[v] = upload[v]
      /\ UNCHANGED <<now, job, object, record, cleaner, start, todo, hand, referenced, failed>>
  BY Types DEF IInv, CleanerVars, UploadRow
<1>1. /\ \A k \in Keys : upload'[k[1]].job = upload[k[1]].job
      /\ \A k \in Keys : upload'[k[1]].at = "committed" <=> upload[k[1]].at = "committed"
  BY <1>0, KeysOfUploads
<1>2. UploadInv'
  BY <1>0 DEF IInv, UploadInv, UploadInvOf
<1>3. CommitInv'
  BY <1>0 DEF IInv, CommitInv
<1>4. RecordInv'
  BY <1>0, <1>1, Types DEF IInv, RecordInv, NoDanglingRecord, Committed, FinishOf, JobOf
<1>5. CleanerInv'
  BY <1>0, <1>1, Types DEF IInv, CleanerInv, Committed, FinishOf, JobOf
<1> QED
  BY <1>2, <1>3, <1>4, <1>5

\* The upload that is recorded: everything is stored, the job was live, and no
\* listing of the cleaner can have seen it.
LEMMA CommitKeeps ==
  ASSUME IInv, NEW u \in Uploads, CommitUpload(u)
  PROVE  UploadInv' /\ CommitInv' /\ RecordInv' /\ CleanerInv'
<1> DEFINE j == upload[u].job
<1>1. CASE ~StillOwned(u)
  BY <1>1, AbandonKeeps DEF CommitUpload, AbandonUpload, StillOwned
<1>2. CASE StillOwned(u)
  <2>0. /\ upload[u].at = "putting" /\ upload[u].stored = Names /\ job[j].state = "live"
        /\ j \in Jobs /\ job'[j].state = "succeeded" /\ job'[j].finished = now
        /\ \A i \in Jobs \ {j} : job'[i] = job[i]
        /\ record' = record \union ({u} \X Names)
        /\ upload'[u].at = "committed" /\ upload'[u].job = j
        /\ upload'[u].stored = Names /\ upload'[u].began = upload[u].began
        /\ \A v \in Uploads \ {u} : upload'[v] = upload[v]
        /\ UNCHANGED <<now, object, cleaner, start, todo, hand, referenced, failed>>
    <3>1. StillOwned(u) /\ upload[u].at = "putting" /\ upload[u].stored = Names
          /\ job' = [job EXCEPT ![j].state = "succeeded", ![j].finished = now]
          /\ upload' = [upload EXCEPT ![u].at = "committed"]
          /\ record' = record \union ({u} \X Names)
          /\ UNCHANGED <<now, object, cleaner, start, todo, hand, referenced, failed>>
      BY <1>2 DEF CommitUpload, CleanerVars
    <3> QED
      BY <3>1, Types DEF IInv, StillOwned, JobRow, UploadRow
  <2>1. /\ \A v \in Uploads : upload[v].at = "committed" => upload[v].job # j
        /\ \A k \in Keys : Committed(k) \/ k \in record => JobOf(k) # j
    BY <2>0, LiveJob
  <2> HIDE DEF j
  <2>2. \A k \in Keys : Committed(k) =>
          Committed(k)' /\ JobOf(k)' = JobOf(k) /\ job'[JobOf(k)] = job[JobOf(k)] /\ k[1] # u
    BY <2>0, <2>1, Types, KeysOfUploads DEF IInv, Committed, JobOf
  <2>3. \A k \in Keys : Committed(k)' => Committed(k) \/ (k[1] = u /\ k \in {u} \X Names)
    BY <2>0, KeysOfUploads DEF Committed
  <2>4. \A k \in {u} \X Names :
          k \in Keys /\ Committed(k)' /\ JobOf(k)' = j /\ object[k] # Never
    <3>1. \A n \in Names : /\ <<u, n>> \in Keys /\ <<u, n>>[1] = u
                           /\ object[<<u, n>>] # Never
      BY <2>0, KeysOfUploads DEF IInv, UploadInv, UploadInvOf
    <3> QED
      BY <2>0, <3>1 DEF Committed, JobOf
  <2>5. UploadInv'
    BY <2>0 DEF IInv, UploadInv, UploadInvOf
  <2>6. CommitInv'
    <3>1. now <= upload[u].began + MaxUploadTime
      BY <2>0 DEF IInv, UploadInv, UploadInvOf
    <3>2. \A v \in Uploads : upload'[v].at = "committed" => v = u \/ upload[v].at = "committed"
      BY <2>0
    <3>3. \A v \in Uploads \ {u} : upload'[v] = upload[v] /\ upload[v].job \in Jobs
      BY <2>0, Types DEF IInv
    <3>4. ASSUME NEW v \in Uploads, upload'[v].at = "committed"
          PROVE  /\ job'[upload'[v].job].state \in {"succeeded", "deleted"}
                 /\ job'[upload'[v].job].finished <= upload'[v].began + MaxUploadTime
                 /\ v # u => upload'[v].job # j
      BY <2>0, <2>1, <3>1, <3>2, <3>3, <3>4 DEF IInv, CommitInv
    <3>5. ASSUME NEW v \in Uploads, NEW w \in Uploads, upload'[v].at = "committed",
                 upload'[w].at = "committed", upload'[v].job = upload'[w].job
          PROVE  v = w
      BY <2>0, <3>2, <3>3, <3>4, <3>5 DEF IInv, CommitInv
    <3>6. ASSUME NEW i \in Jobs, job'[i].state = "succeeded"
          PROVE  \E v \in Uploads : upload'[v].at = "committed" /\ upload'[v].job = i
      BY <2>0, <3>3, <3>6 DEF IInv, CommitInv
    <3> QED
      BY <3>4, <3>5, <3>6 DEF CommitInv
  <2>7. RecordInv'
    <3>1. \A k \in record' : Committed(k)' /\ (job[JobOf(k)].state = "succeeded")'
      BY <2>0, <2>2, <2>4, Types DEF IInv, RecordInv
    <3>2. \A k \in Keys : Committed(k)' =>
            /\ k \notin record' => object'[k] = Never
            /\ (now - FinishOf(k) <= ArtifactRetention)' => k \in record'
      BY <2>0, <2>2, <2>3 DEF IInv, RecordInv, FinishOf
    <3>3. NoDanglingRecord'
      BY <2>0, <2>2, <2>4, Types DEF IInv, RecordInv, NoDanglingRecord
    <3> QED
      BY <3>1, <3>2, <3>3 DEF RecordInv
  <2>8. CleanerInv'
    <3>1. \A k \in Keys : Committed(k) => FinishOf(k)' = FinishOf(k)
      BY <2>2 DEF FinishOf
    <3>2. \A k \in {u} \X Names : FinishOf(k)' >= start
      BY <2>0, <2>4, Types DEF IInv, CleanerInv, FinishOf
    <3>3. \A k \in record : Committed(k)
      BY DEF IInv, RecordInv
    <3> QED
      BY <2>0, <2>2, <3>1, <3>2, <3>3, Types DEF IInv, CleanerInv
  <2> QED
    BY <2>5, <2>6, <2>7, <2>8
<1> QED
  BY <1>1, <1>2

------------------------------------------------------------------------------
(* The steps of the cleaner keep the invariant. *)

\* What the cleaner does not touch while it deletes no object and no row.
LEMMA QuietCleaner ==
  ASSUME IInv, UNCHANGED <<now, job, upload, object, record>>
  PROVE  UploadInv' /\ CommitInv' /\ RecordInv'
<1>1. UploadInv'
  BY DEF IInv, UploadInv, UploadInvOf
<1>2. CommitInv'
  BY DEF IInv, CommitInv
<1>3. RecordInv'
  BY DEF IInv, RecordInv, NoDanglingRecord, Committed, FinishOf, JobOf
<1> QED
  BY <1>1, <1>2, <1>3

\* Deleting the object of k is right if no completion still needs it and, where
\* it is recorded, the retention is over.
LEMMA DeleteObjectKeeps ==
  ASSUME IInv, NEW k \in Keys, object' = [object EXCEPT ![k] = Never],
         UNCHANGED <<now, job, upload, record>>,
         upload[k[1]].at # "putting",
         k \in record => now - FinishOf(k) > ArtifactRetention
  PROVE  UploadInv' /\ CommitInv' /\ RecordInv'
<1>0. /\ object'[k] = Never /\ \A i \in Keys : i # k => object'[i] = object[i]
      /\ \A i \in Keys : object[i] = Never => object'[i] = Never
  BY Types DEF IInv
<1>1. ASSUME NEW v \in Uploads PROVE UploadInvOf(v)'
  <2>1. UploadInvOf(v) /\ upload'[v] = upload[v] /\ now' = now
    BY DEF IInv, UploadInv
  <2>2. \A m \in Names : <<v, m>> \in Keys /\ <<v, m>>[1] = v
    BY KeysOfUploads
  <2>3. \A m \in Names : object'[<<v, m>>] \in {Never, object[<<v, m>>]}
    BY <1>0, <2>2
  <2>4. upload[v].at = "putting" => \A m \in Names : object'[<<v, m>>] = object[<<v, m>>]
    BY <1>0, <2>2
  <2>5. upload[v].at = "putting" => upload[v].stored \subseteq Names
    BY Types DEF IInv
  <2> QED
    BY <2>1, <2>3, <2>4, <2>5 DEF UploadInvOf
<1>2. CommitInv'
  BY DEF IInv, CommitInv
<1>3. RecordInv'
  BY <1>0, Types DEF IInv, RecordInv, NoDanglingRecord, Committed, FinishOf, JobOf
<1> QED
  BY <1>1, <1>2, <1>3 DEF UploadInv

LEMMA StartRunKeeps ==
  ASSUME IInv, StartRun
  PROVE  UploadInv' /\ CommitInv' /\ RecordInv' /\ CleanerInv'
BY QuietCleaner, Types DEF IInv, StartRun, CleanerInv, Committed, FinishOf, JobOf

LEMMA ListExpiredArtifactsKeeps ==
  ASSUME IInv, ListExpiredArtifacts
  PROVE  UploadInv' /\ CommitInv' /\ RecordInv' /\ CleanerInv'
<1>1. UploadInv' /\ CommitInv' /\ RecordInv'
  BY QuietCleaner DEF ListExpiredArtifacts
<1>2. \A k \in todo' : Committed(k) /\ FinishOf(k) < start - ArtifactRetention
  BY DEF IInv, ListExpiredArtifacts, Expired, RecordInv, FinishOf
<1>3. CleanerInv'
  BY <1>2 DEF IInv, ListExpiredArtifacts, CleanerInv, Committed, FinishOf, JobOf
<1> QED
  BY <1>1, <1>3

LEMMA DeleteExpiredObjectKeeps ==
  ASSUME IInv, NEW k \in todo, DeleteExpiredObject(k)
  PROVE  UploadInv' /\ CommitInv' /\ RecordInv' /\ CleanerInv'
<1>0. /\ cleaner = "artifacts" /\ todo' = todo \ {k} /\ k \in Keys
      /\ UNCHANGED <<now, job, upload, record, start, referenced>>
      /\ Committed(k) /\ FinishOf(k) < start - ArtifactRetention /\ start <= now
      /\ hand = {}
  BY Types DEF IInv, DeleteExpiredObject, CleanerInv
<1>1. CASE object' = [object EXCEPT ![k] = Never] /\ hand' = {k} /\ cleaner' = "record"
           /\ UNCHANGED failed
  <2>1. now - FinishOf(k) > ArtifactRetention
    BY <1>0, Types DEF IInv, FinishOf
  <2>2. UploadInv' /\ CommitInv' /\ RecordInv'
    BY <1>0, <1>1, <2>1, DeleteObjectKeeps DEF Committed
  <2>3. CleanerInv'
    BY <1>0, <1>1, Types DEF IInv, CleanerInv, Committed, FinishOf, JobOf
  <2> QED
    BY <2>2, <2>3
<1>2. CASE failed' = TRUE /\ UNCHANGED <<object, hand, cleaner>>
  <2>1. UploadInv' /\ CommitInv' /\ RecordInv'
    BY <1>0, <1>2, QuietCleaner
  <2>2. CleanerInv'
    BY <1>0, <1>2 DEF IInv, CleanerInv, Committed, FinishOf, JobOf
  <2> QED
    BY <2>1, <2>2
<1> QED
  BY <1>1, <1>2 DEF DeleteExpiredObject

LEMMA DeleteRecordKeeps ==
  ASSUME IInv, DeleteRecord
  PROVE  UploadInv' /\ CommitInv' /\ RecordInv' /\ CleanerInv'
<1>0. /\ cleaner = "record" /\ record' = record \ hand /\ hand' = {} /\ cleaner' = "artifacts"
      /\ UNCHANGED <<now, job, upload, object, start, todo, referenced, failed>>
  BY DEF DeleteRecord
<1>1. \A k \in hand : object[k] = Never /\ now - FinishOf(k) > ArtifactRetention
  <2>1. /\ \A k \in hand : object[k] = Never /\ FinishOf(k) < start - ArtifactRetention
        /\ start <= now
    BY <1>0 DEF IInv, CleanerInv
  <2> QED
    BY <2>1, Types DEF IInv, FinishOf
<1>2. UploadInv' /\ CommitInv'
  BY <1>0 DEF IInv, UploadInv, UploadInvOf, CommitInv
<1>3. RecordInv'
  <2>1. \A k \in Keys : FinishOf(k)' = FinishOf(k) /\ FinishOf(k) \in Int
    BY <1>0, Types DEF IInv, FinishOf, JobOf
  <2>2. \A k \in hand : ~(now - FinishOf(k) <= ArtifactRetention)
    BY <1>1, <2>1, Types DEF IInv
  <2> QED
    BY <1>0, <1>1, <2>1, <2>2 DEF IInv, RecordInv, NoDanglingRecord, Committed, FinishOf, JobOf
<1>4. CleanerInv'
  BY <1>0 DEF IInv, CleanerInv, Committed, FinishOf, JobOf
<1> QED
  BY <1>2, <1>3, <1>4

\* A deleted job has no row, so no row changes its job.
LEMMA DeleteExpiredJobsKeeps ==
  ASSUME IInv, DeleteExpiredJobs
  PROVE  UploadInv' /\ CommitInv' /\ RecordInv' /\ CleanerInv'
<1>0. /\ cleaner = "artifacts" /\ todo = {} /\ cleaner' = "keys"
      /\ UNCHANGED <<now, upload, object, record, start, todo, hand, referenced, failed>>
      /\ hand = {}
  BY DEF IInv, DeleteExpiredJobs, CleanerInv
<1>1. /\ \A i \in Jobs : job'[i].finished = job[i].finished
      /\ \A i \in Jobs : ~Deletable(i) => job'[i] = job[i]
      /\ \A i \in Jobs : Deletable(i) => job'[i].state = "deleted"
  BY Types DEF IInv, DeleteExpiredJobs, JobRow
<1>2. \A k \in record : ~Deletable(JobOf(k))
  BY DEF Deletable
<1>3. \A k \in Keys : FinishOf(k)' = FinishOf(k) /\ (Committed(k)' <=> Committed(k))
  BY <1>0, <1>1, Types DEF IInv, FinishOf, JobOf, Committed
<1>4. UploadInv'
  BY <1>0 DEF IInv, UploadInv, UploadInvOf
<1>5. CommitInv'
  BY <1>0, <1>1, Types DEF IInv, CommitInv
<1>6. RecordInv'
  <2>1. \A k \in record : JobOf(k)' = JobOf(k) /\ job'[JobOf(k)] = job[JobOf(k)]
    BY <1>0, <1>1, <1>2, Types DEF IInv, JobOf
  <2>2. NoDanglingRecord'
    BY <1>0, <2>1 DEF IInv, RecordInv, NoDanglingRecord
  <2>3. \A k \in record' : Committed(k)' /\ (job[JobOf(k)].state = "succeeded")'
    BY <1>0, <1>3, <2>1, Types DEF IInv, RecordInv
  <2> QED
    BY <1>0, <1>3, <2>2, <2>3 DEF IInv, RecordInv
<1>7. CleanerInv'
  BY <1>0, <1>3 DEF IInv, CleanerInv
<1> QED
  BY <1>4, <1>5, <1>6, <1>7

LEMMA ListingKeeps ==
  ASSUME IInv, ReadReferencedKeys \/ ListObjects
  PROVE  UploadInv' /\ CommitInv' /\ RecordInv' /\ CleanerInv'
<1>1. CASE ReadReferencedKeys
  <2>1. UploadInv' /\ CommitInv' /\ RecordInv'
    BY <1>1, QuietCleaner DEF ReadReferencedKeys
  <2>2. CleanerInv'
    BY <1>1 DEF IInv, ReadReferencedKeys, CleanerInv, Committed, FinishOf, JobOf
  <2> QED
    BY <2>1, <2>2
<1>2. CASE ListObjects
  <2>1. UploadInv' /\ CommitInv' /\ RecordInv'
    BY <1>2, QuietCleaner DEF ListObjects
  <2>2. CleanerInv'
    BY <1>2 DEF IInv, ListObjects, CleanerInv, Committed, FinishOf, JobOf
  <2> QED
    BY <2>1, <2>2
<1> QED
  BY <1>1, <1>2

\* What the sweep takes for an orphan: no completion in progress stored it, it
\* began too recently for that; and a row the sweep has not seen belongs to a
\* completion that ended after the run began, so its object is younger still.
LEMMA OrphansAreNotNeeded ==
  ASSUME IInv, cleaner = "sweep", NEW k \in Keys, object[k] # Never, Orphan(k)
  PROVE  upload[k[1]].at # "putting" /\ k \notin record
<1> DEFINE u == upload[k[1]]
<1>1. /\ k[1] \in Uploads /\ k[2] \in Names /\ k = <<k[1], k[2]>>
      /\ object[k] \in Int /\ u.began \in Int /\ now \in Int /\ start \in Int
      /\ MaxUploadTime \in Int /\ OrphanGrace \in Int /\ MaxUploadTime <= OrphanGrace
      /\ FinishOf(k) \in Int /\ JobOf(k) = u.job
  BY KeysOfUploads, Types DEF IInv, FinishOf, JobOf
<1>2. /\ u.at = "putting" => now <= u.began + MaxUploadTime
      /\ u.at \in {"putting", "committed"} => object[k] >= u.began
  BY <1>1 DEF IInv, UploadInv, UploadInvOf
<1>3. start <= now /\ object[k] < start - OrphanGrace /\ k \notin referenced
  BY DEF IInv, CleanerInv, Orphan
<1>4. u.at # "putting"
  <2> HIDE DEF u
  <2> QED
    BY <1>1, <1>2, <1>3
<1>5. ASSUME k \in record PROVE FALSE
  <2>1. u.at = "committed" /\ FinishOf(k) >= start
    BY <1>3, <1>5 DEF IInv, RecordInv, CleanerInv, Committed
  <2>2. FinishOf(k) <= u.began + MaxUploadTime
    BY <1>1, <2>1 DEF IInv, CommitInv, FinishOf, JobOf
  <2> HIDE DEF u
  <2> QED
    BY <1>1, <1>2, <1>3, <2>1, <2>2
<1> QED
  BY <1>4, <1>5

LEMMA SweepObjectKeeps ==
  ASSUME IInv, NEW k \in todo, SweepObject(k)
  PROVE  UploadInv' /\ CommitInv' /\ RecordInv' /\ CleanerInv'
<1>0. /\ cleaner = "sweep" /\ todo' = todo \ {k} /\ k \in Keys /\ hand = {}
      /\ UNCHANGED <<now, job, upload, record, cleaner, start, hand, referenced>>
      /\ failed \in BOOLEAN
  BY Types DEF IInv, SweepObject, CleanerInv, TypeOK
<1>1. CASE ~Orphan(k) /\ UNCHANGED <<object, failed>>
  <2>1. UploadInv' /\ CommitInv' /\ RecordInv'
    BY <1>0, <1>1, QuietCleaner
  <2>2. k \in record \/ ~(object[k] < start - OrphanGrace)
    BY <1>0, <1>1 DEF IInv, CleanerInv, Orphan
  <2>3. CleanerInv'
    BY <1>0, <1>1, <2>2 DEF IInv, CleanerInv, Committed, FinishOf, JobOf
  <2> QED
    BY <2>1, <2>3
<1>2. CASE Orphan(k) /\ object' = [object EXCEPT ![k] = Never] /\ UNCHANGED failed
  <2>0. object'[k] = Never /\ \A i \in Keys : i # k => object'[i] = object[i]
    BY <1>0, <1>2, Types DEF IInv
  <2>1. UploadInv' /\ CommitInv' /\ RecordInv'
    <3>1. CASE object[k] # Never
      BY <1>0, <1>2, <3>1, OrphansAreNotNeeded, DeleteObjectKeeps
    <3>2. CASE object[k] = Never
      <4>1. object' = object
        BY <1>2, <3>2, Types DEF IInv
      <4> QED
        BY <1>0, <4>1, QuietCleaner
    <3> QED
      BY <3>1, <3>2
  <2>2. CleanerInv'
    BY <1>0, <1>2, <2>0 DEF IInv, CleanerInv, Committed, FinishOf, JobOf
  <2> QED
    BY <2>1, <2>2
<1>3. CASE failed' = TRUE /\ UNCHANGED object
  <2>1. UploadInv' /\ CommitInv' /\ RecordInv'
    BY <1>0, <1>3, QuietCleaner
  <2>2. CleanerInv'
    BY <1>0, <1>3 DEF IInv, CleanerInv, Committed, FinishOf, JobOf
  <2> QED
    BY <2>1, <2>2
<1> QED
  BY <1>1, <1>2, <1>3 DEF SweepObject

LEMMA StopKeeps ==
  ASSUME IInv, EndRun \/ CrashRun
  PROVE  UploadInv' /\ CommitInv' /\ RecordInv' /\ CleanerInv'
<1>0. /\ cleaner' = "idle" /\ hand' = {}
      /\ UNCHANGED <<now, job, upload, object, record, start>>
  BY DEF IInv, CleanerInv, EndRun, CrashRun
<1>1. UploadInv' /\ CommitInv' /\ RecordInv'
  BY <1>0, QuietCleaner
<1>2. CleanerInv'
  BY <1>0 DEF IInv, CleanerInv
<1> QED
  BY <1>1, <1>2

LEMMA CleanerStepKeeps ==
  ASSUME IInv, CleanerStep
  PROVE  UploadInv' /\ CommitInv' /\ RecordInv' /\ CleanerInv'
BY StartRunKeeps, ListExpiredArtifactsKeeps, DeleteExpiredObjectKeeps, SweepObjectKeeps,
   DeleteRecordKeeps, DeleteExpiredJobsKeeps, ListingKeeps, StopKeeps DEF CleanerStep

------------------------------------------------------------------------------
(* Theorems. *)

LEMMA InitHolds == Init => IInv
<1> SUFFICES ASSUME Init PROVE IInv
  OBVIOUS
<1>1. TypeOK
  <2>1. job \in [Jobs -> JobRow] /\ object \in [Keys -> Nat \union {Never}]
    BY DEF Init, JobRow, Never
  <2>2. upload \in [Uploads -> UploadRow]
    <3>1. \A j \in Jobs : [at |-> "unused", job |-> j, token |-> 0, began |-> 0, stored |-> {}]
                            \in UploadRow
      BY DEF UploadRow
    <3> QED
      BY <3>1 DEF Init
  <2> QED
    BY <2>1, <2>2 DEF Init, TypeOK, CleanerStates
<1>2. \A u \in Uploads : upload[u].at = "unused" /\ upload[u].stored = {}
  BY DEF Init
<1>3. \A k \in Keys : object[k] = Never /\ ~Committed(k)
  BY <1>2, KeysOfUploads DEF Init, Committed
<1>4. UploadInv
  BY <1>2, <1>3, KeysOfUploads DEF UploadInv, UploadInvOf
<1>5. CommitInv
  BY <1>2 DEF Init, CommitInv
<1>6. RecordInv /\ CleanerInv
  BY <1>3 DEF Init, RecordInv, NoDanglingRecord, CleanerInv
<1> QED
  BY <1>1, <1>4, <1>5, <1>6 DEF IInv

LEMMA StepHolds == IInv /\ [Next]_vars => IInv'
<1> SUFFICES ASSUME IInv, [Next]_vars PROVE IInv'
  OBVIOUS
<1>1. TypeOK'
  BY TypeStep DEF IInv
<1>2. CASE UNCHANGED vars
  <2>1. /\ UNCHANGED <<now, job, upload, object, record>>
        /\ UNCHANGED <<cleaner, start, todo, hand, referenced, failed>>
    BY <1>2 DEF vars
  <2>2. CleanerInv'
    BY <2>1 DEF IInv, CleanerInv, Committed, FinishOf, JobOf
  <2> QED
    BY <1>1, <2>1, <2>2, QuietCleaner DEF IInv
<1>3. CASE Tick
  BY <1>1, <1>3, TickStep DEF IInv
<1>4. ASSUME NEW j \in Jobs, JobStep(j) PROVE IInv'
  BY <1>1, <1>4, JobStepKeeps DEF IInv
<1>5. ASSUME NEW u \in Uploads, UploadStep(u) PROVE IInv'
  <2>1. CASE AbandonUpload(u)
    BY <1>1, <2>1, AbandonKeeps DEF IInv, AbandonUpload
  <2> QED
    BY <1>1, <1>5, <2>1, BeginUploadKeeps, PutKeeps, CommitKeeps DEF IInv, UploadStep
<1>6. CASE CleanerStep
  BY <1>1, <1>6, CleanerStepKeeps DEF IInv
<1> QED
  BY <1>2, <1>3, <1>4, <1>5, <1>6 DEF Next

\* The inductive invariant holds in every reachable state.
THEOREM ArtifactInvariant == Spec => []IInv
BY InitHolds, StepHolds, PTL DEF Spec

\* Every variable keeps its type in every run.
THEOREM ArtifactTypeCorrect == Spec => []TypeOK
<1>1. IInv => TypeOK
  BY DEF IInv
<1> QED
  BY <1>1, ArtifactInvariant, PTL

\* A row whose object is gone is past its retention: no sweep takes a recorded
\* artifact, whatever completion it raced with (RetentionCleaner.run).
THEOREM RecordsHaveObjects == Spec => []NoDanglingRecord
<1>1. IInv => NoDanglingRecord
  BY DEF IInv, RecordInv
<1> QED
  BY <1>1, ArtifactInvariant, PTL

\* The report of a succeeded job is complete, from one upload, until its retention
\* is over (runner_complete against the cleaner).
THEOREM ReportStaysComplete == Spec => []ReportKept
<1>1. IInv => ReportKept
  <2> SUFFICES ASSUME IInv, NEW j \in Jobs, job[j].state = "succeeded",
                      now - job[j].finished <= ArtifactRetention
               PROVE  \E u \in Uploads :
                        /\ upload[u].job = j
                        /\ \A n \in Names : <<u, n>> \in record /\ object[<<u, n>>] # Never
                        /\ \A k \in record : JobOf(k) = j => k[1] = u
    BY DEF ReportKept
  <2>1. PICK u \in Uploads : upload[u].at = "committed" /\ upload[u].job = j
    BY DEF IInv, CommitInv
  <2>2. ASSUME NEW n \in Names PROVE <<u, n>> \in record /\ object[<<u, n>>] # Never
    <3>1. /\ <<u, n>> \in Keys /\ Committed(<<u, n>>) /\ FinishOf(<<u, n>>) = job[j].finished
      BY <2>1, KeysOfUploads DEF Committed, FinishOf, JobOf
    <3>2. <<u, n>> \in record
      BY <3>1 DEF IInv, RecordInv
    <3>3. ~(now - job[j].finished > ArtifactRetention)
      BY Types DEF IInv
    <3> QED
      BY <3>1, <3>2, <3>3 DEF IInv, RecordInv, NoDanglingRecord, FinishOf
  <2>3. \A k \in record : JobOf(k) = j => k[1] = u
    BY <2>1, Types DEF IInv, CommitInv, RecordInv, Committed, JobOf
  <2> QED
    BY <2>1, <2>2, <2>3
<1> QED
  BY <1>1, ArtifactInvariant, PTL

\* A cleanup run that skipped nothing leaves no object that is older than the
\* grace period and that no row names (RetentionCleaner.run, its sweep).
THEOREM SweepLeavesNoOrphans == Spec => SweepCollects
<1>1. IInv /\ [Next]_vars =>
        [EndRun /\ ~failed =>
           \A k \in Keys : object[k] # Never /\ object[k] < start - OrphanGrace
                             => k \in record]_vars
  BY DEF IInv, CleanerInv, EndRun
<1> QED
  BY <1>1, ArtifactInvariant, PTL DEF Spec, SweepCollects

\* A job is deleted only when the objects of its report are gone
\* (delete_expired_jobs, behind ON DELETE CASCADE).
THEOREM JobsOutliveArtifacts == Spec => JobOutlivesArtifacts
<1>1. IInv /\ [Next]_vars =>
        [\A j \in Jobs : job[j].state = "succeeded" /\ job'[j].state = "deleted"
           => \A k \in Keys : JobOf(k) = j /\ upload[k[1]].at = "committed"
                                => object[k] = Never]_job
  <2> SUFFICES ASSUME IInv, [Next]_vars, NEW j \in Jobs, job[j].state = "succeeded",
                      job'[j].state = "deleted", NEW k \in Keys, JobOf(k) = j, Committed(k)
               PROVE  object[k] = Never
    BY DEF Committed
  <2>1. DeleteExpiredJobs
    <3>1. ASSUME UNCHANGED job PROVE FALSE
      BY <3>1
    <3>2. CASE CleanerStep
      BY <3>1, <3>2 DEF CleanerStep, StartRun, ListExpiredArtifacts, DeleteExpiredObject,
         SweepObject, DeleteRecord, ReadReferencedKeys, ListObjects, EndRun, CrashRun
    <3>3. ASSUME NEW i \in Jobs, JobStep(i) PROVE FALSE
      BY <3>3, Types DEF IInv, JobStep, Requeue, EndWithoutReport, JobRow
    <3>4. ASSUME NEW u \in Uploads, UploadStep(u) PROVE FALSE
      BY <3>1, <3>4, Types DEF IInv, UploadStep, BeginUpload, Put, AbandonUpload, CommitUpload,
         JobRow
    <3> QED
      BY <3>1, <3>2, <3>3, <3>4 DEF Next, Tick, vars
  <2>2. Deletable(j)
    BY <2>1, Types DEF IInv, DeleteExpiredJobs
  <2>3. k \notin record
    BY <2>2 DEF Deletable
  <2> QED
    BY <2>3 DEF IInv, RecordInv
<1> QED
  BY <1>1, ArtifactInvariant, PTL DEF Spec, JobOutlivesArtifacts
===============================================================================
