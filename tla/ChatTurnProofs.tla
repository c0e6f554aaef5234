---------------------------- MODULE ChatTurnProofs ----------------------------
(***************************************************************************)
(* Proofs about chat turns and the saving of their reports, for any        *)
(* artifacts and collections and any number of Stops, faults and saves.    *)
(* Each property has an invariant of its own: where a caught Stop leads    *)
(* (StopInv), what has been gathered of the artifacts (AttachInv), what is *)
(* on its way to the chat (StatusInv), and which file a save is about      *)
(* (SaveInv).                                                              *)
(***************************************************************************)
EXTENDS ChatTurn, FiniteSetTheorems, SequenceTheorems, TLAPS

File == [name : Artifacts, whole : BOOLEAN]

\* Uploaded files stay what they are; only a preview text is added.
Grown ==
  \A f \in DOMAIN files :
    /\ f \in DOMAIN files' /\ files'[f].name = files[f].name
    /\ files[f].whole => files'[f].whole

Names(fs, S) == {fs[f].name : f \in S}

\* Files of different artifacts, each with its preview text.
Sound(fs, S) ==
  /\ \A f \in S : fs[f].whole
  /\ \A f, g \in S : fs[f].name = fs[g].name => f = g

Full(fs, S) == Sound(fs, S) /\ Names(fs, S) = Artifacts

\* Both modules' types, and that a save's target is chosen before it is used.
TypeInv ==
  /\ TypeOK
  /\ save.step \in {"report", "preview", "create", "add"} => save.target \in Collections

\* A caught Stop leads through the cancellation to the end of the turn.
StopInv ==
  /\ pipe.at \in Cancelling => pipe.caught = "yes"
  /\ pipe.caught = "yes" => pipe.at \in Cancelling \union {"ended"}
  /\ At("cancel") => stops >= 1
  /\ At("recancel") => stops >= 2
  /\ StopReachesJob

\* What has been gathered and what is left to do make up the manifest.
AttachInv ==
  /\ pipe.at \in Preparing \union {"started", "poll", "keepalive", "sleep"} => pipe.got = {}
  /\ pipe.at \in {"attach", "preview"} =>
       /\ Sound(files, pipe.got)
       /\ Names(files, pipe.got) \intersect pipe.todo = {}
  /\ At("attach") => Names(files, pipe.got) \union pipe.todo = Artifacts
  /\ At("preview") =>
       /\ Len(files) \in DOMAIN files
       /\ LET a == files[Len(files)].name
          IN /\ a \notin Names(files, pipe.got) /\ a \notin pipe.todo
             /\ Names(files, pipe.got) \union pipe.todo \union {a} = Artifacts
  /\ pipe.at \in {"report", "files"} => pipe.got = {} \/ Full(files, pipe.got)
  /\ chat.files = {} \/ Full(files, chat.files)

\* What is on its way to the chat agrees with the job.
StatusInv ==
  /\ pipe.at \in {"context", "dialog"} => job = "none"
  /\ pipe.at \in {"attach", "preview", "report", "files", "status"} => job = "succeeded"
  /\ "report" \in outbox \/ "complete" \in outbox => job = "succeeded"
  /\ "failed" \in outbox => job = "failed"
  /\ "cancelled" \in outbox => job = "cancelled"
  /\ "progress" \in outbox => job \in {"running", "cancel_requested"}
  /\ faults = 0 /\ "stray" \in outbox => job \in {"failed", "cancelled"}
  /\ faults = 0 /\ job = "succeeded" /\ "report" \notin outbox /\ "complete" \notin outbox =>
       chat.status = "complete"
  /\ chat.status \in Ends => job = chat.status
  /\ chat.status = "complete" \/ chat.report => job = "succeeded"

Whole(f) == f \in DOMAIN files /\ files[f] = [name |-> Report, whole |-> TRUE]

\* A save is about the attached report if there is one, and about a file of its
\* own otherwise.
SaveInv ==
  /\ ~At("ended") => /\ save.step = "off"
                     /\ DOMAIN knowledge = Existing
                     /\ \A k \in DOMAIN knowledge : knowledge[k] = {}
  /\ save.step = "choose" => save.known = chat.files
  /\ save.step = "preview" => save.file \in DOMAIN files /\ files[save.file].name = Report
  /\ save.step \in {"create", "add"} => Whole(save.file)
  /\ \A k \in DOMAIN knowledge : \A f \in knowledge[k] : Whole(f)
  /\ chat.files # {} =>
       /\ save.step \notin {"report", "preview"}
       /\ save.step \in {"create", "add"} => save.file \in chat.files
       /\ \A k \in DOMAIN knowledge : knowledge[k] \subseteq chat.files
  /\ faults = 0 =>
       \A k \in DOMAIN knowledge \ Existing :
         knowledge[k] # {} \/ (save.step = "add" /\ save.target = k)

------------------------------------------------------------------------------
(* Files. *)

LEMMA AppendFile ==
  ASSUME files \in Seq(File), NEW x \in File, files' = Append(files, x)
  PROVE  /\ files' \in Seq(File) /\ Len(files) + 1 \in DOMAIN files'
         /\ Len(files') = Len(files) + 1 /\ files'[Len(files) + 1] = x
         /\ Len(files) + 1 \notin DOMAIN files
         /\ Grown
<1>1. /\ files' \in Seq(File) /\ Len(files') = Len(files) + 1
      /\ files'[Len(files) + 1] = x /\ Len(files) \in Nat
      /\ \A i \in 1 .. Len(files) : files'[i] = files[i]
  BY AppendProperties
<1>2. DOMAIN files = 1 .. Len(files) /\ DOMAIN files' = 1 .. Len(files) + 1
  BY <1>1
<1>3. Grown
  BY <1>1, <1>2 DEF Grown
<1> QED
  BY <1>1, <1>2, <1>3

LEMMA WithPreview ==
  ASSUME NEW f \in File
  PROVE  /\ [f EXCEPT !.whole = TRUE] \in File
         /\ [f EXCEPT !.whole = TRUE] = [name |-> f.name, whole |-> TRUE]
<1> DEFINE x == [f EXCEPT !.whole = TRUE]
<1>1. x \in File /\ x.name = f.name /\ x.whole = TRUE
  BY DEF File
<1> HIDE DEF x
<1>2. PICK a \in Artifacts, b \in BOOLEAN : x = [name |-> a, whole |-> b]
  BY <1>1 DEF File
<1>3. a = f.name /\ b = TRUE
  BY <1>1, <1>2
<1>4. x = [name |-> f.name, whole |-> TRUE]
  BY <1>2, <1>3
<1> QED
  BY <1>1, <1>4 DEF x

LEMMA ReplaceFile ==
  ASSUME NEW fs \in Seq(File), NEW i \in 1 .. Len(fs), NEW x \in File
  PROVE  /\ [fs EXCEPT ![i] = x] \in Seq(File)
         /\ Len([fs EXCEPT ![i] = x]) = Len(fs)
         /\ \A j \in 1 .. Len(fs) : [fs EXCEPT ![i] = x][j] = IF j = i THEN x ELSE fs[j]
<1> DEFINE S == File
<1> HIDE DEF S
<1>1. fs \in Seq(S) /\ x \in S
  BY DEF S
<1>2. /\ [fs EXCEPT ![i] = x] \in Seq(S)
      /\ Len([fs EXCEPT ![i] = x]) = Len(fs)
      /\ \A j \in 1 .. Len(fs) : [fs EXCEPT ![i] = x][j] = IF j = i THEN x ELSE fs[j]
  BY <1>1, ExceptSeq
<1> QED
  BY <1>2 DEF S

LEMMA PreviewFile ==
  ASSUME files \in Seq(File), NEW i \in DOMAIN files,
         files' = [files EXCEPT ![i].whole = TRUE]
  PROVE  /\ files' \in Seq(File) /\ DOMAIN files' = DOMAIN files /\ Len(files') = Len(files)
         /\ files'[i] = [name |-> files[i].name, whole |-> TRUE]
         /\ \A j \in DOMAIN files \ {i} : files'[j] = files[j]
         /\ Grown
<1> DEFINE x == [files[i] EXCEPT !.whole = TRUE]
<1>1. DOMAIN files = 1 .. Len(files) /\ files[i] \in File
  OBVIOUS
<1>2. x \in File /\ x = [name |-> files[i].name, whole |-> TRUE]
  BY <1>1, WithPreview
<1>3. files' = [files EXCEPT ![i] = x]
  OBVIOUS
<1> HIDE DEF x
<1>4. /\ files' \in Seq(File) /\ Len(files') = Len(files)
      /\ \A j \in 1 .. Len(files) : files'[j] = IF j = i THEN x ELSE files[j]
  <2>1. i \in 1 .. Len(files)
    BY <1>1
  <2>2. /\ [files EXCEPT ![i] = x] \in Seq(File)
        /\ Len([files EXCEPT ![i] = x]) = Len(files)
        /\ \A j \in 1 .. Len(files) :
             [files EXCEPT ![i] = x][j] = IF j = i THEN x ELSE files[j]
    BY <1>2, <2>1, ReplaceFile
  <2> QED
    BY <1>3, <2>2
<1>5. DOMAIN files' = DOMAIN files
  BY <1>1, <1>4
<1>6. files'[i] = x /\ \A j \in DOMAIN files \ {i} : files'[j] = files[j]
  BY <1>1, <1>4
<1>7. Grown
  BY <1>2, <1>5, <1>6 DEF Grown
<1> QED
  BY <1>2, <1>4, <1>5, <1>6, <1>7

LEMMA SameFiles == files' = files => Grown
BY DEF Grown

\* What was gathered stays gathered.
LEMMA SoundGrows ==
  ASSUME Grown, NEW S \in SUBSET DOMAIN files
  PROVE  /\ S \in SUBSET DOMAIN files'
         /\ Names(files', S) = Names(files, S)
         /\ Sound(files, S) => Sound(files', S)
         /\ Full(files, S) => Full(files', S)
<1>1. \A f \in S : /\ f \in DOMAIN files /\ f \in DOMAIN files'
                   /\ files'[f].name = files[f].name
                   /\ files[f].whole => files'[f].whole
  BY DEF Grown
<1>2. Names(files', S) = Names(files, S)
  BY <1>1 DEF Names
<1>3. Sound(files, S) => Sound(files', S)
  BY <1>1 DEF Sound
<1> QED
  BY <1>1, <1>2, <1>3 DEF Full

\* As many files as artifacts.
LEMMA FullCardinality ==
  ASSUME files \in Seq(File), NEW S \in SUBSET DOMAIN files, Full(files, S)
  PROVE  Cardinality(S) = Cardinality(Artifacts)
<1>1. IsFiniteSet(S)
  <2>1. DOMAIN files = 1 .. Len(files) /\ Len(files) \in Int /\ 1 \in Int
    OBVIOUS
  <2>2. IsFiniteSet(1 .. Len(files))
    BY <2>1, FS_Interval
  <2> QED
    BY <2>1, <2>2, FS_Subset
<1> DEFINE g == [f \in S |-> files[f].name]
<1>2. g \in Bijection(S, Artifacts)
  <2>1. g \in [S -> Artifacts]
    BY DEF Full, Names
  <2>2. \A f, h \in S : g[f] = g[h] => f = h
    BY DEF Full, Sound
  <2>3. \A a \in Artifacts : \E f \in S : g[f] = a
    BY DEF Full, Names
  <2> HIDE DEF g
  <2> QED
    BY <2>1, <2>2, <2>3 DEF Bijection, Injection, Surjection, IsInjective
<1>3. ExistsBijection(S, Artifacts)
  BY <1>2 DEF ExistsBijection
<1> QED
  BY <1>1, <1>3, FS_Bijection

------------------------------------------------------------------------------
(* Types. *)

LEMMA Types ==
  ASSUME TypeInv
  PROVE  /\ job \in JobStates
         /\ pipe \in [at : Places, todo : SUBSET Artifacts, got : SUBSET DOMAIN files,
                      caught : {"no", "yes", "lost"}]
         /\ outbox \subseteq Publications
         /\ chat \in [status : Statuses, report : BOOLEAN, files : SUBSET DOMAIN files]
         /\ files \in Seq(File) /\ late \in BOOLEAN
         /\ stops \in 0 .. MaxStops /\ faults \in 0 .. MaxFaults
BY DEF TypeInv, TypeOK, TurnTypeOK, File

\* What a step of the turn may do to each of its variables.
LEMMA TurnMoves ==
  ASSUME TurnNext
  PROVE  /\ UNCHANGED stops \/ StopPressed
         /\ UNCHANGED faults \/ Fault
         /\ UNCHANGED late \/ late' = TRUE
         /\ UNCHANGED files \/ Preview \/ \E a \in Artifacts : Upload(a)
         /\ \/ UNCHANGED chat \/ Approve \/ EmitFiles \/ EmitStatus
            \/ \E p \in outbox : Deliver(p)
         /\ job' \in {"cancel_requested", "cancelled"} =>
              \/ UNCHANGED job \/ pipe.at \in Cancelling
              \/ RunnerCancels \/ ControllerEnds
<1> USE DEF TurnNext, PipeStep, PipeFails, Stop, GatewayStep, StreamStep, Decline, CollectContext,
      CommitJob, JobCreated, PrepareFails, Resume, Wake, DeadlinePasses, Poll, PollFails,
      Attached, AttachFails, FetchReport, FetchReportFails, CancelJob, CancelJobFails,
      StopUncaught, StopCaught, StopAgain, Dispatch, Progress, Complete, RunnerFails, Requeue,
      AbandonProgress, Lose
<1>1. UNCHANGED stops \/ StopPressed
  BY DEF Approve, Upload, Preview, EmitFiles, EmitStatus, Deliver, RunnerCancels, ControllerEnds
<1>2. UNCHANGED faults \/ Fault
  BY DEF Approve, Upload, Preview, EmitFiles, EmitStatus, Deliver, RunnerCancels, ControllerEnds
<1>3. UNCHANGED late \/ late' = TRUE
  BY DEF Approve, Upload, Preview, EmitFiles, EmitStatus, Deliver, RunnerCancels, ControllerEnds
<1>4. UNCHANGED files \/ Preview \/ \E a \in Artifacts : Upload(a)
  BY DEF Approve, EmitFiles, EmitStatus, Deliver, RunnerCancels, ControllerEnds
<1>5. \/ UNCHANGED chat \/ Approve \/ EmitFiles \/ EmitStatus
      \/ \E p \in outbox : Deliver(p)
  BY DEF Upload, Preview, RunnerCancels, ControllerEnds
<1>6. job' \in {"cancel_requested", "cancelled"} =>
        UNCHANGED job \/ pipe.at \in Cancelling \/ RunnerCancels \/ ControllerEnds
  BY DEF Approve, Upload, Preview, EmitFiles, EmitStatus, Deliver
<1> QED
  BY <1>1, <1>2, <1>3, <1>4, <1>5, <1>6

\* Counters and the gateway's part.
LEMMA SmallTypes ==
  ASSUME TypeInv, TurnNext
  PROVE  /\ job' \in JobStates /\ outbox' \subseteq Publications
         /\ late' \in BOOLEAN /\ stops' \in 0 .. MaxStops /\ faults' \in 0 .. MaxFaults
<1>0. /\ job \in JobStates /\ outbox \subseteq Publications
      /\ late \in BOOLEAN /\ stops \in 0 .. MaxStops /\ faults \in 0 .. MaxFaults
  BY Types
<1>1. stops' \in 0 .. MaxStops /\ faults' \in 0 .. MaxFaults
  BY <1>0, TurnMoves, TurnAssumption DEF StopPressed, Fault
<1>2. job' \in JobStates
  BY <1>0 DEF TurnNext, PipeStep, PipeFails, Stop, GatewayStep, StreamStep, Decline, CollectContext,
       Approve, CommitJob, JobCreated, PrepareFails, Resume, Wake, DeadlinePasses, Poll,
       PollFails, Upload, Preview, Attached, AttachFails, FetchReport, FetchReportFails,
       EmitFiles, EmitStatus, CancelJob, CancelJobFails, StopUncaught, StopCaught,
       StopAgain, Dispatch, Progress, Complete, RunnerFails, RunnerCancels, ControllerEnds,
       Requeue, AbandonProgress, Deliver, Lose, JobStates, Pending, Ends, Cancelled
<1>3. outbox' \subseteq Publications
  BY <1>0 DEF TurnNext, PipeStep, PipeFails, Stop, GatewayStep, StreamStep, Decline, CollectContext,
       Approve, CommitJob, JobCreated, PrepareFails, Resume, Wake, DeadlinePasses, Poll,
       PollFails, Upload, Preview, Attached, AttachFails, FetchReport, FetchReportFails,
       EmitFiles, EmitStatus, CancelJob, CancelJobFails, StopUncaught, StopCaught,
       StopAgain, Dispatch, Progress, Complete, RunnerFails, RunnerCancels, ControllerEnds,
       Requeue, AbandonProgress, Deliver, Lose, Publications, Left
<1>4. late' \in BOOLEAN
  BY <1>0, TurnMoves
<1> QED
  BY <1>1, <1>2, <1>3, <1>4

\* Files are only added, and only a preview text changes them.
LEMMA TurnFiles ==
  ASSUME TypeInv, AttachInv, TurnNext
  PROVE  files' \in Seq(File) /\ Grown
<1>0. files \in Seq(File) /\ \A a \in Artifacts : [name |-> a, whole |-> FALSE] \in File
  BY Types DEF File
<1>1. CASE \E a \in Artifacts : Upload(a)
  BY <1>0, <1>1, AppendFile DEF Upload
<1>2. CASE Preview
  <2>1. Len(files) \in DOMAIN files /\ files' = [files EXCEPT ![Len(files)].whole = TRUE]
    BY <1>2 DEF Preview, AttachInv
  <2> QED
    BY <1>0, <2>1, PreviewFile
<1>3. CASE UNCHANGED files
  BY <1>0, <1>3, SameFiles
<1>4. (\E a \in Artifacts : Upload(a)) \/ Preview \/ UNCHANGED files
  BY TurnMoves
<1> QED
  BY <1>1, <1>2, <1>3, <1>4

\* The pipe's record and the message.
LEMMA TurnRecords ==
  ASSUME TypeInv, AttachInv, TurnNext
  PROVE  /\ pipe' \in [at : Places, todo : SUBSET Artifacts, got : SUBSET DOMAIN files',
                       caught : {"no", "yes", "lost"}]
         /\ chat' \in [status : Statuses, report : BOOLEAN, files : SUBSET DOMAIN files']
<1>0. /\ pipe \in [at : Places, todo : SUBSET Artifacts, got : SUBSET DOMAIN files,
                   caught : {"no", "yes", "lost"}]
      /\ chat \in [status : Statuses, report : BOOLEAN, files : SUBSET DOMAIN files]
      /\ outbox \subseteq Publications
  BY Types
<1>1. DOMAIN files \subseteq DOMAIN files'
  BY TurnFiles DEF Grown
<1>2. pipe' \in [at : Places, todo : SUBSET Artifacts, got : SUBSET DOMAIN files',
                 caught : {"no", "yes", "lost"}]
  <2>1. CASE Preview
    <3>1. Len(files) \in DOMAIN files
      BY <2>1 DEF Preview, AttachInv
    <3> QED
      BY <1>0, <1>1, <2>1, <3>1 DEF Preview, Places, Guarded
  <2>2. CASE UNCHANGED pipe
    BY <1>0, <1>1, <2>2
  <2>3. CASE \E p \in Places : GoTo(p)
    BY <1>0, <1>1, <2>3 DEF GoTo
  <2>4. CASE Poll \/ (\E a \in Artifacts : Upload(a)) \/ AttachFails \/ StopCaught \/ CancelJobFails
    BY <1>0, <1>1, <2>4 DEF Poll, Upload, AttachFails, StopCaught, CancelJobFails,
       GoTo, AfterPoll, Places, Guarded, Suspended, Cancelling
  <2>5. \/ Preview \/ UNCHANGED pipe \/ (\E p \in Places : GoTo(p))
        \/ Poll \/ (\E a \in Artifacts : Upload(a)) \/ AttachFails \/ StopCaught \/ CancelJobFails
    BY DEF TurnNext, PipeStep, PipeFails, Stop, GatewayStep, StreamStep, Decline, CollectContext,
       Approve, CommitJob, JobCreated, PrepareFails, Resume, Wake, DeadlinePasses,
       PollFails, Attached, FetchReport, FetchReportFails,
       EmitFiles, EmitStatus, CancelJob, StopUncaught,
       StopAgain, Dispatch, Progress, Complete, RunnerFails, RunnerCancels, ControllerEnds,
       Requeue, AbandonProgress, Deliver, Lose, At, AfterPoll, Places, Preparing, Guarded,
       Suspended, Cancelling
  <2> QED
    BY <2>1, <2>2, <2>3, <2>4, <2>5
<1>3. chat' \in [status : Statuses, report : BOOLEAN, files : SUBSET DOMAIN files']
  <2>1. CASE UNCHANGED chat
    BY <1>0, <1>1, <2>1
  <2>2. CASE Approve \/ EmitFiles \/ EmitStatus \/ \E p \in outbox : Deliver(p)
    BY <1>0, <1>1, <2>2 DEF Approve, EmitFiles, EmitStatus, Deliver, Statuses, Publications
  <2>3. \/ UNCHANGED chat
        \/ Approve \/ EmitFiles \/ EmitStatus \/ \E p \in outbox : Deliver(p)
    BY TurnMoves
  <2> QED
    BY <2>1, <2>2, <2>3
<1> QED
  BY <1>2, <1>3

LEMMA TurnTypes ==
  ASSUME TypeInv, AttachInv, Turn
  PROVE  TypeInv' /\ Grown
<1>1. TurnNext /\ UNCHANGED <<save, knowledge, stored, presses>>
  BY DEF Turn
<1>2. files' \in Seq(File) /\ Grown /\ DOMAIN files \subseteq DOMAIN files'
  BY <1>1, TurnFiles DEF Grown
<1>3. TurnTypeOK'
  BY <1>1, <1>2, SmallTypes, TurnRecords DEF TurnTypeOK, File
<1>4. Save!SaveTypeOK'
  BY <1>1, <1>2 DEF TypeInv, TypeOK, Save!SaveTypeOK
<1> QED
  BY <1>1, <1>2, <1>3, <1>4 DEF TypeInv, TypeOK

LEMMA SaveTypes ==
  ASSUME TypeInv, SaveInv, SaveReport
  PROVE  TypeInv' /\ Grown
<1>0. /\ files \in Seq(File) /\ Report \in Artifacts /\ faults \in 0 .. MaxFaults
      /\ save \in [step : Save!Steps, known : SUBSET DOMAIN files,
                   target : Collections \union {NoTarget},
                   file : DOMAIN files \union {Save!NoFile}]
      /\ chat.files \subseteq DOMAIN files
  BY Types, SaveAssumption DEF TypeInv, TypeOK, Save!SaveTypeOK
<1>1. UNCHANGED <<job, pipe, outbox, chat, late, stops>> /\ Save!SaveNext
  BY DEF SaveReport, Save!SaveNext, Save!Press, Save!Choose, Save!Refuse, Save!FetchAndUpload,
     Save!NoReport, Save!SetPreview, Save!CreateCollection, Save!AddFile, Save!SaveFails,
     Save!Expire, Save!Environment
<1>2. files' \in Seq(File) /\ Grown
  <2>1. CASE Save!FetchAndUpload
    <3>1. [name |-> Report, whole |-> FALSE] \in File
      BY <1>0 DEF File
    <3> QED
      BY <1>0, <2>1, <3>1, AppendFile DEF Save!FetchAndUpload
  <2>2. CASE Save!SetPreview
    <3>1. save.file \in DOMAIN files /\ files' = [files EXCEPT ![save.file].whole = TRUE]
      BY <2>2 DEF Save!SetPreview, SaveInv
    <3> QED
      BY <1>0, <3>1, PreviewFile
  <2>3. CASE UNCHANGED files
    BY <1>0, <2>3, SameFiles
  <2>4. Save!FetchAndUpload \/ Save!SetPreview \/ UNCHANGED files
    BY <1>1 DEF Save!SaveNext, Save!Press, Save!Choose, Save!Refuse, Save!NoReport,
       Save!CreateCollection, Save!AddFile, Save!SaveFails, Save!Expire
  <2> QED
    BY <2>1, <2>2, <2>3, <2>4
<1>3. DOMAIN files \subseteq DOMAIN files'
  BY <1>2 DEF Grown
<1>4. faults' \in 0 .. MaxFaults
  BY <1>0, <1>1, TurnAssumption DEF Save!SaveNext, Save!Press, Save!Choose, Save!Refuse,
     Save!FetchAndUpload, Save!NoReport, Save!SetPreview, Save!CreateCollection, Save!AddFile,
     Save!SaveFails, Save!Expire, Save!SaveFault
<1>5. TurnTypeOK'
  <2>1. TurnTypeOK
    BY DEF TypeInv, TypeOK
  <2> QED
    BY <1>1, <1>2, <1>3, <1>4, <2>1 DEF TurnTypeOK, File
<1>6. /\ save' \in [step : Save!Steps, known : SUBSET DOMAIN files',
                    target : Collections \union {NoTarget},
                    file : DOMAIN files' \union {Save!NoFile}]
      /\ save'.step \in {"report", "preview", "create", "add"} => save'.target \in Collections
  <2>0. save.step \in {"report", "preview", "create", "add"} => save.target \in Collections
    BY DEF TypeInv
  <2>1. CASE Save!FetchAndUpload
    <3>1. Len(files) + 1 \in DOMAIN files'
      <4>1. [name |-> Report, whole |-> FALSE] \in File
        BY <1>0 DEF File
      <4> QED
        BY <1>0, <2>1, <4>1, AppendFile DEF Save!FetchAndUpload
    <3> QED
      BY <1>0, <1>3, <2>0, <2>1, <3>1 DEF Save!FetchAndUpload, Save!Steps
  <2>2. CASE \E named \in BOOLEAN : Save!Press(named)
    BY <1>0, <1>3, <2>0, <2>2 DEF Save!Press, Save!Steps
  <2>3. CASE Save!Choose
    BY <1>0, <1>3, <2>0, <2>3 DEF Save!Choose, Save!Reuse, Save!AttachedReports, Save!Steps
  <2>4. CASE Save!Refuse \/ Save!NoReport \/ Save!SetPreview \/ Save!CreateCollection
             \/ Save!AddFile \/ Save!SaveFails \/ Save!Expire
    BY <1>0, <1>3, <2>0, <2>4 DEF Save!Refuse, Save!NoReport, Save!SetPreview,
       Save!CreateCollection, Save!AddFile, Save!SaveFails, Save!Expire, Save!Over, Save!Steps
  <2> QED
    BY <1>1, <2>1, <2>2, <2>3, <2>4 DEF Save!SaveNext
<1>7. /\ DOMAIN knowledge' \subseteq Collections
      /\ \A k \in DOMAIN knowledge' : knowledge'[k] \subseteq DOMAIN files'
  <2>0. /\ DOMAIN knowledge \subseteq Collections
        /\ \A k \in DOMAIN knowledge : knowledge[k] \subseteq DOMAIN files
    BY DEF TypeInv, TypeOK, Save!SaveTypeOK
  <2>1. CASE Save!CreateCollection
    <3>1. save.target \in Collections
      BY <2>1 DEF Save!CreateCollection, TypeInv
    <3> QED
      BY <1>3, <2>0, <2>1, <3>1 DEF Save!CreateCollection
  <2>2. CASE Save!AddFile
    <3>1. save.file \in DOMAIN files
      BY <2>2 DEF Save!AddFile, SaveInv, Whole
    <3> QED
      BY <1>3, <2>0, <2>2, <3>1 DEF Save!AddFile
  <2>3. CASE UNCHANGED knowledge
    BY <1>3, <2>0, <2>3
  <2> QED
    BY <1>1, <2>1, <2>2, <2>3 DEF Save!SaveNext, Save!Press, Save!Choose, Save!Refuse,
       Save!FetchAndUpload, Save!NoReport, Save!SetPreview, Save!SaveFails, Save!Expire
<1>8. stored' \in BOOLEAN /\ presses' \in 0 .. MaxSaves
  <2>0. stored \in BOOLEAN /\ presses \in 0 .. MaxSaves
    BY DEF TypeInv, TypeOK, Save!SaveTypeOK
  <2>1. stored' = FALSE \/ UNCHANGED stored
    BY <1>1 DEF Save!SaveNext, Save!Press, Save!Choose, Save!Refuse,
       Save!FetchAndUpload, Save!NoReport, Save!SetPreview, Save!CreateCollection,
       Save!AddFile, Save!SaveFails, Save!Expire
  <2>2. (presses < MaxSaves /\ presses' = presses + 1) \/ UNCHANGED presses
    BY <1>1 DEF Save!SaveNext, Save!Press, Save!Choose, Save!Refuse,
       Save!FetchAndUpload, Save!NoReport, Save!SetPreview, Save!CreateCollection,
       Save!AddFile, Save!SaveFails, Save!Expire
  <2>3. stored' \in BOOLEAN
    BY <2>0, <2>1
  <2>4. presses' \in 0 .. MaxSaves
    BY <2>0, <2>2, SaveAssumption
  <2> QED
    BY <2>3, <2>4
<1>9. Save!SaveTypeOK'
  BY <1>6, <1>7, <1>8 DEF Save!SaveTypeOK
<1> QED
  BY <1>2, <1>5, <1>6, <1>9 DEF TypeInv, TypeOK

LEMMA NextTypes ==
  ASSUME TypeInv, AttachInv, SaveInv, [Next]_vars
  PROVE  TypeInv' /\ Grown
<1>1. CASE UNCHANGED vars
  BY <1>1 DEF vars, pvars, TypeInv, TypeOK, TurnTypeOK, Save!SaveTypeOK, Grown
<1> QED
  BY <1>1, TurnTypes, SaveTypes DEF Next

\* The button touches neither the turn nor its job.
LEMMA SaveLeaves ==
  ASSUME SaveReport
  PROVE  /\ UNCHANGED <<job, pipe, outbox, chat, late, stops>>
         /\ faults' # faults => faults' = faults + 1
BY DEF SaveReport, Save!SaveNext, Save!Press, Save!Choose, Save!Refuse, Save!FetchAndUpload,
   Save!NoReport, Save!SetPreview, Save!CreateCollection, Save!AddFile, Save!SaveFails,
   Save!Expire, Save!Environment, Save!SaveFault

------------------------------------------------------------------------------
(* Stop. *)

LEMMA StopStep ==
  ASSUME TypeInv, StopInv, [Next]_vars
  PROVE  StopInv'
<1>0. /\ job \in JobStates /\ stops \in 0 .. MaxStops /\ MaxStops \in Nat
      /\ pipe \in [at : Places, todo : SUBSET Artifacts, got : SUBSET DOMAIN files,
                   caught : {"no", "yes", "lost"}]
  BY Types, TurnAssumption
<1>1. CASE UNCHANGED <<job, pipe, stops>>
  BY <1>1 DEF StopInv, StopReachesJob, At
<1>2. CASE PipeStep /\ ~CancelJob
  BY <1>0, <1>2 DEF StopInv, StopReachesJob, At, Cancelling, PipeStep, StreamStep, Decline,
     CollectContext, Approve, CommitJob, JobCreated, Resume, Wake, DeadlinePasses, Poll,
     AfterPoll, Upload, Preview, Attached, FetchReport, EmitFiles, EmitStatus, GoTo,
     Preparing, Guarded, Suspended
<1>3. CASE CancelJob \/ PipeFails
  BY <1>0, <1>3 DEF StopInv, StopReachesJob, At, Cancelling, CancelJob, PipeFails, PrepareFails,
     PollFails, AfterPoll, AttachFails, FetchReportFails, CancelJobFails, GoTo, Cancelled,
     Pending, Ends, JobStates
<1>4. CASE Stop
  <2>1. stops' = stops + 1 /\ UNCHANGED job
    BY <1>4 DEF Stop, StopUncaught, StopCaught, StopAgain, StopPressed
  <2>2. CASE StopUncaught
    BY <1>0, <2>1, <2>2 DEF StopInv, StopReachesJob, At, StopUncaught, GoTo, Preparing,
       Guarded, Suspended, Cancelling
  <2>3. CASE StopCaught
    BY <1>0, <2>1, <2>3 DEF StopInv, StopReachesJob, At, StopCaught, Cancelling
  <2>4. CASE StopAgain /\ At("cancel")
    BY <1>0, <2>1, <2>4 DEF StopInv, StopReachesJob, At, StopAgain, GoTo, Cancelling
  <2>5. CASE StopAgain /\ ~At("cancel")
    <3>1. stops' >= 3 /\ pipe' = [pipe EXCEPT !.at = "ended"] /\ pipe.caught = "yes"
      BY <1>0, <2>1, <2>5 DEF StopInv, At, StopAgain, GoTo, Cancelling
    <3> QED
      BY <1>0, <2>1, <3>1 DEF StopInv, StopReachesJob, At, Cancelling
  <2> QED
    BY <1>4, <2>2, <2>3, <2>4, <2>5 DEF Stop
<1>5. CASE GatewayStep
  BY <1>0, <1>5 DEF StopInv, StopReachesJob, At, GatewayStep, Dispatch, Progress, Complete,
     RunnerFails, RunnerCancels, ControllerEnds, Requeue, AbandonProgress, Deliver, Lose,
     Pending, Ends, JobStates
<1>6. CASE SaveReport
  BY <1>1, <1>6, SaveLeaves
<1> QED
  BY <1>1, <1>2, <1>3, <1>4, <1>5, <1>6 DEF Next, Turn, TurnNext, vars, pvars

------------------------------------------------------------------------------
(* What the chat is told. *)

\* Where the pipe knows of the end of the job, and where it knows of none yet.
LEMMA StatusStep ==
  ASSUME TypeInv, StatusInv, [Next]_vars
  PROVE  StatusInv'
<1>0. /\ job \in JobStates /\ outbox \subseteq Publications
      /\ faults \in 0 .. MaxFaults /\ MaxFaults \in Nat
      /\ pipe \in [at : Places, todo : SUBSET Artifacts, got : SUBSET DOMAIN files,
                   caught : {"no", "yes", "lost"}]
      /\ chat \in [status : Statuses, report : BOOLEAN, files : SUBSET DOMAIN files]
  BY Types, TurnAssumption
<1>1. CASE UNCHANGED <<job, pipe, outbox, chat>> /\ (faults' # faults => faults' = faults + 1)
  BY <1>0, <1>1 DEF StatusInv
<1>2. CASE PipeStep
  BY <1>0, <1>2 DEF StatusInv, At, PipeStep, StreamStep, Decline,
     CollectContext, Approve, CommitJob, JobCreated, Resume, Wake, DeadlinePasses, Poll,
     AfterPoll, Upload, Preview, Attached, FetchReport, EmitFiles, EmitStatus, CancelJob, GoTo,
     Preparing, Guarded, Suspended, Cancelling, Cancelled, Ends, JobStates, Pending
<1>3. CASE PipeFails
  <2>1. faults' # 0 /\ faults' = faults + 1 /\ UNCHANGED <<outbox, chat>>
    BY <1>0, <1>3 DEF PipeFails, PrepareFails, PollFails, AttachFails, FetchReportFails,
       CancelJobFails, Fault
  <2>2. job' = job \/ job \in Pending
    BY <1>0, <1>3 DEF PipeFails, PrepareFails, PollFails, AttachFails, FetchReportFails,
       CancelJobFails, Cancelled, Pending
  <2>3. CASE job' = job
    BY <1>0, <1>3, <2>1, <2>3 DEF StatusInv, At, PipeFails, PrepareFails, PollFails, AfterPoll,
       AttachFails, FetchReportFails, CancelJobFails, GoTo
  <2>4. CASE job' # job
    <3>1. /\ job \in Pending /\ job' = Cancelled(job) /\ pipe'.at = "ended"
      BY <1>0, <1>3, <2>2, <2>4 DEF PipeFails, PrepareFails, PollFails, AttachFails,
         FetchReportFails, CancelJobFails
    <3> QED
      BY <1>0, <2>1, <3>1 DEF StatusInv, Cancelled, Pending, Ends
  <2> QED
    BY <2>3, <2>4
<1>4. CASE Stop
  BY <1>0, <1>4 DEF StatusInv, At, Cancelling, Stop, StopUncaught, StopCaught,
     StopAgain, GoTo, Preparing, Guarded, Suspended
<1>5. CASE GatewayStep
  BY <1>0, <1>5 DEF StatusInv, GatewayStep, Dispatch, Progress, Complete, Gathered, Left,
     RunnerFails, RunnerCancels, ControllerEnds, Requeue, AbandonProgress, Deliver, Lose, Fault,
     Pending, Ends, JobStates, Publications, Statuses
<1>6. CASE SaveReport
  BY <1>1, <1>6, SaveLeaves
<1> QED
  BY <1>1, <1>2, <1>3, <1>4, <1>5, <1>6 DEF Next, Turn, TurnNext, vars, pvars

------------------------------------------------------------------------------
(* What is attached. *)

LEMMA SoundEmpty ==
  ASSUME NEW fs
  PROVE  Sound(fs, {}) /\ Names(fs, {}) = {}
BY DEF Sound, Names

\* A file of an artifact that is not there yet.
LEMMA SoundAdd ==
  ASSUME NEW fs, NEW S, NEW f, Sound(fs, S), fs[f].whole, fs[f].name \notin Names(fs, S)
  PROVE  /\ Sound(fs, S \union {f})
         /\ Names(fs, S \union {f}) = Names(fs, S) \union {fs[f].name}
<1>1. Sound(fs, S \union {f})
  BY DEF Sound, Names
<1>2. Names(fs, S \union {f}) = Names(fs, S) \union {fs[f].name}
  BY DEF Names
<1> QED
  BY <1>1, <1>2

LEMMA AttachStep ==
  ASSUME TypeInv, AttachInv, SaveInv, [Next]_vars
  PROVE  AttachInv'
<1>0. /\ files \in Seq(File) /\ Grown
      /\ pipe \in [at : Places, todo : SUBSET Artifacts, got : SUBSET DOMAIN files,
                   caught : {"no", "yes", "lost"}]
      /\ chat \in [status : Statuses, report : BOOLEAN, files : SUBSET DOMAIN files]
  BY Types, NextTypes
<1>1. /\ Names(files', pipe.got) = Names(files, pipe.got)
      /\ Sound(files, pipe.got) => Sound(files', pipe.got)
      /\ Full(files, pipe.got) => Full(files', pipe.got)
      /\ Full(files, chat.files) => Full(files', chat.files)
  BY <1>0, SoundGrows
<1>2. CASE \E a \in Artifacts : Upload(a)
  <2>1. PICK a \in Artifacts : Upload(a)
    BY <1>2
  <2>2. /\ At("attach") /\ a \in pipe.todo /\ chat' = chat
        /\ files' = Append(files, [name |-> a, whole |-> FALSE])
        /\ pipe' = [pipe EXCEPT !.at = "preview", !.todo = pipe.todo \ {a}]
    BY <2>1 DEF Upload
  <2>3. Len(files') \in DOMAIN files' /\ files'[Len(files')].name = a
    <3>1. [name |-> a, whole |-> FALSE] \in File
      BY DEF File
    <3>2. /\ Len(files) + 1 \in DOMAIN files' /\ Len(files') = Len(files) + 1
          /\ files'[Len(files) + 1] = [name |-> a, whole |-> FALSE]
      BY <1>0, <2>2, <3>1, AppendFile
    <3> QED
      BY <3>2
  <2>4. /\ pipe'.at = "preview" /\ pipe'.got = pipe.got /\ pipe'.todo = pipe.todo \ {a}
    BY <1>0, <2>2
  <2>5. /\ Sound(files, pipe.got) /\ Names(files, pipe.got) \intersect pipe.todo = {}
        /\ Names(files, pipe.got) \union pipe.todo = Artifacts
        /\ chat.files = {} \/ Full(files, chat.files)
    BY <2>2 DEF AttachInv, At
  <2> QED
    BY <1>1, <2>2, <2>3, <2>4, <2>5 DEF AttachInv, At, Preparing
<1>3. CASE Preview
  <2> DEFINE last == Len(files)
             a == files[last].name
  <2>1. /\ At("preview") /\ chat' = chat
        /\ files' = [files EXCEPT ![last].whole = TRUE]
        /\ pipe' = [pipe EXCEPT !.at = "attach", !.got = pipe.got \union {last}]
    BY <1>3 DEF Preview
  <2>2. /\ last \in DOMAIN files
        /\ Sound(files, pipe.got) /\ Names(files, pipe.got) \intersect pipe.todo = {}
        /\ a \notin Names(files, pipe.got) /\ a \notin pipe.todo
        /\ Names(files, pipe.got) \union pipe.todo \union {a} = Artifacts
        /\ chat.files = {} \/ Full(files, chat.files)
    BY <2>1 DEF AttachInv, At
  <2>3. files'[last] = [name |-> a, whole |-> TRUE]
    BY <1>0, <2>1, <2>2, PreviewFile
  <2>4. /\ pipe'.at = "attach" /\ pipe'.got = pipe.got \union {last} /\ pipe'.todo = pipe.todo
    BY <1>0, <2>1
  <2> HIDE DEF last, a
  <2>5. /\ Sound(files', pipe.got \union {last})
        /\ Names(files', pipe.got \union {last}) = Names(files, pipe.got) \union {a}
    <3>1. files'[last].whole /\ files'[last].name = a
      BY <2>3
    <3>2. Sound(files', pipe.got) /\ a \notin Names(files', pipe.got)
      BY <1>1, <2>2
    <3>3. /\ Sound(files', pipe.got \union {last})
          /\ Names(files', pipe.got \union {last})
               = Names(files', pipe.got) \union {files'[last].name}
      BY <3>1, <3>2, SoundAdd
    <3> QED
      BY <1>1, <3>1, <3>3
  <2>6. /\ Sound(files', pipe'.got)
        /\ Names(files', pipe'.got) \intersect pipe'.todo = {}
        /\ Names(files', pipe'.got) \union pipe'.todo = Artifacts
    BY <2>2, <2>4, <2>5
  <2>7. chat'.files = {} \/ Full(files', chat'.files)
    BY <1>1, <2>1, <2>2
  <2>8. pipe'.at = "attach"
    BY <2>4
  <2> QED
    BY <2>6, <2>7, <2>8 DEF AttachInv, At, Preparing
<1>4. CASE EmitFiles
  BY <1>0, <1>4 DEF EmitFiles, AttachInv, At, GoTo, Preparing
<1>5. CASE Poll
  <2>1. /\ pipe'.at \in {"attach", "last", "keepalive"} /\ pipe'.got = {}
        /\ pipe'.at = "attach" => pipe'.todo = Artifacts
        /\ UNCHANGED <<chat, files>>
    BY <1>0, <1>5 DEF Poll, AfterPoll, AttachInv, At, GoTo
  <2>2. Sound(files', {}) /\ Names(files', {}) = {}
    BY SoundEmpty
  <2>3. chat'.files = {} \/ Full(files', chat'.files)
    BY <2>1 DEF AttachInv
  <2> QED
    BY <2>1, <2>2, <2>3 DEF AttachInv, At, Preparing
<1>6. CASE Attached \/ AttachFails
  BY <1>0, <1>6 DEF Attached, AttachFails, AttachInv, At, GoTo, Preparing, Full
<1>7. CASE /\ UNCHANGED files /\ chat'.files = chat.files
           /\ pipe'.got = pipe.got /\ pipe'.todo = pipe.todo
           /\ \/ pipe'.at = pipe.at
              \/ pipe'.at \in Cancelling \union {"ended", "last"}
              \/ pipe'.at = "status"
              \/ /\ pipe.at \in Preparing \union {"started", "poll", "keepalive", "sleep"}
                 /\ pipe'.at \in Preparing \union {"started", "poll", "keepalive", "sleep"}
              \/ pipe.at = "report" /\ pipe'.at = "files"
  BY <1>0, <1>7 DEF AttachInv, At, Preparing, Cancelling
<1>8. CASE At("ended") /\ UNCHANGED <<pipe, chat>>
  BY <1>1, <1>8 DEF AttachInv, At, Preparing
<1>9. CASE UNCHANGED vars
  BY <1>9 DEF AttachInv, At, vars, pvars
<1>10. CASE Turn /\ ~((\E a \in Artifacts : Upload(a)) \/ Preview \/ EmitFiles \/ Poll \/ Attached
                     \/ AttachFails)
  <2>1. CASE PipeStep
    BY <1>0, <1>7, <1>10, <2>1 DEF PipeStep, StreamStep, Decline,
       CollectContext, Approve, CommitJob, JobCreated, Resume, Wake, DeadlinePasses,
       FetchReport, EmitStatus, CancelJob, GoTo, At, Preparing, Suspended, Cancelling
  <2>2. CASE PipeFails \/ Stop
    BY <1>0, <1>7, <1>10, <2>2 DEF PipeFails, PrepareFails, PollFails, AfterPoll,
       FetchReportFails, CancelJobFails, Stop, StopUncaught, StopCaught, StopAgain, GoTo, At,
       Preparing, Cancelling
  <2>3. CASE GatewayStep
    BY <1>0, <1>7, <2>3 DEF GatewayStep, Dispatch, Progress, Complete, RunnerFails,
       RunnerCancels, ControllerEnds, Requeue, AbandonProgress, Deliver, Lose
  <2> QED
    BY <1>10, <2>1, <2>2, <2>3 DEF Turn, TurnNext
<1>11. CASE SaveReport
  BY <1>8, <1>11, SaveLeaves DEF SaveReport
<1> QED
  BY <1>2, <1>3, <1>4, <1>5, <1>6, <1>9, <1>10, <1>11 DEF Next

------------------------------------------------------------------------------
(* What is saved. *)

LEMMA WholeFile ==
  ASSUME files \in Seq(File), NEW f \in DOMAIN files, files[f].name = Report, files[f].whole
  PROVE  Whole(f)
<1>1. files[f] \in File
  OBVIOUS
<1>2. PICK a \in Artifacts, b \in BOOLEAN : files[f] = [name |-> a, whole |-> b]
  BY <1>1 DEF File
<1>3. a = Report /\ b = TRUE
  BY <1>2
<1>4. files[f] = [name |-> Report, whole |-> TRUE]
  BY <1>2, <1>3
<1> QED
  BY <1>4 DEF Whole

LEMMA WholeGrows ==
  ASSUME Grown, (files \in Seq(File))', NEW f, Whole(f)
  PROVE  Whole(f)'
<1>1. files[f].name = Report /\ files[f].whole /\ f \in DOMAIN files
  BY DEF Whole
<1>2. f \in DOMAIN files' /\ files'[f].name = Report /\ files'[f].whole
  BY <1>1 DEF Grown
<1>3. files'[f] \in File
  BY <1>2
<1>4. PICK a \in Artifacts, b \in BOOLEAN : files'[f] = [name |-> a, whole |-> b]
  BY <1>3 DEF File
<1>5. a = Report /\ b = TRUE
  BY <1>2, <1>4
<1>6. files'[f] = [name |-> Report, whole |-> TRUE]
  BY <1>4, <1>5
<1> QED
  BY <1>2, <1>6 DEF Whole

\* The turn does not touch what is saved, and ends with its files attached.
LEMMA TurnKeepsSave ==
  ASSUME TypeInv, SaveInv, Turn
  PROVE  SaveInv'
<1>0. /\ UNCHANGED <<save, knowledge>>
      /\ faults \in 0 .. MaxFaults /\ MaxFaults \in Nat
      /\ pipe \in [at : Places, todo : SUBSET Artifacts, got : SUBSET DOMAIN files,
                   caught : {"no", "yes", "lost"}]
      /\ chat \in [status : Statuses, report : BOOLEAN, files : SUBSET DOMAIN files]
  BY Types, TurnAssumption DEF Turn
<1>1. CASE ~At("ended")
  BY <1>0, <1>1 DEF SaveInv
<1>2. CASE At("ended")
  <2>1. At("ended")' /\ UNCHANGED files /\ chat'.files = chat.files
    BY <1>0, <1>2 DEF At, Turn, TurnNext, PipeStep, PipeFails, Stop, GatewayStep, StreamStep,
       Decline, CollectContext, Approve, CommitJob, JobCreated, PrepareFails, Resume, Wake,
       DeadlinePasses, Poll, PollFails, Upload, Preview, Attached, AttachFails, FetchReport,
       FetchReportFails, EmitFiles, EmitStatus, CancelJob, CancelJobFails, StopUncaught,
       StopCaught, StopAgain, Dispatch, Progress, Complete, RunnerFails, RunnerCancels,
       ControllerEnds, Requeue, AbandonProgress, Deliver, Lose, Preparing, Guarded, Suspended,
       Cancelling
  <2>2. UNCHANGED faults \/ Fault
    BY TurnMoves DEF Turn
  <2>3. faults' = 0 => faults = 0
    BY <1>0, <2>2 DEF Fault
  <2> QED
    BY <1>0, <1>2, <2>1, <2>3 DEF SaveInv, Whole
<1> QED
  BY <1>1, <1>2

LEMMA SaveStep ==
  ASSUME TypeInv, AttachInv, SaveInv, SaveReport
  PROVE  SaveInv'
<1>0. /\ files \in Seq(File) /\ files' \in Seq(File) /\ Grown
      /\ Report \in Artifacts /\ faults \in 0 .. MaxFaults
      /\ save \in [step : Save!Steps, known : SUBSET DOMAIN files,
                   target : Collections \union {NoTarget},
                   file : DOMAIN files \union {Save!NoFile}]
      /\ chat.files = {} \/ Full(files, chat.files)
      /\ chat.files \subseteq DOMAIN files
  BY Types, SaveTypes, SaveAssumption DEF TypeInv, TypeOK, Save!SaveTypeOK, TurnTypeOK, File,
     AttachInv
<1>1. At("ended") /\ UNCHANGED <<pipe, chat>> /\ Save!SaveNext
  BY SaveLeaves DEF SaveReport
<1>2. At("ended")'
  BY <1>1 DEF At
<1>3. \A f : Whole(f) => Whole(f)'
  BY <1>0, WholeGrows
<1>4. CASE \E named \in BOOLEAN : Save!Press(named)
  BY <1>0, <1>1, <1>2, <1>3, <1>4 DEF SaveInv, Save!Press
<1>5. CASE Save!Choose
  <2>1. PICK target \in Collections : Save!Reuse(target)
    BY <1>5 DEF Save!Choose
  <2>2. save.known = chat.files /\ UNCHANGED <<files, faults, knowledge>> /\ save.step = "choose"
    BY <1>5 DEF Save!Choose, SaveInv
  <2>3. CASE Save!AttachedReports = {}
    <3>1. chat.files = {}
      BY <1>0, <2>2, <2>3 DEF Save!AttachedReports, Full, Names
    <3>2. save'.step = "report"
      BY <1>0, <2>1, <2>3 DEF Save!Reuse
    <3> QED
      BY <1>0, <1>1, <1>2, <1>3, <2>2, <3>1, <3>2 DEF SaveInv
  <2>4. CASE Save!AttachedReports # {}
    <3>1. PICK f \in Save!AttachedReports : save'.file = f /\ save'.step \in {"create", "add"}
      BY <1>0, <2>1, <2>4 DEF Save!Reuse
    <3>2. f \in chat.files /\ files[f].name = Report
      BY <2>2, <3>1 DEF Save!AttachedReports
    <3>3. files[f].whole
      BY <1>0, <3>2 DEF Full, Sound
    <3>4. Whole(f)
      BY <1>0, <3>2, <3>3, WholeFile
    <3> QED
      BY <1>0, <1>1, <1>2, <1>3, <2>2, <3>1, <3>2, <3>4 DEF SaveInv
  <2> QED
    BY <2>3, <2>4
<1>6. CASE Save!FetchAndUpload
  <2>1. [name |-> Report, whole |-> FALSE] \in File
    BY <1>0 DEF File
  <2>2. /\ Len(files) + 1 \in DOMAIN files' /\ files'[Len(files) + 1].name = Report
    BY <1>0, <1>6, <2>1, AppendFile DEF Save!FetchAndUpload
  <2>3. /\ save.step = "report" /\ UNCHANGED <<faults, knowledge>>
        /\ save'.step = "preview" /\ save'.file = Len(files) + 1
    BY <1>0, <1>6 DEF Save!FetchAndUpload
  <2> QED
    BY <1>0, <1>1, <1>2, <1>3, <2>2, <2>3 DEF SaveInv
<1>7. CASE Save!SetPreview
  <2>1. /\ save.step = "preview" /\ UNCHANGED <<faults, knowledge>>
        /\ files' = [files EXCEPT ![save.file].whole = TRUE]
        /\ save'.step \in {"create", "add"} /\ save'.file = save.file
    BY <1>0, <1>7 DEF Save!SetPreview
  <2>2. save.file \in DOMAIN files /\ files[save.file].name = Report
    BY <2>1 DEF SaveInv
  <2>3. /\ save.file \in DOMAIN files'
        /\ files'[save.file] = [name |-> Report, whole |-> TRUE]
    BY <1>0, <2>1, <2>2, PreviewFile
  <2>4. Whole(save.file)'
    BY <2>1, <2>3 DEF Whole
  <2> QED
    BY <1>0, <1>1, <1>2, <1>3, <2>1, <2>4 DEF SaveInv
<1>8. CASE Save!CreateCollection
  <2>1. /\ save.step = "create" /\ UNCHANGED <<faults, files>>
        /\ save'.step = "add" /\ save'.file = save.file /\ save'.target = save.target
        /\ knowledge' = [k \in DOMAIN knowledge \union {save.target} |->
                           IF k = save.target THEN {} ELSE knowledge[k]]
    BY <1>0, <1>8 DEF Save!CreateCollection
  <2> QED
    BY <1>0, <1>1, <1>2, <1>3, <2>1 DEF SaveInv
<1>9. CASE Save!AddFile
  <2>1. /\ save.step = "add" /\ UNCHANGED <<faults, files>> /\ save'.step = "off"
        /\ knowledge' = [knowledge EXCEPT ![save.target] = knowledge[save.target]
                                            \union {save.file}]
    BY <1>0, <1>9 DEF Save!AddFile, Save!Over
  <2> QED
    BY <1>0, <1>1, <1>2, <1>3, <2>1 DEF SaveInv
<1>10. CASE Save!SaveFails
  <2>1. /\ UNCHANGED <<files, knowledge>> /\ save'.step = "off" /\ faults' # 0
    BY <1>0, <1>10 DEF Save!SaveFails, Save!Over, Save!SaveFault
  <2> QED
    BY <1>0, <1>1, <1>2, <1>3, <2>1 DEF SaveInv
<1>11. CASE Save!Refuse \/ Save!NoReport
  <2>1. /\ UNCHANGED <<files, knowledge, faults>> /\ save'.step = "off" /\ save.step # "add"
    BY <1>0, <1>11 DEF Save!Refuse, Save!NoReport, Save!Over
  <2> QED
    BY <1>0, <1>1, <1>2, <1>3, <2>1 DEF SaveInv
<1>12. CASE Save!Expire
  BY <1>0, <1>1, <1>2, <1>3, <1>12 DEF Save!Expire, SaveInv
<1> QED
  BY <1>1, <1>4, <1>5, <1>6, <1>7, <1>8, <1>9, <1>10, <1>11, <1>12 DEF Save!SaveNext

------------------------------------------------------------------------------
(* Theorems. *)

ChatInv == TypeInv /\ StopInv /\ AttachInv /\ StatusInv /\ SaveInv

LEMMA Initially == ChatInit => ChatInv
<1> SUFFICES ASSUME ChatInit PROVE ChatInv
  OBVIOUS
<1>0. /\ job = "none" /\ pipe = [at |-> "context", todo |-> {}, got |-> {}, caught |-> "no"]
      /\ outbox = {} /\ chat = [status |-> "none", report |-> FALSE, files |-> {}]
      /\ files = <<>> /\ late = FALSE /\ stops = 0 /\ faults = 0
      /\ save = [step |-> "off", known |-> {}, target |-> NoTarget, file |-> Save!NoFile]
      /\ knowledge = [k \in Existing |-> {}] /\ stored = TRUE /\ presses = 0
  BY DEF ChatInit, Init, Save!SaveInit
<1>1. TurnTypeOK
  <2>1. job \in JobStates /\ outbox \subseteq Publications /\ late \in BOOLEAN
    BY <1>0 DEF JobStates
  <2>2. /\ pipe \in [at : Places, todo : SUBSET Artifacts, got : SUBSET DOMAIN files,
                     caught : {"no", "yes", "lost"}]
        /\ chat \in [status : Statuses, report : BOOLEAN, files : SUBSET DOMAIN files]
    BY <1>0 DEF Places, Preparing, Statuses
  <2>3. stops \in 0 .. MaxStops /\ faults \in 0 .. MaxFaults
    BY <1>0, TurnAssumption
  <2>4. files \in Seq([name : Artifacts, whole : BOOLEAN])
    BY <1>0
  <2> QED
    BY <2>1, <2>2, <2>3, <2>4 DEF TurnTypeOK
<1>2. Save!SaveTypeOK
  <2>1. stored \in BOOLEAN
    BY <1>0
  <2>2. presses \in 0 .. MaxSaves
    BY <1>0, SaveAssumption
  <2>3. /\ DOMAIN knowledge \subseteq Collections
        /\ \A k \in DOMAIN knowledge : knowledge[k] \subseteq DOMAIN files
    BY <1>0, SaveAssumption
  <2>4. save \in [step : Save!Steps, known : SUBSET DOMAIN files,
                  target : Collections \union {NoTarget},
                  file : DOMAIN files \union {Save!NoFile}]
    BY <1>0 DEF Save!Steps
  <2> QED
    BY <2>1, <2>2, <2>3, <2>4 DEF Save!SaveTypeOK
<1>3. TypeInv
  BY <1>0, <1>1, <1>2 DEF TypeInv, TypeOK
<1>4. StopInv
  BY <1>0 DEF StopInv, StopReachesJob, At, Cancelling
<1>5. AttachInv
  BY <1>0 DEF AttachInv, At
<1>6. StatusInv
  BY <1>0 DEF StatusInv, Ends
<1>7. SaveInv
  BY <1>0 DEF SaveInv, At
<1> QED
  BY <1>3, <1>4, <1>5, <1>6, <1>7 DEF ChatInv

LEMMA Step == ChatInv /\ [Next]_vars => ChatInv'
<1> SUFFICES ASSUME ChatInv, [Next]_vars PROVE ChatInv'
  OBVIOUS
<1>0. TypeInv /\ StopInv /\ AttachInv /\ StatusInv /\ SaveInv
  BY DEF ChatInv
<1>1. TypeInv'
  BY <1>0, NextTypes
<1>2. StopInv'
  BY <1>0, StopStep
<1>3. AttachInv'
  BY <1>0, AttachStep
<1>4. StatusInv'
  BY <1>0, StatusStep
<1>5. SaveInv'
  <2>1. CASE UNCHANGED vars
    BY <1>0, <2>1 DEF SaveInv, At, Whole, vars, pvars
  <2> QED
    BY <1>0, <2>1, TurnKeepsSave, SaveStep DEF Next
<1> QED
  BY <1>1, <1>2, <1>3, <1>4, <1>5 DEF ChatInv

\* The invariant of turn, job, publications, files and saves.
THEOREM ChatInvariant == Spec => []ChatInv
<1>1. ChatInit => ChatInv
  BY Initially
<1>2. ChatInv /\ [Next]_vars => ChatInv'
  BY Step
<1> QED
  BY <1>1, <1>2, PTL DEF Spec

\* Type correctness of the turn and of the button.
THEOREM ChatTypeCorrect == Spec => []TypeOK
<1>1. ChatInv => TypeOK
  BY DEF ChatInv, TypeInv
<1> QED
  BY <1>1, ChatInvariant, PTL

\* A Stop that _stream_job_result catches leaves no job running, however the
\* job, the request and one more Stop interleave.
THEOREM StopIsHonoured == Spec => []StopReachesJob
<1>1. ChatInv => StopReachesJob
  BY DEF ChatInv, StopInv
<1> QED
  BY <1>1, ChatInvariant, PTL

\* The message has all artifacts of the job, each once and previewed, or none.
THEOREM AttachmentsComplete == Spec => []AttachAllOrNone
<1>1. ChatInv => AttachAllOrNone
  <2> SUFFICES ASSUME ChatInv PROVE AttachAllOrNone
    OBVIOUS
  <2>1. /\ files \in Seq(File) /\ chat.files \subseteq DOMAIN files
        /\ chat.files = {} \/ Full(files, chat.files)
    BY Types DEF ChatInv, AttachInv
  <2>2. CASE Full(files, chat.files)
    <3>1. Cardinality(chat.files) = Cardinality(Artifacts)
      BY <2>1, <2>2, FullCardinality
    <3> QED
      BY <2>2, <3>1 DEF AttachAllOrNone, Full, Sound, Names
  <2> QED
    BY <2>1, <2>2 DEF AttachAllOrNone
<1> QED
  BY <1>1, ChatInvariant, PTL

\* Statuses and reports in the chat are those of the job, and without a fault
\* the last status is the final one.
THEOREM StatusCorrect == Spec => []StatusIsTrue
<1>1. ChatInv => StatusIsTrue
  BY DEF ChatInv, StatusInv, StatusIsTrue
<1> QED
  BY <1>1, ChatInvariant, PTL

\* No step but the cancellation after a caught Stop asks for the end of a job.
THEOREM CancelledByStopOnly == Spec => OnlyStopCancels
<1> DEFINE Asked == /\ job' # job
                    /\ \/ job' = "cancel_requested"
                       \/ job = "queued" /\ job' = "cancelled"
<1>1. ChatInv /\ [Next]_vars => [Asked => pipe.caught = "yes"]_pvars
  <2> SUFFICES ASSUME ChatInv, [Next]_vars, Asked PROVE pipe.caught = "yes"
    OBVIOUS
  <2>1. job' # job
    OBVIOUS
  <2>2. Turn
    BY <2>1, SaveLeaves DEF Next, vars, pvars
  <2>3. pipe.at \in Cancelling
    BY <2>1, <2>2, TurnMoves DEF Turn, RunnerCancels, ControllerEnds
  <2> QED
    BY <2>3 DEF ChatInv, StopInv
<1> QED
  BY <1>1, ChatInvariant, PTL DEF Spec, OnlyStopCancels

\* Collections receive the whole report only, an attached one once, and none is
\* created for nothing.
THEOREM SavesSound == Spec => []SavesAreSound
<1>1. ChatInv => SavesAreSound
  <2> SUFFICES ASSUME ChatInv PROVE SavesAreSound
    OBVIOUS
  <2>0. /\ TypeInv /\ SaveInv /\ files \in Seq(File)
        /\ chat.files \subseteq DOMAIN files
        /\ chat.files = {} \/ Full(files, chat.files)
    BY Types DEF ChatInv, AttachInv
  <2>1. Save!SavedReportIsWhole
    BY <2>0 DEF Save!SavedReportIsWhole, SaveInv, Whole
  <2>2. Save!OneCopyOfAttached
    BY <2>0 DEF Save!OneCopyOfAttached, SaveInv, Whole, Full, Sound
  <2>3. Save!NoEmptyCollection
    BY <2>0 DEF Save!NoEmptyCollection, SaveInv
  <2> QED
    BY <2>1, <2>2, <2>3 DEF SavesAreSound
<1> QED
  BY <1>1, ChatInvariant, PTL
===============================================================================
