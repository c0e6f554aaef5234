------------------------------ MODULE SaveAction ------------------------------
(***************************************************************************)
(* The Save to Knowledge button of a finished message                      *)
(* (save_research_to_knowledge.py): a chain of calls to Open WebUI and the *)
(* gateway with a dialog in the middle.  The report that the pipe attached *)
(* is reused; without one it is fetched and uploaded again.  Nothing is    *)
(* undone when a later call fails, and the user may press the button again.*)
(* A call that takes effect and loses its answer is a failure of the next. *)
(***************************************************************************)
EXTENDS Naturals, Sequences

CONSTANTS
  Artifacts,    \* names in the job's artifact manifest
  Report,       \* the name "report.md"
  Collections,  \* Knowledge collections that exist, or may be created
  Existing,     \* those that exist, are writable and not external
  NoTarget,     \* what a closed or blank dialog answers
  MaxSaves,     \* bound: how often the button is pressed
  MaxFaults     \* bound: calls that fail or lose their answer

VARIABLES
  job,        \* state of the research job
  attached,   \* ids of the files on the message
  files,      \* files uploaded to Open WebUI, in order
  faults,     \* history: faults so far
  save,       \* where the present call of action() stands
  knowledge,  \* the files of each collection _writable_knowledge lists
  stored,     \* retention has left the report of the job in its store
  presses     \* history: how often the button was pressed

svars == <<job, attached, files, faults, save, knowledge, stored, presses>>

NoFile == 0

Steps == {"off", "choose", "report", "preview", "create", "add"}

SaveInit ==
  /\ save = [step |-> "off", known |-> {}, target |-> NoTarget, file |-> NoFile]
  /\ knowledge = [k \in Existing |-> {}]
  /\ stored = TRUE
  /\ presses = 0

Environment == <<job, attached>>

SaveFault == faults < MaxFaults /\ faults' = faults + 1

\* Every end of the action, with a result or with a notification of an error.
Over == save' = [save EXCEPT !.step = "off"]

\* The message names its job, in whatever state, or _resolve_job_id answers one
\* that succeeded.
Resolved(named) == named \/ job = "succeeded"

\* _writable_knowledge
Offered == DOMAIN knowledge

\* The files of the message and the collections are listed.
Press(named) ==
  /\ save.step = "off" /\ presses < MaxSaves
  /\ named => job # "none"
  /\ presses' = presses + 1
  /\ IF Resolved(named)
     THEN save' = [step |-> "choose", known |-> attached, target |-> NoTarget, file |-> NoFile]
     ELSE UNCHANGED save
  /\ UNCHANGED <<Environment, files, faults, knowledge, stored>>

\* _attached_report_id
AttachedReports == {f \in save.known : files[f].name = Report}

\* Mutant: the files of the message are not looked at.
ReuseNever(target) ==
  /\ save' = [save EXCEPT !.target = target, !.step = "report"]

\* A report of the message goes on to its collection, otherwise one is fetched.
Reuse(target) ==
  \/ /\ AttachedReports = {}
     /\ save' = [save EXCEPT !.target = target, !.step = "report"]
  \/ \E f \in AttachedReports :
       save' = [save EXCEPT !.target = target, !.file = f,
                  !.step = IF target \in Offered THEN "add" ELSE "create"]

\* The dialogs answer: an offered collection, or the name of a new one.
Choose ==
  /\ save.step = "choose"
  /\ \E target \in Collections : Reuse(target)
  /\ UNCHANGED <<Environment, files, faults, knowledge, stored, presses>>

\* Closed, blank, or not one of the offered collections.
Refuse ==
  /\ save.step = "choose"
  /\ Over
  /\ UNCHANGED <<Environment, files, faults, knowledge, stored, presses>>

Available == stored /\ job = "succeeded"

\* _fetch_artifact, then the upload.
FetchAndUpload ==
  /\ save.step = "report" /\ Available
  /\ files' = Append(files, [name |-> Report, whole |-> FALSE])
  /\ save' = [save EXCEPT !.step = "preview", !.file = Len(files) + 1]
  /\ UNCHANGED <<Environment, faults, knowledge, stored, presses>>

\* 404: no artifact yet, or none any more.
NoReport ==
  /\ save.step = "report" /\ ~Available
  /\ Over
  /\ UNCHANGED <<Environment, files, faults, knowledge, stored, presses>>

Expire ==
  /\ stored /\ job = "succeeded"
  /\ stored' = FALSE
  /\ UNCHANGED <<Environment, files, faults, save, knowledge, presses>>

\* _set_preview_content
SetPreview ==
  /\ save.step = "preview"
  /\ files' = [files EXCEPT ![save.file].whole = TRUE]
  /\ save' = [save EXCEPT !.step =
                IF save.target \in Offered THEN "add" ELSE "create"]
  /\ UNCHANGED <<Environment, faults, knowledge, stored, presses>>

CreateCollection ==
  /\ save.step = "create"
  /\ knowledge' = [k \in DOMAIN knowledge \union {save.target} |->
                     IF k = save.target THEN {} ELSE knowledge[k]]
  /\ save' = [save EXCEPT !.step = "add"]
  /\ UNCHANGED <<Environment, files, faults, stored, presses>>

AddFile ==
  /\ save.step = "add"
  /\ knowledge' = [knowledge EXCEPT ![save.target] = @ \union {save.file}]
  /\ Over
  /\ UNCHANGED <<Environment, files, faults, stored, presses>>

\* A call fails without effect: the action ends with an error.
SaveFails ==
  /\ save.step \in {"report", "preview", "create", "add"}
  /\ SaveFault
  /\ Over
  /\ UNCHANGED <<Environment, files, knowledge, stored, presses>>

------------------------------------------------------------------------------

SaveNext ==
  \/ \E named \in BOOLEAN : Press(named)
  \/ Choose \/ Refuse \/ FetchAndUpload \/ NoReport \/ SetPreview
  \/ CreateCollection \/ AddFile \/ SaveFails \/ Expire

------------------------------------------------------------------------------
(* Properties. *)

\* Type invariant of the action and of the collections.
SaveTypeOK ==
  /\ save \in [step : Steps, known : SUBSET DOMAIN files,
               target : Collections \union {NoTarget},
               file : DOMAIN files \union {NoFile}]
  /\ DOMAIN knowledge \subseteq Collections
  /\ \A k \in DOMAIN knowledge : knowledge[k] \subseteq DOMAIN files
  /\ stored \in BOOLEAN
  /\ presses \in 0 .. MaxSaves

\* Whatever a collection receives is the report with its preview text: neither
\* another artifact nor a file whose upload stopped half way.
SavedReportIsWhole ==
  \A k \in DOMAIN knowledge :
    \A f \in knowledge[k] : files[f] = [name |-> Report, whole |-> TRUE]

\* A report the pipe attached is never uploaded again: however often the user
\* saves it, a collection holds it once.
OneCopyOfAttached ==
  attached # {} => \A k \in DOMAIN knowledge : \A f, g \in knowledge[k] : f = g

\* A collection is created only for a report that is there: without a failed
\* call no empty collection is left behind, even after retention.
NoEmptyCollection ==
  save.step = "off" /\ faults = 0 =>
    \A k \in DOMAIN knowledge \ Existing : knowledge[k] # {}
===============================================================================
