----------------------------- MODULE FunctionSync -----------------------------
(***************************************************************************)
(* FunctionSync.run (function_sync.py): the two functions, their Valves    *)
(* and the model metadata in Open WebUI are brought up to date by separate *)
(* calls.  A run reads everything it decides on before it writes, may fail *)
(* at any call with or without effect, and is started again, possibly      *)
(* beside another run or an administrator at work.                         *)
(***************************************************************************)
EXTENDS Integers, Sequences

CONSTANTS
  Functions,  \* FUNCTION_SOURCES, in order
  Syncs,      \* synchronisations that may run at the same time
  MaxRuns,    \* bound: how often each is started
  MaxFaults,  \* bound: calls that fail or lose their answer
  MaxEdits    \* bound: changes an administrator makes

ASSUME SyncAssumption ==
  /\ Functions \in Seq(STRING) /\ Functions # <<>>
  /\ MaxRuns \in Nat /\ MaxFaults \in Nat /\ MaxEdits \in Nat

VARIABLES
  function,  \* the functions in Open WebUI
  model,     \* metadata of the model "deep_research"
  sync,      \* where each run stands and what it has read
  faults,    \* history: faults so far
  edits,     \* history: what an administrator set, and which of it was raced
  runs       \* history: how often each sync was started

vars == <<function, model, sync, faults, edits, runs>>

Ids == 1 .. Len(Functions)

\* The functions and, as 0, the model.
Objects == 0 .. Len(Functions)

\* current stands for content, name and description; managed for the Valves the
\* sync sets, other for a Valve it does not know.  The rest of a function's meta,
\* which create and update overwrite, is left out.
Function == [exists : BOOLEAN, current : BOOLEAN, active : BOOLEAN,
             managed : BOOLEAN, other : 0 .. MaxEdits]

\* action: the Knowledge action is among actionIds and the description is set;
\* active: is_active; other: metadata, parameters and access grants besides.
Model == [exists : BOOLEAN, action : BOOLEAN, active : BOOLEAN, other : 0 .. MaxEdits]

Steps == {"off", "export", "source", "readValves", "writeValves", "toggle",
          "readModel", "writeModel", "done", "failed"}

NoFunction == [exists |-> FALSE, current |-> FALSE, active |-> FALSE,
               managed |-> FALSE, other |-> 0]

NoModel == [exists |-> FALSE, action |-> FALSE, active |-> FALSE, other |-> 0]

\* known: the functions as exported; active: what the answer about function f
\* says; valves, meta: the object that will be written back.  alone: nobody else
\* wrote since the export; fresh: everything was up to date at that time.
Idle == [step |-> "off", f |-> 1, known |-> [i \in Ids |-> NoFunction], active |-> FALSE,
         valves |-> NoFunction, meta |-> NoModel, alone |-> FALSE, fresh |-> FALSE,
         writes |-> 0]

\* Any installation: each function missing, or there with whatever is old about it,
\* in use or not; the same for the model.
Init ==
  /\ function \in [Ids -> {NoFunction} \union {g \in Function : g.exists /\ g.other = 0}]
  /\ model \in {NoModel} \union {m \in Model : m.exists /\ m.other = 0}
  /\ sync = [s \in Syncs |-> Idle]
  /\ faults = 0
  /\ edits = [count |-> 0, set |-> [o \in Objects |-> 0], raced |-> {}]
  /\ runs = [s \in Syncs |-> 0]

Managed(i) == function[i].exists /\ function[i].current /\ function[i].managed

UpToDate ==
  /\ \A i \in Ids : Managed(i) /\ function[i].active
  /\ model.exists /\ model.action

At(s, step) == sync[s].step = step

\* Sync s goes on; a write of its own disturbs the others.
Go(s, record) == sync' = [sync EXCEPT ![s] = record]

GoWriting(s, record) ==
  sync' = [t \in Syncs |-> IF t = s THEN [record EXCEPT !.writes = @ + 1]
                           ELSE [sync[t] EXCEPT !.alone = FALSE]]

\* The end of a run: what it has read is gone.
Over(s, step) ==
  [Idle EXCEPT !.step = step, !.alone = sync[s].alone,
               !.fresh = sync[s].fresh, !.writes = sync[s].writes]

Fault == faults < MaxFaults /\ faults' = faults + 1

NoHistory == UNCHANGED <<faults, edits, runs>>

------------------------------------------------------------------------------
(* run(). *)

\* A new run of a sync that is not running.
Start(s) ==
  /\ sync[s].step \in {"off", "done", "failed"} /\ runs[s] < MaxRuns
  /\ runs' = [runs EXCEPT ![s] = @ + 1]
  /\ Go(s, [Idle EXCEPT !.step = "export"])
  /\ UNCHANGED <<function, model, faults, edits>>

Export(s) ==
  /\ At(s, "export")
  /\ Go(s, [sync[s] EXCEPT !.step = "source", !.known = function,
              !.alone = TRUE, !.fresh = UpToDate])
  /\ UNCHANGED <<function, model>> /\ NoHistory

\* Mutant: the Valves of a function that was kept are not looked at.
KeepSourceAndValves(s) ==
  LET f == sync[s].f IN
  /\ At(s, "source")
  /\ sync[s].known[f].exists /\ sync[s].known[f].current
  /\ Go(s, [sync[s] EXCEPT !.step = "toggle", !.active = sync[s].known[f].active])
  /\ UNCHANGED <<function, model>> /\ NoHistory

\* Keep: the answer about the function is the exported one.
KeepSource(s) ==
  LET f == sync[s].f IN
  /\ At(s, "source")
  /\ sync[s].known[f].exists /\ sync[s].known[f].current
  /\ Go(s, [sync[s] EXCEPT !.step = "readValves", !.active = sync[s].known[f].active])
  /\ UNCHANGED <<function, model>> /\ NoHistory

\* create, of a function the export did not have; inactive at first.
CreateSource(s) ==
  LET f == sync[s].f IN
  /\ At(s, "source") /\ ~sync[s].known[f].exists /\ ~function[f].exists
  /\ function' = [function EXCEPT ![f].exists = TRUE, ![f].current = TRUE]
  /\ GoWriting(s, [sync[s] EXCEPT !.step = "readValves", !.active = FALSE])
  /\ UNCHANGED model /\ NoHistory

\* update, of one with another content, name or description.
UpdateSource(s) ==
  LET f == sync[s].f IN
  /\ At(s, "source") /\ sync[s].known[f].exists /\ ~sync[s].known[f].current
  /\ function' = [function EXCEPT ![f].current = TRUE]
  /\ GoWriting(s, [sync[s] EXCEPT !.step = "readValves", !.active = function[f].active])
  /\ UNCHANGED model /\ NoHistory

\* create is refused: another run was faster.
CreateRefused(s) ==
  /\ At(s, "source") /\ ~sync[s].known[sync[s].f].exists /\ function[sync[s].f].exists
  /\ Go(s, Over(s, "failed"))
  /\ UNCHANGED <<function, model>> /\ NoHistory

\* Mutant: the Valves are not read, and written from the settings alone.
ReadValvesNot(s) ==
  /\ At(s, "readValves")
  /\ Go(s, [sync[s] EXCEPT !.step = "writeValves", !.valves = NoFunction])
  /\ UNCHANGED <<function, model>> /\ NoHistory

ReadValves(s) ==
  /\ At(s, "readValves")
  /\ Go(s, [sync[s] EXCEPT !.step = "writeValves", !.valves = function[sync[s].f]])
  /\ UNCHANGED <<function, model>> /\ NoHistory

Written(s) == [sync[s] EXCEPT !.step = "toggle", !.valves = NoFunction]

Differs(valves) == ~valves.managed

\* {**current_valves, **valves}, written only if it differs.
WriteValves(s) ==
  LET f == sync[s].f
      valves == sync[s].valves
  IN
  /\ At(s, "writeValves")
  /\ IF Differs(valves)
     THEN /\ function' = [function EXCEPT ![f].managed = TRUE, ![f].other = valves.other]
          /\ GoWriting(s, Written(s))
     ELSE Go(s, Written(s)) /\ UNCHANGED function
  /\ UNCHANGED model /\ NoHistory

\* The next function, or the model after the last one.
Following(s) ==
  IF sync[s].f = Len(Functions)
  THEN [sync[s] EXCEPT !.step = "readModel"]
  ELSE [sync[s] EXCEPT !.step = "source", !.f = @ + 1]

\* Mutant: whatever was updated is toggled.
InactiveAfterUpdate(s) == ~sync[s].active \/ ~sync[s].known[sync[s].f].current

\* is_active of the create or update answer, or of the export.
Inactive(s) == ~sync[s].active

\* toggle flips whatever the function is by now.
Toggle(s) ==
  LET f == sync[s].f IN
  /\ At(s, "toggle")
  /\ IF Inactive(s)
     THEN /\ function' = [function EXCEPT ![f].active = ~@]
          /\ GoWriting(s, Following(s))
     ELSE Go(s, Following(s)) /\ UNCHANGED function
  /\ UNCHANGED model /\ NoHistory

\* _sync_deep_research_model: 404 or the metadata.
ReadModel(s) ==
  /\ At(s, "readModel")
  /\ Go(s, [sync[s] EXCEPT !.step = "writeModel", !.meta = model])
  /\ UNCHANGED <<function, model>> /\ NoHistory

KeepsModel(s) == sync[s].meta.exists /\ sync[s].meta.action

\* The metadata was as it should be, whether the model is active or not.
KeepModel(s) ==
  /\ At(s, "writeModel") /\ KeepsModel(s)
  /\ Go(s, Over(s, "done"))
  /\ UNCHANGED <<function, model>> /\ NoHistory

\* Create or update, after which the run is done, or has failed if the answer is
\* lost.  What else was read is written back, save is_active.
WriteModel(s) ==
  LET meta == sync[s].meta IN
  /\ At(s, "writeModel") /\ ~KeepsModel(s)
  /\ meta.exists \/ ~model.exists
  /\ model' = [exists |-> TRUE, action |-> TRUE, active |-> TRUE, other |-> meta.other]
  /\ \/ GoWriting(s, Over(s, "done")) /\ UNCHANGED faults
     \/ GoWriting(s, Over(s, "failed")) /\ Fault
  /\ UNCHANGED <<function, edits, runs>>

CreateModelRefused(s) ==
  /\ At(s, "writeModel") /\ ~sync[s].meta.exists /\ model.exists
  /\ Go(s, Over(s, "failed"))
  /\ UNCHANGED <<function, model>> /\ NoHistory

\* A call fails or the process dies, and the run is over.  A call that had its
\* effect and lost the answer is that call followed by this; the last one, after
\* which there is no step left, says so itself.
Fail(s) ==
  /\ sync[s].step \notin {"off", "done", "failed"}
  /\ Fault
  /\ Go(s, Over(s, "failed"))
  /\ UNCHANGED <<function, model, edits, runs>>

------------------------------------------------------------------------------
(* An administrator changes a Valve or metadata the sync does not manage. *)

\* A run has read object o and not yet written it back.
ReadNotWritten(o) ==
  \E s \in Syncs :
    \/ At(s, "writeValves") /\ sync[s].f = o
    \/ At(s, "writeModel") /\ o = 0

Edit(o) ==
  /\ edits.count < MaxEdits
  /\ edits' = [count |-> edits.count + 1,
               set   |-> [edits.set EXCEPT ![o] = edits.count + 1],
               raced |-> IF ReadNotWritten(o) THEN edits.raced \cup {o}
                                              ELSE edits.raced \ {o}]
  /\ UNCHANGED <<sync, faults, runs>>

EditFunction(o) ==
  /\ o # 0 /\ function[o].exists
  /\ function' = [function EXCEPT ![o].other = edits.count + 1]
  /\ Edit(o)
  /\ UNCHANGED model

EditModel ==
  /\ model.exists
  /\ model' = [model EXCEPT !.other = edits.count + 1]
  /\ Edit(0)
  /\ UNCHANGED function

------------------------------------------------------------------------------
Run(s) ==
  \/ Start(s) \/ Export(s)
  \/ KeepSource(s) \/ CreateSource(s) \/ UpdateSource(s) \/ CreateRefused(s)
  \/ ReadValves(s) \/ WriteValves(s) \/ Toggle(s)
  \/ ReadModel(s) \/ KeepModel(s) \/ WriteModel(s) \/ CreateModelRefused(s)
  \/ Fail(s)

Next ==
  \/ \E s \in Syncs : Run(s)
  \/ \E o \in Objects : EditFunction(o)
  \/ EditModel

Spec == Init /\ [][Next]_vars

------------------------------------------------------------------------------
Sync == [step : Steps, f : Ids, known : [Ids -> Function], active : BOOLEAN,
         valves : Function, meta : Model, alone : BOOLEAN, fresh : BOOLEAN,
         writes : Nat]

\* Every variable keeps its type, and the loop over FUNCTION_SOURCES stays in
\* range.
TypeOK ==
  /\ function \in [Ids -> Function]
  /\ model \in Model
  /\ sync \in [Syncs -> Sync]
  /\ faults \in 0 .. MaxFaults
  /\ edits \in [count : 0 .. MaxEdits, set : [Objects -> 0 .. MaxEdits], raced : SUBSET Objects]
  /\ runs \in [Syncs -> 0 .. MaxRuns]

\* Whatever crashed, partial or overlapping runs left behind, one run that
\* nobody disturbs brings everything up to date, both functions active; over what
\* is up to date already it writes nothing, above all it toggles nothing off.
ConvergesAlone ==
  \A s \in Syncs : At(s, "done") /\ sync[s].alone =>
    UpToDate /\ (sync[s].fresh => sync[s].writes = 0)

\* Once any run has finished, even beside others, contents, Valves and model are
\* up to date.  Only is_active is not promised: two runs that both saw an
\* inactive function toggle it twice.
DoneMeansCurrent ==
  (\E s \in Syncs : At(s, "done")) => (\A i \in Ids : Managed(i)) /\ model.exists /\ model.action

\* What an administrator set beside the managed keys survives every run, unless
\* it was set between a run's read and its write of the same object.
UnrelatedKept ==
  /\ \A i \in Ids \ edits.raced : function[i].other = edits.set[i]
  /\ 0 \notin edits.raced => model.other = edits.set[0]

==============================================================================
