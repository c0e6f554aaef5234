-------------------------- MODULE FunctionSyncProofs --------------------------
(***************************************************************************)
(* Proofs about the function sync, for any number of functions, of runs    *)
(* side by side, of faults and of edits.  Nothing a run has brought up to  *)
(* date is ever undone, so that what it has read remains a lower bound of  *)
(* what there is (Progress); and what a run is about to write back is what *)
(* the administrator set last, unless the edit was raced (Carries).        *)
(***************************************************************************)
EXTENDS FunctionSync, TLAPS

\* How far run s has come with what it has read.
Progress(s) ==
  LET r == sync[s] IN
  /\ r.step = "export" => r.f = 1
  /\ r.step \in {"source", "readValves", "writeValves", "toggle"} =>
       /\ \A i \in Ids : /\ r.known[i].exists => function[i].exists
                         /\ r.known[i].current => function[i].current
       /\ \A i \in Ids : i < r.f => Managed(i)
  /\ r.step \in {"readValves", "writeValves", "toggle"} =>
       function[r.f].exists /\ function[r.f].current
  /\ r.step = "writeValves" /\ r.valves.managed => function[r.f].managed
  /\ r.step = "toggle" => function[r.f].managed
  /\ r.step \in {"readModel", "writeModel", "done"} => \A i \in Ids : Managed(i)
  /\ r.step = "writeModel" =>
       (r.meta.exists => model.exists) /\ (r.meta.action => model.action)
  /\ r.step = "done" => model.exists /\ model.action

\* What run s will write back beside what it manages.
Carries(s) ==
  LET r == sync[s] IN
  /\ r.step = "writeValves" /\ r.f \notin edits.raced => r.valves.other = edits.set[r.f]
  /\ r.step = "writeModel" /\ 0 \notin edits.raced => r.meta.other = edits.set[0]

IInv ==
  /\ TypeOK
  /\ \A s \in Syncs : Progress(s)
  /\ \A s \in Syncs : Carries(s)
  /\ UnrelatedKept

\* No step takes back what the sync has reached.
Grows ==
  /\ \A i \in Ids : /\ function[i].exists => function'[i].exists
                    /\ function[i].current => function'[i].current
                    /\ function[i].managed => function'[i].managed
  /\ model.exists => model'.exists
  /\ model.action => model'.action

------------------------------------------------------------------------------
(* Steps of one run, seen by the others. *)

LEMMA Range1 ==
  /\ Len(Functions) \in Nat /\ Len(Functions) >= 1
  /\ Ids = 1 .. Len(Functions) /\ Objects = 0 .. Len(Functions)
  /\ 1 \in Ids /\ Ids \subseteq Int /\ Ids \subseteq Objects
BY SyncAssumption DEF Ids, Objects


\* The other runs lose nothing by a step of s.
LEMMA OthersProgress ==
  ASSUME IInv, Grows, NEW s \in Syncs, Progress(s)',
         \A t \in Syncs \ {s} : \/ sync'[t] = sync[t]
                                \/ sync'[t] = [sync[t] EXCEPT !.alone = FALSE]
  PROVE  \A t \in Syncs : Progress(t)'
<1> SUFFICES ASSUME NEW t \in Syncs \ {s} PROVE Progress(t)'
  OBVIOUS
<1>1. sync[t] \in Sync /\ Progress(t)
  BY DEF IInv, TypeOK
<1>2. /\ sync'[t].step = sync[t].step /\ sync'[t].f = sync[t].f
      /\ sync'[t].known = sync[t].known /\ sync'[t].valves = sync[t].valves
      /\ sync'[t].meta = sync[t].meta
  BY <1>1 DEF Sync
<1>3. \A i \in Ids : Managed(i) => Managed(i)'
  BY DEF Grows, Managed
<1>4. sync[t].f \in Ids
  BY <1>1 DEF Sync
<1> QED
  BY <1>1, <1>2, <1>3, <1>4 DEF Grows, Progress

LEMMA OthersCarry ==
  ASSUME IInv, UNCHANGED edits, NEW s \in Syncs, Carries(s)',
         \A t \in Syncs \ {s} : \/ sync'[t] = sync[t]
                                \/ sync'[t] = [sync[t] EXCEPT !.alone = FALSE]
  PROVE  \A t \in Syncs : Carries(t)'
<1> SUFFICES ASSUME NEW t \in Syncs \ {s} PROVE Carries(t)'
  OBVIOUS
<1>1. sync[t] \in Sync /\ Carries(t)
  BY DEF IInv, TypeOK
<1>2. /\ sync'[t].step = sync[t].step /\ sync'[t].f = sync[t].f
      /\ sync'[t].valves = sync[t].valves /\ sync'[t].meta = sync[t].meta
  BY <1>1 DEF Sync
<1> QED
  BY <1>1, <1>2 DEF Carries

\* What Go and GoWriting do to the records.
LEMMA Advance ==
  ASSUME TypeOK, NEW s \in Syncs, NEW r \in Sync, Go(s, r) \/ GoWriting(s, r)
  PROVE  /\ sync' \in [Syncs -> Sync]
         /\ sync'[s].step = r.step /\ sync'[s].f = r.f /\ sync'[s].known = r.known
         /\ sync'[s].active = r.active /\ sync'[s].valves = r.valves
         /\ sync'[s].meta = r.meta
         /\ \A t \in Syncs \ {s} : \/ sync'[t] = sync[t]
                                   \/ sync'[t] = [sync[t] EXCEPT !.alone = FALSE]
<1>1. sync \in [Syncs -> Sync]
  BY DEF TypeOK
<1>2. CASE Go(s, r)
  BY <1>1, <1>2 DEF Go, Sync
<1>3. CASE GoWriting(s, r)
  <2>1. [r EXCEPT !.writes = @ + 1] \in Sync
    BY DEF Sync
  <2>2. \A t \in Syncs : [sync[t] EXCEPT !.alone = FALSE] \in Sync
    BY <1>1 DEF Sync
  <2>3. sync' = [t \in Syncs |-> IF t = s THEN [r EXCEPT !.writes = @ + 1]
                                 ELSE [sync[t] EXCEPT !.alone = FALSE]]
    BY <1>3 DEF GoWriting
  <2>4. sync' \in [Syncs -> Sync]
    BY <2>1, <2>2, <2>3
  <2>5. sync'[s] = [r EXCEPT !.writes = @ + 1]
    BY <2>3
  <2>6. \A t \in Syncs \ {s} : sync'[t] = [sync[t] EXCEPT !.alone = FALSE]
    BY <2>3
  <2> QED
    BY <2>4, <2>5, <2>6 DEF Sync
<1> QED
  BY <1>2, <1>3

\* A step of a run preserves the invariant when it does for the run itself.
LEMMA RunStep ==
  ASSUME IInv, NEW s \in Syncs, NEW r \in Sync, Go(s, r) \/ GoWriting(s, r),
         function' \in [Ids -> Function], model' \in Model, Grows,
         faults' \in 0 .. MaxFaults, runs' \in [Syncs -> 0 .. MaxRuns],
         UNCHANGED edits, Progress(s)', Carries(s)', UnrelatedKept'
  PROVE  IInv'
<1>1. TypeOK
  BY DEF IInv
<1>2. /\ sync' \in [Syncs -> Sync]
      /\ \A t \in Syncs \ {s} : \/ sync'[t] = sync[t]
                                \/ sync'[t] = [sync[t] EXCEPT !.alone = FALSE]
  BY <1>1, Advance
<1>3. TypeOK'
  BY <1>1, <1>2 DEF TypeOK
<1>4. \A t \in Syncs : Progress(t)'
  BY <1>2, OthersProgress
<1>5. \A t \in Syncs : Carries(t)'
  BY <1>2, OthersCarry
<1> QED
  BY <1>3, <1>4, <1>5 DEF IInv

\* One that writes nothing.
LEMMA QuietStep ==
  ASSUME IInv, NEW s \in Syncs, NEW r \in Sync, Go(s, r),
         UNCHANGED <<function, model, edits>>,
         faults' \in 0 .. MaxFaults, runs' \in [Syncs -> 0 .. MaxRuns],
         Progress(s)', Carries(s)'
  PROVE  IInv'
<1>1. function' \in [Ids -> Function] /\ model' \in Model
  BY DEF IInv, TypeOK
<1>2. Grows
  BY DEF Grows
<1>3. UnrelatedKept'
  BY DEF IInv, UnrelatedKept
<1> QED
  BY <1>1, <1>2, <1>3, RunStep

\* The record of a run that is over.
LEMMA OverRecord ==
  ASSUME TypeOK, NEW s \in Syncs, NEW step \in {"done", "failed"}
  PROVE  /\ Over(s, step) \in Sync /\ Over(s, step).step = step
         /\ Idle \in Sync /\ Idle.step = "off"
<1>1. NoFunction \in Function /\ NoModel \in Model
  <2>1. 0 \in 0 .. MaxEdits
    BY SyncAssumption
  <2> QED
    BY <2>1 DEF NoFunction, Function, NoModel, Model
<1>2. Idle \in Sync
  BY <1>1, Range1 DEF Idle, Sync, Steps
<1>3. sync[s] \in Sync
  BY DEF TypeOK
<1>4. /\ sync[s].alone \in BOOLEAN /\ sync[s].fresh \in BOOLEAN /\ sync[s].writes \in Nat
      /\ step \in Steps
  BY <1>3 DEF Sync, Steps
<1>5. Over(s, step) \in Sync
  BY <1>2, <1>4 DEF Over, Sync
<1> QED
  BY <1>2, <1>5 DEF Over, Idle

------------------------------------------------------------------------------
(* run(). *)

LEMMA InitIInv == Init => IInv
<1> SUFFICES ASSUME Init PROVE IInv
  OBVIOUS
<1>1. 0 \in 0 .. MaxEdits /\ 0 \in 0 .. MaxFaults /\ 0 \in 0 .. MaxRuns
  BY SyncAssumption
<1>0. /\ NoFunction \in Function /\ NoFunction.other = 0
      /\ NoModel \in Model /\ NoModel.other = 0
  BY <1>1 DEF NoFunction, Function, NoModel, Model
<1>2. /\ \A i \in Ids : function[i] \in Function /\ function[i].other = 0
      /\ function \in [Ids -> Function]
  BY <1>0 DEF Init
<1>3. model \in Model /\ model.other = 0
  BY <1>0 DEF Init
<1>4. Idle \in Sync
  BY <1>1, Range1 DEF Idle, Sync, Steps, NoFunction, Function, NoModel, Model
<1>5. TypeOK
  BY <1>1, <1>2, <1>3, <1>4 DEF Init, TypeOK
<1>6. \A s \in Syncs : sync[s].step = "off"
  BY DEF Init, Idle
<1>7. \A s \in Syncs : Progress(s) /\ Carries(s)
  BY <1>6 DEF Progress, Carries
<1>8. UnrelatedKept
  BY <1>2, <1>3, Range1 DEF Init, UnrelatedKept
<1> QED
  BY <1>5, <1>7, <1>8 DEF IInv

LEMMA StartIInv == ASSUME IInv, NEW s \in Syncs, Start(s) PROVE IInv'
<1> DEFINE r == [Idle EXCEPT !.step = "export"]
<1>1. TypeOK
  BY DEF IInv
<1>2. r \in Sync /\ r.step = "export" /\ r.f = 1
  <2>1. Idle \in Sync /\ Idle.f = 1
    BY <1>1, OverRecord DEF Idle
  <2> QED
    BY <2>1 DEF Sync, Steps
<1>3. Go(s, r) /\ UNCHANGED <<function, model, edits, faults>>
  BY DEF Start
<1> HIDE DEF r
<1>4. sync'[s].step = "export" /\ sync'[s].f = 1
  BY <1>1, <1>2, <1>3, Advance
<1>5. Progress(s)' /\ Carries(s)'
  BY <1>4 DEF Progress, Carries
<1>6. faults' \in 0 .. MaxFaults
  BY <1>1, <1>3 DEF TypeOK
<1>7. runs' \in [Syncs -> 0 .. MaxRuns]
  <2>1. runs \in [Syncs -> 0 .. MaxRuns] /\ runs[s] < MaxRuns
    BY <1>1 DEF TypeOK, Start
  <2>2. runs[s] + 1 \in 0 .. MaxRuns
    BY <2>1, SyncAssumption
  <2> QED
    BY <2>1, <2>2 DEF Start
<1> QED
  BY <1>2, <1>3, <1>5, <1>6, <1>7, QuietStep

LEMMA ExportIInv == ASSUME IInv, NEW s \in Syncs, Export(s) PROVE IInv'
<1> DEFINE r == [sync[s] EXCEPT !.step = "source", !.known = function,
                                !.alone = TRUE, !.fresh = UpToDate]
<1>1. TypeOK
  BY DEF IInv
<1>2. sync[s] \in Sync /\ function \in [Ids -> Function]
  BY <1>1 DEF TypeOK
<1>3. UpToDate \in BOOLEAN
  BY <1>2 DEF UpToDate
<1>4. r \in Sync /\ r.step = "source" /\ r.known = function /\ r.f = sync[s].f
  BY <1>2, <1>3 DEF Sync, Steps
<1>5. Go(s, r) /\ UNCHANGED <<function, model, edits, faults, runs>>
  BY DEF Export, NoHistory
<1> HIDE DEF r
<1>6. /\ sync'[s].step = "source" /\ sync'[s].known = function
      /\ sync'[s].f = sync[s].f
  BY <1>1, <1>4, <1>5, Advance
<1>7. sync[s].f = 1
  BY DEF IInv, Progress, Export, At
<1>8. \A i \in Ids : ~(i < 1)
  BY Range1
<1>9. Progress(s)' /\ Carries(s)'
  BY <1>5, <1>6, <1>7, <1>8 DEF Progress, Carries
<1>10. faults' \in 0 .. MaxFaults /\ runs' \in [Syncs -> 0 .. MaxRuns]
  BY <1>1, <1>5 DEF TypeOK
<1> QED
  BY <1>4, <1>5, <1>9, <1>10, QuietStep

LEMMA KeepSourceIInv == ASSUME IInv, NEW s \in Syncs, KeepSource(s) PROVE IInv'
<1> DEFINE r == [sync[s] EXCEPT !.step = "readValves",
                                !.active = sync[s].known[sync[s].f].active]
<1>1. TypeOK /\ Progress(s)
  BY DEF IInv
<1>2. sync[s] \in Sync
  BY <1>1 DEF TypeOK
<1>3. sync[s].known[sync[s].f].active \in BOOLEAN /\ sync[s].f \in Ids
  BY <1>2 DEF Sync, Function
<1>4. /\ r \in Sync /\ r.step = "readValves" /\ r.known = sync[s].known
      /\ r.f = sync[s].f
  BY <1>2, <1>3 DEF Sync, Steps
<1>5. /\ Go(s, r) /\ UNCHANGED <<function, model, edits, faults, runs>>
      /\ sync[s].step = "source"
      /\ sync[s].known[sync[s].f].exists /\ sync[s].known[sync[s].f].current
  BY DEF KeepSource, NoHistory, At
<1> HIDE DEF r
<1>6. /\ sync'[s].step = "readValves" /\ sync'[s].known = sync[s].known
      /\ sync'[s].f = sync[s].f
  BY <1>1, <1>4, <1>5, Advance
<1>7. Progress(s)' /\ Carries(s)'
  BY <1>1, <1>3, <1>5, <1>6 DEF Progress, Carries, Managed
<1>8. faults' \in 0 .. MaxFaults /\ runs' \in [Syncs -> 0 .. MaxRuns]
  BY <1>1, <1>5 DEF TypeOK
<1> QED
  BY <1>4, <1>5, <1>7, <1>8, QuietStep

LEMMA ReadValvesIInv == ASSUME IInv, NEW s \in Syncs, ReadValves(s) PROVE IInv'
<1> DEFINE r == [sync[s] EXCEPT !.step = "writeValves", !.valves = function[sync[s].f]]
<1>1. TypeOK /\ Progress(s) /\ UnrelatedKept
  BY DEF IInv
<1>2. sync[s] \in Sync
  BY <1>1 DEF TypeOK
<1>3. sync[s].f \in Ids /\ function[sync[s].f] \in Function
  BY <1>1, <1>2 DEF Sync, TypeOK
<1>4. /\ r \in Sync /\ r.step = "writeValves" /\ r.known = sync[s].known
      /\ r.f = sync[s].f /\ r.valves = function[sync[s].f]
  BY <1>2, <1>3 DEF Sync, Steps
<1>5. /\ Go(s, r) /\ UNCHANGED <<function, model, edits, faults, runs>>
      /\ sync[s].step = "readValves"
  BY DEF ReadValves, NoHistory, At
<1> HIDE DEF r
<1>6. /\ sync'[s].step = "writeValves" /\ sync'[s].known = sync[s].known
      /\ sync'[s].f = sync[s].f /\ sync'[s].valves = function[sync[s].f]
  BY <1>1, <1>4, <1>5, Advance
<1>7. Progress(s)'
  BY <1>1, <1>3, <1>5, <1>6 DEF Progress, Managed
<1>8. Carries(s)'
  BY <1>1, <1>3, <1>5, <1>6 DEF Carries, UnrelatedKept
<1>9. faults' \in 0 .. MaxFaults /\ runs' \in [Syncs -> 0 .. MaxRuns]
  BY <1>1, <1>5 DEF TypeOK
<1> QED
  BY <1>4, <1>5, <1>7, <1>8, <1>9, QuietStep

LEMMA ReadModelIInv == ASSUME IInv, NEW s \in Syncs, ReadModel(s) PROVE IInv'
<1> DEFINE r == [sync[s] EXCEPT !.step = "writeModel", !.meta = model]
<1>1. TypeOK /\ Progress(s) /\ UnrelatedKept
  BY DEF IInv
<1>2. sync[s] \in Sync /\ model \in Model
  BY <1>1 DEF TypeOK
<1>3. r \in Sync /\ r.step = "writeModel" /\ r.meta = model
  BY <1>2 DEF Sync, Steps
<1>4. /\ Go(s, r) /\ UNCHANGED <<function, model, edits, faults, runs>>
      /\ sync[s].step = "readModel"
  BY DEF ReadModel, NoHistory, At
<1> HIDE DEF r
<1>5. sync'[s].step = "writeModel" /\ sync'[s].meta = model
  BY <1>1, <1>3, <1>4, Advance
<1>6. Progress(s)' /\ Carries(s)'
  BY <1>1, <1>4, <1>5 DEF Progress, Carries, Managed, UnrelatedKept
<1>7. faults' \in 0 .. MaxFaults /\ runs' \in [Syncs -> 0 .. MaxRuns]
  BY <1>1, <1>4 DEF TypeOK
<1> QED
  BY <1>3, <1>4, <1>6, <1>7, QuietStep

\* A run that ends without a write, in whatever way.
LEMMA FailedStep ==
  ASSUME IInv, NEW s \in Syncs, Go(s, Over(s, "failed")),
         UNCHANGED <<function, model, edits, runs>>, faults' \in 0 .. MaxFaults
  PROVE  IInv'
<1>1. TypeOK
  BY DEF IInv
<1>2. Over(s, "failed") \in Sync /\ Over(s, "failed").step = "failed"
  BY <1>1, OverRecord
<1>3. sync'[s].step = "failed"
  BY <1>1, <1>2, Advance
<1>4. Progress(s)' /\ Carries(s)'
  BY <1>3 DEF Progress, Carries
<1>5. runs' \in [Syncs -> 0 .. MaxRuns]
  BY <1>1 DEF TypeOK
<1> QED
  BY <1>2, <1>4, <1>5, QuietStep

LEMMA FailuresIInv ==
  ASSUME IInv, NEW s \in Syncs, CreateRefused(s) \/ CreateModelRefused(s) \/ Fail(s)
  PROVE  IInv'
<1>1. faults \in 0 .. MaxFaults
  BY DEF IInv, TypeOK
<1>2. faults' \in 0 .. MaxFaults
  BY <1>1, SyncAssumption DEF CreateRefused, CreateModelRefused, Fail, NoHistory, Fault
<1>3. Go(s, Over(s, "failed")) /\ UNCHANGED <<function, model, edits, runs>>
  BY DEF CreateRefused, CreateModelRefused, Fail, NoHistory
<1> QED
  BY <1>2, <1>3, FailedStep

\* A write to one function that takes nothing back.
LEMMA WriteFunction ==
  ASSUME TypeOK, NEW f \in Ids, NEW g \in Function, g.other = function[f].other \/ f \in edits.raced,
         function' = [function EXCEPT ![f] = g], UNCHANGED <<model, edits>>,
         function[f].exists => g.exists, function[f].current => g.current,
         function[f].managed => g.managed, UnrelatedKept
  PROVE  /\ function' \in [Ids -> Function] /\ function'[f] = g
         /\ \A i \in Ids \ {f} : function'[i] = function[i]
         /\ model' \in Model /\ Grows /\ UnrelatedKept'
<1>1. function \in [Ids -> Function] /\ model \in Model
  BY DEF TypeOK
<1>2. /\ function' \in [Ids -> Function] /\ function'[f] = g
      /\ \A i \in Ids \ {f} : function'[i] = function[i]
  BY <1>1
<1>3. Grows
  BY <1>2 DEF Grows
<1>4. UnrelatedKept'
  BY <1>2 DEF UnrelatedKept
<1> QED
  BY <1>1, <1>2, <1>3, <1>4

LEMMA CreateSourceIInv == ASSUME IInv, NEW s \in Syncs, CreateSource(s) PROVE IInv'
<1> DEFINE r == [sync[s] EXCEPT !.step = "readValves", !.active = FALSE]
           f == sync[s].f
           g == [function[f] EXCEPT !.exists = TRUE, !.current = TRUE]
<1>1. TypeOK /\ Progress(s) /\ UnrelatedKept
  BY DEF IInv
<1>2. sync[s] \in Sync /\ function \in [Ids -> Function]
  BY <1>1 DEF TypeOK
<1>3. f \in Ids /\ function[f] \in Function
  BY <1>2 DEF Sync
<1>4. /\ g \in Function /\ g.exists /\ g.current /\ g.other = function[f].other
      /\ g.managed = function[f].managed /\ g.active = function[f].active
  BY <1>3 DEF Function
<1>5. /\ r \in Sync /\ r.step = "readValves" /\ r.known = sync[s].known /\ r.f = f
  BY <1>2 DEF Sync, Steps
<1>6. /\ GoWriting(s, r) /\ UNCHANGED <<model, edits, faults, runs>>
      /\ sync[s].step = "source" /\ function' = [function EXCEPT ![f] = g]
  BY <1>2, <1>3 DEF CreateSource, NoHistory, At
<1> HIDE DEF r, f, g
<1>7. /\ function' \in [Ids -> Function] /\ function'[f] = g
      /\ model' \in Model /\ Grows /\ UnrelatedKept'
  BY <1>1, <1>3, <1>4, <1>6, WriteFunction
<1>8. sync'[s].step = "readValves" /\ sync'[s].known = sync[s].known /\ sync'[s].f = f
  BY <1>1, <1>5, <1>6, Advance
<1>9. Progress(s)'
  <2>1. \A i \in Ids : Managed(i) => Managed(i)'
    BY <1>7 DEF Grows, Managed
  <2>2. f = sync[s].f
    BY DEF f
  <2> QED
    BY <1>1, <1>3, <1>4, <1>6, <1>7, <1>8, <2>1, <2>2 DEF Progress, Grows
<1>10. Carries(s)'
  BY <1>8 DEF Carries
<1>11. faults' \in 0 .. MaxFaults /\ runs' \in [Syncs -> 0 .. MaxRuns]
  BY <1>1, <1>6 DEF TypeOK
<1> QED
  BY <1>5, <1>6, <1>7, <1>9, <1>10, <1>11, RunStep

LEMMA UpdateSourceIInv == ASSUME IInv, NEW s \in Syncs, UpdateSource(s) PROVE IInv'
<1> DEFINE f == sync[s].f
           r == [sync[s] EXCEPT !.step = "readValves", !.active = function[f].active]
           g == [function[f] EXCEPT !.current = TRUE]
<1>1. TypeOK /\ Progress(s) /\ UnrelatedKept
  BY DEF IInv
<1>2. sync[s] \in Sync /\ function \in [Ids -> Function]
  BY <1>1 DEF TypeOK
<1>3. f \in Ids /\ function[f] \in Function /\ function[f].active \in BOOLEAN
  BY <1>2 DEF Sync, Function
<1>4. /\ g \in Function /\ g.exists = function[f].exists /\ g.current
      /\ g.other = function[f].other
      /\ g.managed = function[f].managed /\ g.active = function[f].active
  BY <1>3 DEF Function
<1>5. /\ r \in Sync /\ r.step = "readValves" /\ r.known = sync[s].known /\ r.f = f
  BY <1>2, <1>3 DEF Sync, Steps
<1>6. /\ GoWriting(s, r) /\ UNCHANGED <<model, edits, faults, runs>>
      /\ sync[s].step = "source" /\ function' = [function EXCEPT ![f] = g]
      /\ sync[s].known[f].exists
  BY <1>2, <1>3 DEF UpdateSource, NoHistory, At
<1> HIDE DEF r, f, g
<1>7. /\ function' \in [Ids -> Function] /\ function'[f] = g
      /\ model' \in Model /\ Grows /\ UnrelatedKept'
  BY <1>1, <1>3, <1>4, <1>6, WriteFunction
<1>8. sync'[s].step = "readValves" /\ sync'[s].known = sync[s].known /\ sync'[s].f = f
  BY <1>1, <1>5, <1>6, Advance
<1>9. Progress(s)'
  <2>1. \A i \in Ids : Managed(i) => Managed(i)'
    BY <1>7 DEF Grows, Managed
  <2>2. f = sync[s].f
    BY DEF f
  <2>3. function[f].exists
    BY <1>1, <1>3, <1>6, <2>2 DEF Progress
  <2> QED
    BY <1>1, <1>3, <1>4, <1>6, <1>7, <1>8, <2>1, <2>2, <2>3 DEF Progress, Grows
<1>10. Carries(s)'
  BY <1>8 DEF Carries
<1>11. faults' \in 0 .. MaxFaults /\ runs' \in [Syncs -> 0 .. MaxRuns]
  BY <1>1, <1>6 DEF TypeOK
<1> QED
  BY <1>5, <1>6, <1>7, <1>9, <1>10, <1>11, RunStep

LEMMA WriteValvesIInv == ASSUME IInv, NEW s \in Syncs, WriteValves(s) PROVE IInv'
<1> DEFINE f == sync[s].f
           r == Written(s)
           v == sync[s].valves
           g == [function[f] EXCEPT !.managed = TRUE, !.other = v.other]
<1>1. TypeOK /\ Progress(s) /\ Carries(s) /\ UnrelatedKept
  BY DEF IInv
<1>2. sync[s] \in Sync /\ function \in [Ids -> Function] /\ model \in Model
  BY <1>1 DEF TypeOK
<1>3. f \in Ids /\ function[f] \in Function /\ v \in Function
  BY <1>2 DEF Sync
<1>4. v.other \in 0 .. MaxEdits
  BY <1>3 DEF Function
<1>5. /\ g \in Function /\ g.exists = function[f].exists /\ g.current = function[f].current
      /\ g.managed /\ g.other = v.other
  BY <1>3, <1>4 DEF Function
<1>6. NoFunction \in Function
  BY <1>1, OverRecord DEF Idle, Sync
<1>7. /\ r \in Sync /\ r.step = "toggle" /\ r.known = sync[s].known /\ r.f = f
  BY <1>2, <1>6 DEF Sync, Steps, Written
<1>8. UNCHANGED <<model, edits, faults, runs>> /\ sync[s].step = "writeValves"
  BY DEF WriteValves, NoHistory, At
<1>9. \/ function' = function /\ v.managed /\ Go(s, r)
      \/ function' = [function EXCEPT ![f] = g] /\ GoWriting(s, r)
  BY <1>2, <1>3 DEF WriteValves, Differs
<1>10. f = sync[s].f /\ v = sync[s].valves
  OBVIOUS
<1> HIDE DEF r, f, g, v
<1>11. v.other = function[f].other \/ f \in edits.raced
  BY <1>1, <1>3, <1>8, <1>10 DEF Carries, UnrelatedKept
<1>12. /\ function' \in [Ids -> Function] /\ function'[f].managed
       /\ model' \in Model /\ Grows /\ UnrelatedKept'
  <2>1. CASE function' = function /\ v.managed
    BY <1>1, <1>2, <1>8, <1>10, <2>1 DEF Grows, UnrelatedKept, Progress
  <2>2. CASE function' = [function EXCEPT ![f] = g]
    BY <1>1, <1>3, <1>5, <1>8, <1>11, <2>2, WriteFunction
  <2> QED
    BY <1>9, <2>1, <2>2
<1>13. sync'[s].step = "toggle" /\ sync'[s].known = sync[s].known /\ sync'[s].f = f
  BY <1>1, <1>7, <1>9, Advance
<1>14. Progress(s)'
  <2>1. \A i \in Ids : Managed(i) => Managed(i)'
    BY <1>12 DEF Grows, Managed
  <2> QED
    BY <1>1, <1>3, <1>8, <1>10, <1>12, <1>13, <2>1 DEF Progress, Grows
<1>15. Carries(s)'
  BY <1>13 DEF Carries
<1>16. faults' \in 0 .. MaxFaults /\ runs' \in [Syncs -> 0 .. MaxRuns]
  BY <1>1, <1>8 DEF TypeOK
<1> QED
  BY <1>7, <1>8, <1>9, <1>12, <1>14, <1>15, <1>16, RunStep

LEMMA ToggleIInv == ASSUME IInv, NEW s \in Syncs, Toggle(s) PROVE IInv'
<1> DEFINE f == sync[s].f
           r == Following(s)
           g == [function[f] EXCEPT !.active = ~function[f].active]
<1>1. TypeOK /\ Progress(s) /\ UnrelatedKept
  BY DEF IInv
<1>2. sync[s] \in Sync /\ function \in [Ids -> Function] /\ model \in Model
  BY <1>1 DEF TypeOK
<1>3. f \in Ids /\ function[f] \in Function
  BY <1>2 DEF Sync
<1>4. /\ g \in Function /\ g.exists = function[f].exists /\ g.current = function[f].current
      /\ g.managed = function[f].managed /\ g.other = function[f].other
  BY <1>3 DEF Function
<1>5. CASE f = Len(Functions)
  <2>1. r = [sync[s] EXCEPT !.step = "readModel"]
    BY <1>5 DEF Following
  <2>2. r \in Sync /\ r.step = "readModel"
    BY <1>2, <2>1 DEF Sync, Steps
  <2>3. \A i \in Ids : i < f \/ i = f
    BY <1>5, Range1
  <2>4. /\ UNCHANGED <<model, edits, faults, runs>> /\ sync[s].step = "toggle"
        /\ \/ function' = function /\ Go(s, r)
           \/ function' = [function EXCEPT ![f] = g] /\ GoWriting(s, r)
    BY <1>2, <1>3 DEF Toggle, NoHistory, At
  <2>5. f = sync[s].f
    OBVIOUS
  <2> HIDE DEF r, f, g
  <2>6. function' \in [Ids -> Function] /\ model' \in Model /\ Grows /\ UnrelatedKept'
    <3>1. CASE function' = function
      BY <1>1, <1>2, <2>4, <3>1 DEF Grows, UnrelatedKept
    <3>2. CASE function' = [function EXCEPT ![f] = g]
      BY <1>1, <1>3, <1>4, <2>4, <3>2, WriteFunction
    <3> QED
      BY <2>4, <3>1, <3>2
  <2>7. sync'[s].step = "readModel"
    BY <1>1, <2>2, <2>4, Advance
  <2>8. \A i \in Ids : Managed(i)
    BY <1>1, <1>3, <2>3, <2>4, <2>5 DEF Progress, Managed
  <2>9. \A i \in Ids : Managed(i)'
    BY <2>6, <2>8 DEF Grows, Managed
  <2>10. Progress(s)' /\ Carries(s)'
    BY <2>7, <2>9 DEF Progress, Carries
  <2>11. faults' \in 0 .. MaxFaults /\ runs' \in [Syncs -> 0 .. MaxRuns]
    BY <1>1, <2>4 DEF TypeOK
  <2> QED
    BY <2>2, <2>4, <2>6, <2>10, <2>11, RunStep
<1>6. CASE f # Len(Functions)
  <2>1. r = [sync[s] EXCEPT !.step = "source", !.f = f + 1]
    BY <1>6 DEF Following
  <2>2. f + 1 \in Ids
    BY <1>3, <1>6, Range1
  <2>3. r \in Sync /\ r.step = "source" /\ r.f = f + 1 /\ r.known = sync[s].known
    BY <1>2, <2>1, <2>2 DEF Sync, Steps
  <2>4. \A i \in Ids : i < f + 1 => i < f \/ i = f
    BY <1>3, Range1
  <2>5. /\ UNCHANGED <<model, edits, faults, runs>> /\ sync[s].step = "toggle"
        /\ \/ function' = function /\ Go(s, r)
           \/ function' = [function EXCEPT ![f] = g] /\ GoWriting(s, r)
    BY <1>2, <1>3 DEF Toggle, NoHistory, At
  <2> DEFINE n == f + 1
  <2>6. f = sync[s].f /\ n \in Ids
    BY <2>2
  <2>7. r.f = n /\ \A i \in Ids : i < n => i < f \/ i = f
    BY <2>3, <2>4
  <2> HIDE DEF r, f, g, n
  <2>8. function' \in [Ids -> Function] /\ model' \in Model /\ Grows /\ UnrelatedKept'
    <3>1. CASE function' = function
      BY <1>1, <1>2, <2>5, <3>1 DEF Grows, UnrelatedKept
    <3>2. CASE function' = [function EXCEPT ![f] = g]
      BY <1>1, <1>3, <1>4, <2>5, <3>2, WriteFunction
    <3> QED
      BY <2>5, <3>1, <3>2
  <2>9. sync'[s].step = "source" /\ sync'[s].known = sync[s].known /\ sync'[s].f = n
    BY <1>1, <2>3, <2>5, <2>7, Advance
  <2>10. \A i \in Ids : i < n => Managed(i)
    BY <1>1, <1>3, <2>5, <2>6, <2>7 DEF Progress, Managed
  <2>11. \A i \in Ids : Managed(i) => Managed(i)'
    BY <2>8 DEF Grows, Managed
  <2>12. Progress(s)'
    BY <1>1, <2>5, <2>8, <2>9, <2>10, <2>11 DEF Progress, Grows
  <2>13. Carries(s)'
    BY <2>9 DEF Carries
  <2>14. faults' \in 0 .. MaxFaults /\ runs' \in [Syncs -> 0 .. MaxRuns]
    BY <1>1, <2>5 DEF TypeOK
  <2> QED
    BY <2>3, <2>5, <2>8, <2>12, <2>13, <2>14, RunStep
<1> QED
  BY <1>5, <1>6

\* What is kept is what there is, and all of it was read before.
LEMMA KeepModelIInv == ASSUME IInv, NEW s \in Syncs, KeepModel(s) PROVE IInv'
<1> DEFINE r == Over(s, "done")
<1>1. TypeOK /\ Progress(s)
  BY DEF IInv
<1>2. r \in Sync /\ r.step = "done"
  BY <1>1, OverRecord
<1>3. /\ UNCHANGED <<function, model, edits, faults, runs>> /\ sync[s].step = "writeModel"
      /\ sync[s].meta.exists /\ sync[s].meta.action /\ Go(s, r)
  BY DEF KeepModel, KeepsModel, NoHistory, At
<1> HIDE DEF r
<1>4. sync'[s].step = "done"
  BY <1>1, <1>2, <1>3, Advance
<1>5. Progress(s)' /\ Carries(s)'
  BY <1>1, <1>3, <1>4 DEF Progress, Carries, Managed
<1>6. faults' \in 0 .. MaxFaults /\ runs' \in [Syncs -> 0 .. MaxRuns]
  BY <1>1, <1>3 DEF TypeOK
<1> QED
  BY <1>2, <1>3, <1>5, <1>6, QuietStep

\* A write of the model, whether its answer arrives or not.
LEMMA WriteModelIInv == ASSUME IInv, NEW s \in Syncs, WriteModel(s) PROVE IInv'
<1> DEFINE meta == sync[s].meta
<1>0. PICK outcome \in {"done", "failed"} :
        /\ GoWriting(s, Over(s, outcome))
        /\ faults' = faults \/ Fault
  BY DEF WriteModel
<1> DEFINE r == Over(s, outcome)
<1>1. TypeOK /\ Progress(s) /\ Carries(s) /\ UnrelatedKept
  BY DEF IInv
<1>2. sync[s] \in Sync /\ function \in [Ids -> Function] /\ model \in Model
  BY <1>1 DEF TypeOK
<1>3. meta.other \in 0 .. MaxEdits
  BY <1>2 DEF Sync, Model
<1>4. r \in Sync /\ r.step = outcome
  BY <1>1, OverRecord
<1>5. /\ UNCHANGED <<function, edits, runs>> /\ sync[s].step = "writeModel"
      /\ model' = [exists |-> TRUE, action |-> TRUE, active |-> TRUE, other |-> meta.other]
      /\ GoWriting(s, r)
  BY <1>0 DEF WriteModel, At
<1>6. meta = sync[s].meta
  OBVIOUS
<1> HIDE DEF r, meta
<1>7. /\ model' \in Model /\ model'.exists /\ model'.action
      /\ 0 \notin edits.raced => model'.other = edits.set[0]
  BY <1>1, <1>3, <1>5, <1>6 DEF Carries, Model
<1>8. Grows
  BY <1>5, <1>7 DEF Grows
<1>9. UnrelatedKept'
  BY <1>1, <1>5, <1>7 DEF UnrelatedKept
<1>10. sync'[s].step = outcome
  BY <1>1, <1>4, <1>5, Advance
<1>11. \A i \in Ids : Managed(i)'
  BY <1>1, <1>5 DEF Progress, Managed
<1>12. Progress(s)' /\ Carries(s)'
  BY <1>0, <1>7, <1>10, <1>11 DEF Progress, Carries
<1>13. faults' \in 0 .. MaxFaults /\ runs' \in [Syncs -> 0 .. MaxRuns]
  <2>1. faults \in 0 .. MaxFaults /\ runs \in [Syncs -> 0 .. MaxRuns]
    BY <1>1 DEF TypeOK
  <2> QED
    BY <2>1, <1>0, <1>5, SyncAssumption DEF Fault
<1> QED
  BY <1>2, <1>4, <1>5, <1>7, <1>8, <1>9, <1>12, <1>13, RunStep

------------------------------------------------------------------------------
(* The administrator. *)

\* An edit is what there is from now on; the runs that read before it lose their
\* claim on the object.
LEMMA EditStep ==
  ASSUME IInv, NEW o \in Objects, Edit(o), Grows,
         function' \in [Ids -> Function], model' \in Model, UnrelatedKept'
  PROVE  IInv'
<1>1. TypeOK /\ edits \in [count : 0 .. MaxEdits, set : [Objects -> 0 .. MaxEdits],
                           raced : SUBSET Objects]
  BY DEF IInv, TypeOK
<1>2. edits.count + 1 \in 0 .. MaxEdits
  BY <1>1, SyncAssumption DEF Edit
<1> DEFINE k == edits.count + 1
<1>3. /\ edits'.count = k /\ edits'.set = [edits.set EXCEPT ![o] = k]
      /\ edits'.raced = IF ReadNotWritten(o) THEN edits.raced \cup {o}
                                             ELSE edits.raced \ {o}
      /\ edits' = [count |-> edits'.count, set |-> edits'.set, raced |-> edits'.raced]
      /\ UNCHANGED <<sync, faults, runs>>
  BY DEF Edit
<1>4. k \in 0 .. MaxEdits
  BY <1>2
<1> HIDE DEF k
<1>5. edits' \in [count : 0 .. MaxEdits, set : [Objects -> 0 .. MaxEdits],
                  raced : SUBSET Objects]
  BY <1>1, <1>3, <1>4
<1>6. TypeOK'
  BY <1>1, <1>3, <1>5 DEF TypeOK
<1>7. ASSUME NEW s \in Syncs PROVE Progress(s)'
  <2>1. Progress(s) /\ sync[s] \in Sync
    BY DEF IInv, TypeOK
  <2>2. sync[s].f \in Ids /\ sync'[s] = sync[s]
    BY <1>3, <2>1 DEF Sync
  <2>3. \A i \in Ids : Managed(i) => Managed(i)'
    BY DEF Grows, Managed
  <2> QED
    BY <2>1, <2>2, <2>3 DEF Progress, Grows
<1>8. ASSUME NEW s \in Syncs PROVE Carries(s)'
  <2>1. Carries(s) /\ sync'[s] = sync[s]
    BY <1>3 DEF IInv
  <2>2. ASSUME sync[s].step = "writeValves", sync[s].f \notin edits'.raced
        PROVE  sync[s].valves.other = edits'.set[sync[s].f]
    <3>1. sync[s].f # o
      BY <1>3, <2>2 DEF ReadNotWritten, At
    <3>2. sync[s].f \notin edits.raced /\ edits'.set[sync[s].f] = edits.set[sync[s].f]
      BY <1>1, <1>3, <2>2, <3>1
    <3> QED
      BY <2>1, <2>2, <3>2 DEF Carries
  <2>3. ASSUME sync[s].step = "writeModel", 0 \notin edits'.raced
        PROVE  sync[s].meta.other = edits'.set[0]
    <3>1. o # 0
      BY <1>3, <2>3 DEF ReadNotWritten, At
    <3>2. 0 \notin edits.raced /\ edits'.set[0] = edits.set[0]
      BY <1>1, <1>3, <2>3, <3>1
    <3> QED
      BY <2>1, <2>3, <3>2 DEF Carries
  <2> QED
    BY <2>1, <2>2, <2>3 DEF Carries
<1> QED
  BY <1>6, <1>7, <1>8 DEF IInv

\* What Edit(o) does to the history of the other objects.
LEMMA OtherEdits ==
  ASSUME TypeOK, NEW o \in Objects, Edit(o)
  PROVE  /\ edits.count + 1 \in 0 .. MaxEdits /\ edits'.set[o] = edits.count + 1
         /\ \A p \in Objects \ {o} : /\ edits'.set[p] = edits.set[p]
                                     /\ p \in edits'.raced <=> p \in edits.raced
<1>1. edits \in [count : 0 .. MaxEdits, set : [Objects -> 0 .. MaxEdits],
                 raced : SUBSET Objects]
  BY DEF TypeOK
<1>2. edits.count + 1 \in 0 .. MaxEdits
  BY <1>1, SyncAssumption DEF Edit
<1> QED
  BY <1>1, <1>2 DEF Edit

LEMMA EditFunctionIInv == ASSUME IInv, NEW o \in Objects, EditFunction(o) PROVE IInv'
<1> DEFINE g == [function[o] EXCEPT !.other = edits.count + 1]
<1>1. TypeOK /\ UnrelatedKept
  BY DEF IInv
<1>2. function \in [Ids -> Function] /\ model \in Model
  BY <1>1 DEF TypeOK
<1>3. o \in Ids /\ o # 0
  BY Range1 DEF EditFunction
<1>4. /\ edits.count + 1 \in 0 .. MaxEdits /\ edits'.set[o] = edits.count + 1
      /\ \A p \in Objects \ {o} : /\ edits'.set[p] = edits.set[p]
                                  /\ p \in edits'.raced <=> p \in edits.raced
  BY <1>1, OtherEdits DEF EditFunction
<1>5. function[o] \in Function
  BY <1>2, <1>3
<1>6. /\ g \in Function /\ g.exists = function[o].exists /\ g.current = function[o].current
      /\ g.managed = function[o].managed /\ g.other = edits'.set[o]
  BY <1>4, <1>5 DEF Function
<1>7. /\ function' = [function EXCEPT ![o] = g] /\ model' = model /\ Edit(o)
  BY <1>2, <1>3 DEF EditFunction
<1> HIDE DEF g
<1>8. /\ function' \in [Ids -> Function] /\ function'[o] = g
      /\ \A i \in Ids \ {o} : function'[i] = function[i]
  BY <1>2, <1>3, <1>6, <1>7
<1>9. Grows
  BY <1>6, <1>7, <1>8 DEF Grows
<1>10. UnrelatedKept'
  <2>1. 0 \in Objects \ {o}
    BY <1>3, Range1
  <2>2. Ids \subseteq Objects
    BY Range1
  <2> QED
    BY <1>1, <1>4, <1>6, <1>7, <1>8, <2>1, <2>2 DEF UnrelatedKept
<1> QED
  BY <1>2, <1>7, <1>8, <1>9, <1>10, EditStep

LEMMA EditModelIInv == ASSUME IInv, EditModel PROVE IInv'
<1>1. TypeOK /\ UnrelatedKept
  BY DEF IInv
<1>2. function \in [Ids -> Function] /\ model \in Model
  BY <1>1 DEF TypeOK
<1>3. 0 \in Objects /\ \A i \in Ids : i \in Objects \ {0}
  BY Range1
<1>4. /\ edits.count + 1 \in 0 .. MaxEdits /\ edits'.set[0] = edits.count + 1
      /\ \A p \in Objects \ {0} : /\ edits'.set[p] = edits.set[p]
                                  /\ p \in edits'.raced <=> p \in edits.raced
  BY <1>1, <1>3, OtherEdits DEF EditModel
<1>5. /\ model' = [model EXCEPT !.other = edits.count + 1] /\ function' = function
      /\ Edit(0)
  BY DEF EditModel
<1>6. /\ model' \in Model /\ model'.exists = model.exists /\ model'.action = model.action
      /\ model'.other = edits'.set[0]
  BY <1>2, <1>4, <1>5 DEF Model
<1>7. Grows
  BY <1>5, <1>6 DEF Grows
<1>8. UnrelatedKept'
  BY <1>1, <1>3, <1>4, <1>5, <1>6 DEF UnrelatedKept
<1> QED
  BY <1>2, <1>3, <1>5, <1>6, <1>7, <1>8, EditStep

------------------------------------------------------------------------------
LEMMA StutterIInv == ASSUME IInv, UNCHANGED vars PROVE IInv'
BY DEF IInv, TypeOK, Progress, Carries, UnrelatedKept, Managed, vars

LEMMA StepIInv == IInv /\ [Next]_vars => IInv'
<1> SUFFICES ASSUME IInv, [Next]_vars PROVE IInv'
  OBVIOUS
<1>1. ASSUME NEW s \in Syncs, Run(s) PROVE IInv'
  BY <1>1, StartIInv, ExportIInv, KeepSourceIInv, CreateSourceIInv, UpdateSourceIInv,
     ReadValvesIInv, WriteValvesIInv, ToggleIInv, ReadModelIInv, KeepModelIInv,
     WriteModelIInv, FailuresIInv DEF Run
<1>2. ASSUME NEW o \in Objects, EditFunction(o) PROVE IInv'
  BY <1>2, EditFunctionIInv
<1>3. CASE EditModel
  BY <1>3, EditModelIInv
<1>4. CASE UNCHANGED vars
  BY <1>4, StutterIInv
<1> QED
  BY <1>1, <1>2, <1>3, <1>4 DEF Next

\* Runs only ever add what is missing and write back what they read.
THEOREM SyncInvariant == Spec => []IInv
BY InitIInv, StepIInv, PTL DEF Spec

\* Every variable keeps its type, and no run leaves the list of functions.
THEOREM SyncTypeCorrect == Spec => []TypeOK
<1>1. IInv => TypeOK
  BY DEF IInv
<1> QED
  BY <1>1, SyncInvariant, PTL

\* Whatever failed, overlapped or was edited meanwhile: once a run has finished,
\* contents, Valves and model are up to date.
THEOREM FinishedIsCurrent == Spec => []DoneMeansCurrent
<1>1. IInv => DoneMeansCurrent
  BY DEF IInv, DoneMeansCurrent, Progress, At
<1> QED
  BY <1>1, SyncInvariant, PTL

\* No sync overwrites what an administrator set before it read or after it wrote.
THEOREM EditsSurvive == Spec => []UnrelatedKept
<1>1. IInv => UnrelatedKept
  BY DEF IInv
<1> QED
  BY <1>1, SyncInvariant, PTL

------------------------------------------------------------------------------
(* Runs that nobody disturbs.  While a run is alone only it writes, so that *)
(* what it has read is what there is: the functions behind it are active,  *)
(* those before it are as exported (AloneInv).  If all was up to date when *)
(* it began it finds nothing to do (FreshInv).                             *)

InLoop == {"source", "readValves", "writeValves", "toggle"}

AloneInv(s) ==
  LET r == sync[s] IN
  /\ r.step = "export" => r.writes = 0 /\ ~r.alone
  /\ r.alone /\ r.step \in InLoop =>
       /\ \A i \in Ids : i < r.f => function[i].active
       /\ \A i \in Ids : i > r.f \/ (i = r.f /\ r.step = "source") =>
            function[i].active = r.known[i].active
       /\ r.step # "source" => r.active = function[r.f].active
  /\ r.alone /\ r.step \in {"readModel", "writeModel", "done"} =>
       \A i \in Ids : function[i].active

FreshInv(s) ==
  LET r == sync[s] IN
  r.alone /\ r.fresh /\ r.step \in InLoop \union {"readModel", "writeModel", "done"} =>
    /\ r.writes = 0 /\ UpToDate
    /\ r.step \in InLoop => \A i \in Ids : r.known[i].exists /\ r.known[i].current
    /\ r.step = "writeValves" => r.valves.managed
    /\ r.step = "writeModel" => r.meta.exists /\ r.meta.action

\* A function that does not exist is not active.
ActiveInv == \A i \in Ids : function[i].active => function[i].exists

ConvergeInv ==
  /\ ActiveInv
  /\ \A s \in Syncs : AloneInv(s)
  /\ \A s \in Syncs : FreshInv(s)

\* All the fields of the run that moves.
LEMMA AdvanceAll ==
  ASSUME TypeOK, NEW s \in Syncs, NEW r \in Sync, Go(s, r) \/ GoWriting(s, r)
  PROVE  /\ sync'[s].step = r.step /\ sync'[s].f = r.f /\ sync'[s].known = r.known
         /\ sync'[s].active = r.active /\ sync'[s].valves = r.valves
         /\ sync'[s].meta = r.meta /\ sync'[s].alone = r.alone /\ sync'[s].fresh = r.fresh
         /\ Go(s, r) => sync'[s].writes = r.writes
<1>1. sync \in [Syncs -> Sync]
  BY DEF TypeOK
<1>2. CASE Go(s, r)
  BY <1>1, <1>2 DEF Go
<1>3. CASE GoWriting(s, r) /\ ~Go(s, r)
  <2>1. sync'[s] = [r EXCEPT !.writes = @ + 1]
    BY <1>3 DEF GoWriting
  <2> QED
    BY <1>3, <2>1 DEF Sync
<1> QED
  BY <1>2, <1>3

\* A step of s takes nothing from the claims of the others: it writes nothing, or
\* they are not alone any more.
LEMMA OthersConverge ==
  ASSUME TypeOK, ConvergeInv, NEW s \in Syncs, NEW r \in Sync,
         \/ Go(s, r) /\ UNCHANGED <<function, model>>
         \/ GoWriting(s, r),
         ActiveInv', AloneInv(s)', FreshInv(s)'
  PROVE  ConvergeInv'
<1> SUFFICES ASSUME NEW t \in Syncs, t # s PROVE AloneInv(t)' /\ FreshInv(t)'
  BY DEF ConvergeInv
<1>1. sync \in [Syncs -> Sync] /\ sync[t] \in Sync /\ AloneInv(t) /\ FreshInv(t)
  BY DEF TypeOK, ConvergeInv
<1>2. CASE Go(s, r) /\ UNCHANGED <<function, model>>
  <2>1. sync'[t] = sync[t]
    BY <1>1, <1>2 DEF Go
  <2> QED
    BY <1>1, <1>2, <2>1 DEF AloneInv, FreshInv, UpToDate, Managed
<1>3. CASE GoWriting(s, r)
  <2>1. sync'[t] = [sync[t] EXCEPT !.alone = FALSE]
    BY <1>3 DEF GoWriting
  <2>2. ~sync'[t].alone /\ sync'[t].step = sync[t].step /\ sync'[t].writes = sync[t].writes
    BY <1>1, <2>1 DEF Sync
  <2> QED
    BY <1>1, <2>2 DEF AloneInv, FreshInv
<1> QED
  BY <1>2, <1>3

\* A step that writes nothing.
LEMMA QuietConverge ==
  ASSUME TypeOK, ConvergeInv, NEW s \in Syncs, NEW r \in Sync, Go(s, r),
         UNCHANGED <<function, model>>, AloneInv(s)', FreshInv(s)'
  PROVE  ConvergeInv'
<1>1. ActiveInv'
  BY DEF ConvergeInv, ActiveInv
<1> QED
  BY <1>1, OthersConverge

LEMMA StartConverge ==
  ASSUME IInv, ConvergeInv, NEW s \in Syncs, Start(s) PROVE ConvergeInv'
<1> DEFINE r == [Idle EXCEPT !.step = "export"]
<1>1. TypeOK
  BY DEF IInv
<1>2. r \in Sync /\ r.step = "export" /\ ~r.alone /\ r.writes = 0
  <2>1. Idle \in Sync /\ ~Idle.alone /\ Idle.writes = 0
    BY <1>1, OverRecord DEF Idle
  <2> QED
    BY <2>1 DEF Sync, Steps
<1>3. Go(s, r) /\ UNCHANGED <<function, model>>
  BY DEF Start
<1> HIDE DEF r
<1>4. sync'[s].step = "export" /\ ~sync'[s].alone /\ sync'[s].writes = 0
  BY <1>1, <1>2, <1>3, AdvanceAll
<1>5. AloneInv(s)' /\ FreshInv(s)'
  BY <1>4 DEF AloneInv, FreshInv
<1> QED
  BY <1>1, <1>2, <1>3, <1>5, QuietConverge

LEMMA ExportConverge ==
  ASSUME IInv, ConvergeInv, NEW s \in Syncs, Export(s) PROVE ConvergeInv'
<1> DEFINE r == [sync[s] EXCEPT !.step = "source", !.known = function,
                                !.alone = TRUE, !.fresh = UpToDate]
<1>1. TypeOK
  BY DEF IInv
<1>2. sync[s] \in Sync /\ function \in [Ids -> Function] /\ UpToDate \in BOOLEAN
  BY <1>1 DEF TypeOK, UpToDate
<1>3. /\ r \in Sync /\ r.step = "source" /\ r.known = function /\ r.f = sync[s].f
      /\ r.fresh = UpToDate /\ r.writes = sync[s].writes
  BY <1>2 DEF Sync, Steps
<1>4. /\ Go(s, r) /\ UNCHANGED <<function, model>>
      /\ sync[s].f = 1 /\ sync[s].writes = 0
  BY DEF Export, IInv, Progress, ConvergeInv, AloneInv, At
<1> HIDE DEF r
<1>5. /\ sync'[s].step = "source" /\ sync'[s].known = function /\ sync'[s].f = 1
      /\ sync'[s].fresh = UpToDate /\ sync'[s].writes = 0
  BY <1>1, <1>3, <1>4, AdvanceAll
<1>6. \A i \in Ids : ~(i < 1)
  BY Range1
<1>7. AloneInv(s)'
  BY <1>4, <1>5, <1>6 DEF AloneInv, InLoop
<1>8. FreshInv(s)'
  BY <1>4, <1>5 DEF FreshInv, InLoop, UpToDate, Managed
<1> QED
  BY <1>1, <1>3, <1>4, <1>7, <1>8, QuietConverge

LEMMA KeepSourceConverge ==
  ASSUME IInv, ConvergeInv, NEW s \in Syncs, KeepSource(s) PROVE ConvergeInv'
<1> DEFINE f == sync[s].f
           r == [sync[s] EXCEPT !.step = "readValves", !.active = sync[s].known[f].active]
<1>1. TypeOK /\ AloneInv(s) /\ FreshInv(s)
  BY DEF IInv, ConvergeInv
<1>2. sync[s] \in Sync
  BY <1>1 DEF TypeOK
<1>3. sync[s].known[f].active \in BOOLEAN /\ f \in Ids
  BY <1>2 DEF Sync, Function
<1>4. /\ r \in Sync /\ r.step = "readValves" /\ r.known = sync[s].known /\ r.f = f
      /\ r.alone = sync[s].alone /\ r.fresh = sync[s].fresh /\ r.writes = sync[s].writes
      /\ r.active = sync[s].known[f].active
  BY <1>2, <1>3 DEF Sync, Steps
<1>5. /\ Go(s, r) /\ UNCHANGED <<function, model>> /\ sync[s].step = "source"
      /\ f = sync[s].f
  BY DEF KeepSource, At
<1> HIDE DEF r, f
<1>6. /\ sync'[s].step = "readValves" /\ sync'[s].known = sync[s].known /\ sync'[s].f = f
      /\ sync'[s].alone = sync[s].alone /\ sync'[s].fresh = sync[s].fresh
      /\ sync'[s].writes = sync[s].writes /\ sync'[s].active = sync[s].known[f].active
  BY <1>1, <1>4, <1>5, AdvanceAll
<1>7. AloneInv(s)'
  BY <1>1, <1>3, <1>5, <1>6 DEF AloneInv, InLoop
<1>8. FreshInv(s)'
  BY <1>1, <1>5, <1>6 DEF FreshInv, InLoop, UpToDate, Managed
<1> QED
  BY <1>1, <1>4, <1>5, <1>7, <1>8, QuietConverge

LEMMA ReadValvesConverge ==
  ASSUME IInv, ConvergeInv, NEW s \in Syncs, ReadValves(s) PROVE ConvergeInv'
<1> DEFINE r == [sync[s] EXCEPT !.step = "writeValves", !.valves = function[sync[s].f]]
<1>1. TypeOK /\ AloneInv(s) /\ FreshInv(s)
  BY DEF IInv, ConvergeInv
<1>2. sync[s] \in Sync
  BY <1>1 DEF TypeOK
<1>3. sync[s].f \in Ids /\ function[sync[s].f] \in Function
  BY <1>1, <1>2 DEF Sync, TypeOK
<1>4. /\ r \in Sync /\ r.step = "writeValves" /\ r.known = sync[s].known
      /\ r.f = sync[s].f /\ r.valves = function[sync[s].f] /\ r.active = sync[s].active
      /\ r.alone = sync[s].alone /\ r.fresh = sync[s].fresh /\ r.writes = sync[s].writes
  BY <1>2, <1>3 DEF Sync, Steps
<1>5. Go(s, r) /\ UNCHANGED <<function, model>> /\ sync[s].step = "readValves"
  BY DEF ReadValves, At
<1> HIDE DEF r
<1>6. /\ sync'[s].step = "writeValves" /\ sync'[s].known = sync[s].known
      /\ sync'[s].f = sync[s].f /\ sync'[s].valves = function[sync[s].f]
      /\ sync'[s].active = sync[s].active /\ sync'[s].alone = sync[s].alone
      /\ sync'[s].fresh = sync[s].fresh /\ sync'[s].writes = sync[s].writes
  BY <1>1, <1>4, <1>5, AdvanceAll
<1>7. AloneInv(s)'
  BY <1>1, <1>3, <1>5, <1>6 DEF AloneInv, InLoop
<1>8. FreshInv(s)'
  BY <1>1, <1>3, <1>5, <1>6 DEF FreshInv, InLoop, UpToDate, Managed
<1> QED
  BY <1>1, <1>4, <1>5, <1>7, <1>8, QuietConverge

LEMMA ReadModelConverge ==
  ASSUME IInv, ConvergeInv, NEW s \in Syncs, ReadModel(s) PROVE ConvergeInv'
<1> DEFINE r == [sync[s] EXCEPT !.step = "writeModel", !.meta = model]
<1>1. TypeOK /\ AloneInv(s) /\ FreshInv(s)
  BY DEF IInv, ConvergeInv
<1>2. sync[s] \in Sync /\ model \in Model
  BY <1>1 DEF TypeOK
<1>3. /\ r \in Sync /\ r.step = "writeModel" /\ r.meta = model
      /\ r.alone = sync[s].alone /\ r.fresh = sync[s].fresh /\ r.writes = sync[s].writes
  BY <1>2 DEF Sync, Steps
<1>4. Go(s, r) /\ UNCHANGED <<function, model>> /\ sync[s].step = "readModel"
  BY DEF ReadModel, At
<1> HIDE DEF r
<1>5. /\ sync'[s].step = "writeModel" /\ sync'[s].meta = model
      /\ sync'[s].alone = sync[s].alone
      /\ sync'[s].fresh = sync[s].fresh /\ sync'[s].writes = sync[s].writes
  BY <1>1, <1>3, <1>4, AdvanceAll
<1>6. AloneInv(s)'
  BY <1>1, <1>4, <1>5 DEF AloneInv, InLoop
<1>7. FreshInv(s)'
  BY <1>1, <1>4, <1>5 DEF FreshInv, InLoop, UpToDate, Managed
<1> QED
  BY <1>1, <1>3, <1>4, <1>6, <1>7, QuietConverge

LEMMA FailuresConverge ==
  ASSUME IInv, ConvergeInv, NEW s \in Syncs,
         CreateRefused(s) \/ CreateModelRefused(s) \/ Fail(s)
  PROVE  ConvergeInv'
<1>1. TypeOK
  BY DEF IInv
<1>2. Over(s, "failed") \in Sync /\ Over(s, "failed").step = "failed"
  BY <1>1, OverRecord
<1>3. Go(s, Over(s, "failed")) /\ UNCHANGED <<function, model>>
  BY DEF CreateRefused, CreateModelRefused, Fail
<1>4. sync'[s].step = "failed"
  BY <1>1, <1>2, <1>3, AdvanceAll
<1>5. AloneInv(s)' /\ FreshInv(s)'
  BY <1>4 DEF AloneInv, FreshInv, InLoop
<1> QED
  BY <1>1, <1>2, <1>3, <1>5, QuietConverge

\* A function the export had is neither created nor updated by a fresh run.
LEMMA SourceConverge ==
  ASSUME IInv, ConvergeInv, NEW s \in Syncs, CreateSource(s) \/ UpdateSource(s)
  PROVE  ConvergeInv'
<1> DEFINE f == sync[s].f
           b == IF CreateSource(s) THEN FALSE ELSE function[f].active
           r == [sync[s] EXCEPT !.step = "readValves", !.active = b]
<1>1. TypeOK /\ AloneInv(s) /\ FreshInv(s) /\ ActiveInv
  BY DEF IInv, ConvergeInv
<1>2. sync[s] \in Sync /\ function \in [Ids -> Function]
  BY <1>1 DEF TypeOK
<1>3. f \in Ids /\ function[f] \in Function /\ function[f].active \in BOOLEAN
  BY <1>2 DEF Sync, Function
<1>4. b \in BOOLEAN /\ b = function[f].active
  BY <1>1, <1>3 DEF CreateSource, ActiveInv
<1>5. sync[s].step = "source" /\ ~(sync[s].known[f].exists /\ sync[s].known[f].current)
  BY DEF CreateSource, UpdateSource, At
<1>6. GoWriting(s, r) /\ f = sync[s].f
  BY DEF CreateSource, UpdateSource
<1>7. \A i \in Ids : /\ function'[i].active = function[i].active
                     /\ function[i].exists => function'[i].exists
                     /\ i = f => function'[i].exists
  <2>1. CASE CreateSource(s)
    <3>1. function' = [function EXCEPT ![f] = [function[f] EXCEPT !.exists = TRUE, !.current = TRUE]]
      BY <1>2, <1>3, <2>1 DEF CreateSource
    <3> QED
      BY <1>2, <1>3, <3>1 DEF Function
  <2>2. CASE UpdateSource(s)
    <3>1. function' = [function EXCEPT ![f] = [function[f] EXCEPT !.current = TRUE]]
          /\ sync[s].known[f].exists
      BY <1>2, <1>3, <2>2 DEF UpdateSource
    <3>2. function[f].exists
      BY <1>3, <1>5, <3>1 DEF IInv, Progress
    <3> QED
      BY <1>2, <1>3, <3>1, <3>2 DEF Function
  <2> QED
    BY <2>1, <2>2
<1> HIDE DEF b
<1>8. /\ r \in Sync /\ r.step = "readValves" /\ r.known = sync[s].known /\ r.f = f
      /\ r.alone = sync[s].alone /\ r.fresh = sync[s].fresh /\ r.active = b
  BY <1>2, <1>4 DEF Sync, Steps
<1> HIDE DEF r, f
<1>9. /\ sync'[s].step = "readValves" /\ sync'[s].known = sync[s].known /\ sync'[s].f = f
      /\ sync'[s].alone = sync[s].alone /\ sync'[s].fresh = sync[s].fresh
      /\ sync'[s].active = b
  BY <1>1, <1>6, <1>8, AdvanceAll
<1>10. ActiveInv'
  BY <1>1, <1>7 DEF ActiveInv
<1>11. AloneInv(s)'
  BY <1>1, <1>3, <1>4, <1>5, <1>6, <1>7, <1>9 DEF AloneInv, InLoop
<1>12. FreshInv(s)'
  BY <1>1, <1>3, <1>5, <1>9 DEF FreshInv, InLoop
<1> QED
  BY <1>1, <1>6, <1>8, <1>10, <1>11, <1>12, OthersConverge

LEMMA WriteValvesConverge ==
  ASSUME IInv, ConvergeInv, NEW s \in Syncs, WriteValves(s) PROVE ConvergeInv'
<1> DEFINE f == sync[s].f
           r == Written(s)
           v == sync[s].valves
<1>1. TypeOK /\ AloneInv(s) /\ FreshInv(s) /\ ActiveInv
  BY DEF IInv, ConvergeInv
<1>2. sync[s] \in Sync /\ function \in [Ids -> Function]
  BY <1>1 DEF TypeOK
<1>3. f \in Ids /\ function[f] \in Function
  BY <1>2 DEF Sync
<1>4. NoFunction \in Function
  BY <1>1, OverRecord DEF Idle, Sync
<1>5. /\ r \in Sync /\ r.step = "toggle" /\ r.known = sync[s].known /\ r.f = f
      /\ r.alone = sync[s].alone /\ r.fresh = sync[s].fresh
      /\ r.active = sync[s].active /\ r.writes = sync[s].writes
  BY <1>2, <1>4 DEF Sync, Steps, Written
<1>6. /\ UNCHANGED model /\ sync[s].step = "writeValves" /\ f = sync[s].f
      /\ \/ function' = function /\ Go(s, r)
         \/ ~v.managed /\ GoWriting(s, r)
  BY DEF WriteValves, Differs, At
<1>7. \A i \in Ids : /\ function'[i].active = function[i].active
                     /\ function'[i].exists = function[i].exists
  <2>1. CASE function' = function
    BY <2>1
  <2>2. CASE function' = [function EXCEPT ![f].managed = TRUE, ![f].other = v.other]
    <3>1. function' = [function EXCEPT ![f] = [function[f] EXCEPT !.managed = TRUE, !.other = v.other]]
      BY <1>2, <1>3, <2>2
    <3> QED
      BY <1>2, <1>3, <3>1 DEF Function
  <2> QED
    BY <2>1, <2>2 DEF WriteValves
<1>8. v = sync[s].valves
  OBVIOUS
<1> HIDE DEF r, f, v
<1>9. /\ sync'[s].step = "toggle" /\ sync'[s].known = sync[s].known /\ sync'[s].f = f
      /\ sync'[s].alone = sync[s].alone /\ sync'[s].fresh = sync[s].fresh
      /\ sync'[s].active = sync[s].active
      /\ Go(s, r) => sync'[s].writes = sync[s].writes
  BY <1>1, <1>5, <1>6, AdvanceAll
<1>10. ActiveInv'
  BY <1>1, <1>7 DEF ActiveInv
<1>11. AloneInv(s)'
  BY <1>1, <1>3, <1>6, <1>7, <1>9 DEF AloneInv, InLoop
<1>12. FreshInv(s)'
  <2>1. CASE function' = function /\ Go(s, r)
    BY <1>1, <1>6, <1>9, <2>1 DEF FreshInv, InLoop, UpToDate, Managed
  <2>2. CASE ~v.managed
    BY <1>1, <1>6, <1>8, <1>9, <2>2 DEF FreshInv, InLoop
  <2> QED
    BY <1>6, <2>1, <2>2
<1> QED
  BY <1>1, <1>5, <1>6, <1>10, <1>11, <1>12, OthersConverge

\* Alone, the toggle flips what was read: it switches on what is off, never off.
LEMMA ToggleConverge ==
  ASSUME IInv, ConvergeInv, NEW s \in Syncs, Toggle(s) PROVE ConvergeInv'
<1> DEFINE f == sync[s].f
           r == Following(s)
<1>1. TypeOK /\ AloneInv(s) /\ FreshInv(s) /\ ActiveInv /\ Progress(s)
  BY DEF IInv, ConvergeInv
<1>2. sync[s] \in Sync /\ function \in [Ids -> Function]
  BY <1>1 DEF TypeOK
<1>3. f \in Ids /\ function[f] \in Function
  BY <1>2 DEF Sync
<1>4. /\ r \in Sync /\ r.known = sync[s].known
      /\ r.alone = sync[s].alone /\ r.fresh = sync[s].fresh /\ r.writes = sync[s].writes
      /\ \/ r.step = "readModel" /\ f = Len(Functions)
         \/ r.step = "source" /\ r.f = f + 1
  <2>1. CASE f = Len(Functions)
    <3>1. r = [sync[s] EXCEPT !.step = "readModel"]
      BY <2>1 DEF Following
    <3> QED
      BY <1>2, <2>1, <3>1 DEF Sync, Steps
  <2>2. CASE f # Len(Functions)
    <3>1. r = [sync[s] EXCEPT !.step = "source", !.f = f + 1]
      BY <2>2 DEF Following
    <3>2. f + 1 \in Ids
      BY <1>3, <2>2, Range1
    <3> QED
      BY <1>2, <3>1, <3>2 DEF Sync, Steps
  <2> QED
    BY <2>1, <2>2
<1>5. /\ UNCHANGED model /\ sync[s].step = "toggle" /\ f = sync[s].f
      /\ \/ sync[s].active /\ function' = function /\ Go(s, r)
         \/ ~sync[s].active /\ GoWriting(s, r)
  BY DEF Toggle, Inactive, At
<1>6. \A i \in Ids : /\ i # f => function'[i] = function[i]
                     /\ function'[i].exists = function[i].exists
                     /\ i = f /\ ~sync[s].active => function'[i].active = ~function[i].active
  <2>1. CASE sync[s].active
    BY <1>5, <2>1
  <2>2. CASE ~sync[s].active
    <3>1. function' = [function EXCEPT ![f] = [function[f] EXCEPT !.active = ~function[f].active]]
      BY <1>2, <1>3, <2>2 DEF Toggle, Inactive
    <3> QED
      BY <1>2, <1>3, <3>1 DEF Function
  <2> QED
    BY <2>1, <2>2
<1>7. \A i \in Ids : /\ i < f \/ i = f \/ i > f
                     /\ f = Len(Functions) => ~(i > f)
                     /\ i < f + 1 <=> i < f \/ i = f
                     /\ (i > f + 1 \/ i = f + 1) <=> i > f
                     /\ ~(i < f /\ i = f)
  BY <1>3, Range1
<1> DEFINE n == f + 1
<1>8. /\ \A i \in Ids : /\ i < n <=> i < f \/ i = f
                        /\ (i > n \/ i = n) <=> i > f
      /\ \/ r.step = "readModel" /\ f = Len(Functions)
         \/ r.step = "source" /\ r.f = n
  BY <1>4, <1>7
<1> HIDE DEF r, f, n
<1>9. /\ sync'[s].step = r.step /\ sync'[s].known = sync[s].known /\ sync'[s].f = r.f
      /\ sync'[s].alone = sync[s].alone /\ sync'[s].fresh = sync[s].fresh
      /\ Go(s, r) => sync'[s].writes = sync[s].writes
  BY <1>1, <1>4, <1>5, AdvanceAll
<1>10. function[f].exists
  BY <1>1, <1>5 DEF Progress
<1>11. ActiveInv'
  <2> SUFFICES ASSUME NEW i \in Ids, function'[i].active PROVE function'[i].exists
    BY DEF ActiveInv
  <2> QED
    BY <1>1, <1>6, <1>10 DEF ActiveInv
<1>12. sync[s].alone => /\ function'[f].active
                        /\ \A i \in Ids : i < f => function'[i].active
                        /\ \A i \in Ids : i > f => function'[i].active = sync[s].known[i].active
  <2>1. sync[s].alone => sync[s].active = function[f].active
    BY <1>1, <1>5 DEF AloneInv, InLoop
  <2>2. sync[s].alone => function'[f].active
    BY <1>3, <1>5, <1>6, <2>1
  <2>3. \A i \in Ids : i > f \/ i < f => function'[i] = function[i]
    <3>1. \A i \in Ids : i > f \/ i < f => i # f
      BY <1>3, Range1
    <3> QED
      BY <1>6, <3>1
  <2>4. sync[s].alone => /\ \A i \in Ids : i < f => function[i].active
                         /\ \A i \in Ids : i > f => function[i].active = sync[s].known[i].active
    BY <1>1, <1>5 DEF AloneInv, InLoop
  <2> QED
    BY <2>2, <2>3, <2>4
<1>13. AloneInv(s)'
  <2>1. CASE r.step = "readModel" /\ f = Len(Functions)
    <3>1. \A i \in Ids : i < f \/ i = f
      BY <1>7, <2>1
    <3> QED
      BY <1>9, <1>12, <2>1, <3>1 DEF AloneInv, InLoop
  <2>2. CASE r.step = "source" /\ r.f = n
    BY <1>8, <1>9, <1>12, <2>2 DEF AloneInv, InLoop
  <2> QED
    BY <1>8, <2>1, <2>2
<1>14. FreshInv(s)'
  <2>1. CASE sync[s].active /\ function' = function /\ Go(s, r)
    <3>1. UpToDate' = UpToDate
      BY <1>5, <2>1 DEF UpToDate, Managed
    <3> QED
      BY <1>1, <1>5, <1>8, <1>9, <2>1, <3>1 DEF FreshInv, InLoop
  <2>2. CASE ~sync[s].active
    <3>1. sync[s].alone => ~function[f].active
      BY <1>1, <1>5, <2>2 DEF AloneInv, InLoop
    <3>2. ~UpToDate \/ ~sync[s].alone
      BY <1>3, <3>1 DEF UpToDate
    <3> QED
      BY <1>1, <1>5, <1>9, <3>2 DEF FreshInv, InLoop
  <2> QED
    BY <1>5, <2>1, <2>2
<1> QED
  BY <1>1, <1>4, <1>5, <1>11, <1>13, <1>14, OthersConverge

LEMMA KeepModelConverge ==
  ASSUME IInv, ConvergeInv, NEW s \in Syncs, KeepModel(s) PROVE ConvergeInv'
<1> DEFINE r == Over(s, "done")
<1>1. TypeOK /\ AloneInv(s) /\ FreshInv(s)
  BY DEF IInv, ConvergeInv
<1>2. r \in Sync /\ r.step = "done"
  BY <1>1, OverRecord
<1>3. r.alone = sync[s].alone /\ r.fresh = sync[s].fresh /\ r.writes = sync[s].writes
  BY DEF Over, Idle
<1>4. UNCHANGED <<function, model>> /\ sync[s].step = "writeModel" /\ Go(s, r)
  BY DEF KeepModel, At
<1> HIDE DEF r
<1>5. /\ sync'[s].step = "done"
      /\ sync'[s].alone = sync[s].alone /\ sync'[s].fresh = sync[s].fresh
      /\ sync'[s].writes = sync[s].writes
  BY <1>1, <1>2, <1>3, <1>4, AdvanceAll
<1>6. AloneInv(s)'
  BY <1>1, <1>4, <1>5 DEF AloneInv, InLoop
<1>7. FreshInv(s)'
  BY <1>1, <1>4, <1>5 DEF FreshInv, InLoop, UpToDate, Managed
<1> QED
  BY <1>1, <1>2, <1>4, <1>6, <1>7, QuietConverge

LEMMA WriteModelConverge ==
  ASSUME IInv, ConvergeInv, NEW s \in Syncs, WriteModel(s) PROVE ConvergeInv'
<1>0. PICK outcome \in {"done", "failed"} : GoWriting(s, Over(s, outcome))
  BY DEF WriteModel
<1> DEFINE r == Over(s, outcome)
<1>1. TypeOK /\ AloneInv(s) /\ FreshInv(s) /\ ActiveInv
  BY DEF IInv, ConvergeInv
<1>2. r \in Sync /\ r.step = outcome
  BY <1>1, OverRecord
<1>3. r.alone = sync[s].alone /\ r.fresh = sync[s].fresh
  BY DEF Over, Idle
<1>4. /\ UNCHANGED function /\ sync[s].step = "writeModel" /\ GoWriting(s, r)
      /\ ~(sync[s].meta.exists /\ sync[s].meta.action)
  BY <1>0 DEF WriteModel, KeepsModel, At
<1> HIDE DEF r
<1>5. /\ sync'[s].step = outcome
      /\ sync'[s].alone = sync[s].alone /\ sync'[s].fresh = sync[s].fresh
  BY <1>1, <1>2, <1>3, <1>4, AdvanceAll
<1>6. ActiveInv'
  BY <1>1, <1>4 DEF ActiveInv
<1>7. AloneInv(s)'
  BY <1>0, <1>1, <1>4, <1>5 DEF AloneInv, InLoop
<1>8. FreshInv(s)'
  BY <1>0, <1>1, <1>4, <1>5 DEF FreshInv, InLoop
<1> QED
  BY <1>1, <1>2, <1>4, <1>6, <1>7, <1>8, OthersConverge

\* An edit touches nothing that a run looks at.
LEMMA EditConverge ==
  ASSUME IInv, ConvergeInv, EditModel \/ \E o \in Objects : EditFunction(o)
  PROVE  ConvergeInv'
<1>1. function \in [Ids -> Function] /\ model \in Model
  BY DEF IInv, TypeOK
<1>2. /\ sync' = sync
      /\ \A i \in Ids : /\ function'[i].exists = function[i].exists
                        /\ function'[i].active = function[i].active
                        /\ function'[i].current = function[i].current
                        /\ function'[i].managed = function[i].managed
      /\ model'.exists = model.exists /\ model'.action = model.action
  <2>1. CASE EditModel
    BY <1>1, <2>1 DEF EditModel, Edit, Model
  <2>2. ASSUME NEW o \in Objects, EditFunction(o)
        PROVE  /\ sync' = sync /\ model' = model
               /\ \A i \in Ids : /\ function'[i].exists = function[i].exists
                                 /\ function'[i].active = function[i].active
                                 /\ function'[i].current = function[i].current
                                 /\ function'[i].managed = function[i].managed
    <3>1. function' = [function EXCEPT ![o] = [function[o] EXCEPT !.other = edits.count + 1]]
      BY <2>2 DEF EditFunction
    <3>2. \A i \in Ids : function'[i] = IF i = o THEN [function[i] EXCEPT !.other = edits.count + 1]
                                                 ELSE function[i]
      BY <1>1, <3>1
    <3>3. \A i \in Ids : function[i] \in Function
      BY <1>1
    <3> QED
      BY <2>2, <3>2, <3>3 DEF EditFunction, Edit, Function
  <2> QED
    BY <2>1, <2>2
<1>3. UpToDate' = UpToDate
  BY <1>2 DEF UpToDate, Managed
<1>4. ASSUME NEW s \in Syncs PROVE AloneInv(s)' /\ FreshInv(s)'
  <2>1. AloneInv(s) /\ FreshInv(s) /\ (sync[s].f \in Ids)
    BY DEF IInv, TypeOK, Sync, ConvergeInv
  <2>2. AloneInv(s)'
    BY <1>2, <2>1 DEF AloneInv, InLoop
  <2>3. FreshInv(s)'
    BY <1>2, <1>3, <2>1 DEF FreshInv
  <2> QED
    BY <2>2, <2>3
<1>5. ActiveInv'
  BY <1>2 DEF ConvergeInv, ActiveInv
<1> QED
  BY <1>4, <1>5 DEF ConvergeInv

\* Whatever was left behind, one run that nobody disturbs brings everything up to
\* date, and over what is up to date it writes nothing (ConvergesAlone, run()).
THEOREM ConvergesUndisturbed == Spec => []ConvergesAlone
<1>1. Init => ConvergeInv
  <2> SUFFICES ASSUME Init PROVE ConvergeInv
    OBVIOUS
  <2>1. \A i \in Ids : function[i].active => function[i].exists
    BY DEF Init, NoFunction
  <2>2. \A s \in Syncs : sync[s].step = "off"
    BY DEF Init, Idle
  <2> QED
    BY <2>1, <2>2 DEF ConvergeInv, ActiveInv, AloneInv, FreshInv, InLoop
<1>2. IInv /\ ConvergeInv /\ [Next]_vars => ConvergeInv'
  <2> SUFFICES ASSUME IInv, ConvergeInv, [Next]_vars PROVE ConvergeInv'
    OBVIOUS
  <2>1. ASSUME NEW s \in Syncs, Run(s) PROVE ConvergeInv'
    BY <2>1, StartConverge, ExportConverge, KeepSourceConverge, SourceConverge,
       ReadValvesConverge, WriteValvesConverge, ToggleConverge, ReadModelConverge,
       KeepModelConverge, WriteModelConverge, FailuresConverge DEF Run
  <2>2. CASE EditModel \/ \E o \in Objects : EditFunction(o)
    BY <2>2, EditConverge
  <2>3. CASE UNCHANGED vars
    BY <2>3 DEF vars, ConvergeInv, ActiveInv, AloneInv, FreshInv, UpToDate, Managed
  <2> QED
    BY <2>1, <2>2, <2>3 DEF Next
<1>3. IInv /\ ConvergeInv => ConvergesAlone
  <2> SUFFICES ASSUME IInv, ConvergeInv, NEW s \in Syncs, At(s, "done"), sync[s].alone
               PROVE  UpToDate /\ (sync[s].fresh => sync[s].writes = 0)
    BY DEF ConvergesAlone
  <2> QED
    BY DEF IInv, ConvergeInv, Progress, AloneInv, FreshInv, UpToDate, At
<1> QED
  BY <1>1, <1>2, <1>3, SyncInvariant, PTL DEF Spec

===============================================================================
