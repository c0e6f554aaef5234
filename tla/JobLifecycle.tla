----------------------------- MODULE JobLifecycle -----------------------------
(***************************************************************************)
(* What the service promises about one research job, with no tokens,       *)
(* leases, clocks, listings or events: the user submits it, it is worked   *)
(* on in at most MaxRuns research runs, and it ends exactly once.          *)
(***************************************************************************)
EXTENDS Naturals

CONSTANTS
  Jobs,     \* job ids
  MaxRuns   \* how often research may be started for a job

VARIABLES
  phase,    \* where each job stands
  begun,    \* whether the present assignment has started its research run
  runs      \* research runs started so far

lvars == <<phase, begun, runs>>

Phases == {"none", "queued", "assigned", "stopping",
           "succeeded", "failed", "cancelled"}

Init ==
  /\ phase = [j \in Jobs |-> "none"]
  /\ begun = [j \in Jobs |-> FALSE]
  /\ runs = [j \in Jobs |-> 0]

Move(j, from, to) ==
  /\ phase[j] = from
  /\ phase' = [phase EXCEPT ![j] = to]

Submit(j) == Move(j, "none", "queued") /\ UNCHANGED <<begun, runs>>

Assign(j) == Move(j, "queued", "assigned") /\ UNCHANGED <<begun, runs>>

Begin(j) ==
  /\ phase[j] = "assigned"
  /\ ~begun[j]
  /\ runs[j] < MaxRuns
  /\ begun' = [begun EXCEPT ![j] = TRUE]
  /\ runs' = [runs EXCEPT ![j] = @ + 1]
  /\ UNCHANGED phase

\* The assignment is taken back; a later one starts from scratch.
GiveBack(j) ==
  /\ Move(j, "assigned", "queued")
  /\ begun' = [begun EXCEPT ![j] = FALSE]
  /\ UNCHANGED runs

Succeed(j) ==
  /\ begun[j]
  /\ Move(j, "assigned", "succeeded")
  /\ UNCHANGED <<begun, runs>>

Fail(j) == Move(j, "assigned", "failed") /\ UNCHANGED <<begun, runs>>

AskToStop(j) == Move(j, "assigned", "stopping") /\ UNCHANGED <<begun, runs>>

\* A queued job is cancelled at once, a stopping one when its runner is gone
\* or agrees, and a begun one when its runner is itself told to terminate.
Cancel(j) ==
  /\ \/ Move(j, "queued", "cancelled")
     \/ Move(j, "stopping", "cancelled")
     \/ begun[j] /\ Move(j, "assigned", "cancelled")
  /\ UNCHANGED <<begun, runs>>

Next ==
  \E j \in Jobs :
    \/ Submit(j) \/ Assign(j) \/ Begin(j) \/ GiveBack(j)
    \/ Succeed(j) \/ Fail(j) \/ AskToStop(j) \/ Cancel(j)

Spec == Init /\ [][Next]_lvars
===============================================================================
