------------------------------- MODULE ChatTurn -------------------------------
(***************************************************************************)
(* A chat turn and the Save to Knowledge button of the message it leaves:  *)
(* the action starts from the files that the turn attached.                *)
(***************************************************************************)
EXTENDS PipeTurn

CONSTANTS
  Report,       \* the name "report.md"
  Collections,  \* Knowledge collections that exist, or may be created
  Existing,     \* those that exist, are writable and not external
  NoTarget,     \* what a closed or blank dialog answers
  MaxSaves      \* bound: how often the button is pressed

ASSUME SaveAssumption ==
  /\ Report \in Artifacts
  /\ Existing \subseteq Collections
  /\ NoTarget \notin Collections
  /\ MaxSaves \in Nat

VARIABLES save, knowledge, stored, presses

Save == INSTANCE SaveAction WITH attached <- chat.files

vars == <<pvars, save, knowledge, stored, presses>>

ChatInit == Init /\ Save!SaveInit

Turn == TurnNext /\ UNCHANGED <<save, knowledge, stored, presses>>

\* The button appears when the message is complete.
SaveReport ==
  /\ At("ended")
  /\ UNCHANGED <<pipe, outbox, chat, late, stops>>
  /\ Save!SaveNext

Next == Turn \/ SaveReport

Spec == ChatInit /\ [][Next]_vars /\ TurnFairness

------------------------------------------------------------------------------

\* Both type invariants.
TypeOK == TurnTypeOK /\ Save!SaveTypeOK

\* Saving is sound in whatever state the turn left: collections receive only the
\* whole report, one copy of an attached one, and none is created for nothing.
SavesAreSound ==
  /\ Save!SavedReportIsWhole
  /\ Save!OneCopyOfAttached
  /\ Save!NoEmptyCollection
===============================================================================
