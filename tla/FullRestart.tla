------------------------------ MODULE FullRestart ------------------------------
(***************************************************************************)
(* A full restart of an inception stage (runFullRestartMode of             *)
(* escalate-fix.js): the artifacts of the completed downstream stages are  *)
(* renamed to backups one by one, their rows in aidlc-state.md reset,      *)
(* their plan files unchecked, the archive recorded in audit.md and the    *)
(* stage's cluster dispatched.  Any step may be the last one before the    *)
(* process dies; the next call tells a restart to continue from a new one  *)
(* by the audit log and the backups alone.                                 *)
(***************************************************************************)
EXTENDS Naturals, FiniteSets

CONSTANT Stages    \* the last inception stage; the stages are 1..Stages in STAGE_ORDER

ASSUME RestartAssumption == Stages \in Nat \ {0}

VARIABLES
  art,       \* the stages whose artifact is there
  checked,   \* the stages whose row in aidlc-state.md is checked
  planned,   \* the stages checked off in the plan files
  backup,    \* the stages with a backup of their artifact
  block,     \* the youngest Restart Archive block of audit.md: "none", "recent" or "old"
  stateFile, \* aidlc-state.md exists
  chosen,    \* history: the stages restarted so far
  restart    \* the running restart: its next step, its stage, what it has archived

restartVars == <<art, checked, planned, backup, block, stateFile, chosen, restart>>

STAGE_ORDER == 1..Stages
downstreamStages(s) == {d \in STAGE_ORDER : d > s}

NoRestart == [pc |-> "idle", stage |-> 0, archived |-> {}]

RestartInit ==
  /\ art = STAGE_ORDER /\ planned = STAGE_ORDER /\ backup = {}
  /\ stateFile \in BOOLEAN /\ checked = IF stateFile THEN STAGE_ORDER ELSE {}
  /\ block = "none" /\ chosen = {} /\ restart = NoRestart

\* Mutant: backups alone make a continuation.
detectContinuationState_Backups(s) ==
  IF backup \cap downstreamStages(s) # {} THEN "continuation" ELSE "fresh"

detectContinuationState(s) ==
  LET recent == block = "recent"
      backups == backup \cap downstreamStages(s) # {}
  IN IF recent /\ backups THEN "continuation"
     ELSE IF ~recent /\ ~backups THEN "fresh" ELSE "mixed"

\* What a fresh restart still has to rename; without a state file every artifact counts.
ToArchive(s) == {d \in downstreamStages(s) \cap art : stateFile => d \in checked}

-----------------------------------------------------------------------------
BeginRestart(s) ==
  /\ restart.pc = "idle" /\ detectContinuationState(s) # "mixed"
  /\ chosen' = chosen \cup {s}
  /\ restart' = [pc |-> IF detectContinuationState(s) = "fresh" THEN "archive" ELSE "dispatch",
                 stage |-> s, archived |-> {}]
  /\ UNCHANGED <<art, checked, planned, backup, block, stateFile>>

\* renameSync of the next downstream artifact in order.
ArchiveNext ==
  /\ restart.pc = "archive"
  /\ \E d \in ToArchive(restart.stage) :
       /\ \A e \in ToArchive(restart.stage) : d <= e
       /\ art' = art \ {d} /\ backup' = backup \cup {d}
       /\ restart' = [restart EXCEPT !.archived = @ \cup {d}]
  /\ UNCHANGED <<checked, planned, block, stateFile, chosen>>

ResetRows ==
  /\ restart.pc = "archive" /\ ToArchive(restart.stage) = {}
  /\ checked' = checked \ restart.archived
  /\ restart' = [restart EXCEPT !.pc = "plans"]
  /\ UNCHANGED <<art, planned, backup, block, stateFile, chosen>>

ClearPlans ==
  /\ restart.pc = "plans"
  /\ planned' = planned \ restart.archived
  /\ restart' = [restart EXCEPT !.pc = IF restart.archived = {} THEN "dispatch" ELSE "block"]
  /\ UNCHANGED <<art, checked, backup, block, stateFile, chosen>>

RecordArchive ==
  /\ restart.pc = "block" /\ block' = "recent"
  /\ restart' = [restart EXCEPT !.pc = "dispatch"]
  /\ UNCHANGED <<art, checked, planned, backup, stateFile, chosen>>

DispatchRestart ==
  /\ restart.pc = "dispatch" /\ restart' = NoRestart
  /\ UNCHANGED <<art, checked, planned, backup, block, stateFile, chosen>>

RestartDies ==
  /\ restart.pc # "idle" /\ restart' = NoRestart
  /\ UNCHANGED <<art, checked, planned, backup, block, stateFile, chosen>>

-----------------------------------------------------------------------------
\* A cluster completes the first stage whose row is not checked.
CompleteStage(s) ==
  /\ restart.pc = "idle" /\ stateFile
  /\ s \notin checked /\ \A e \in STAGE_ORDER : e < s => e \in checked
  /\ art' = art \cup {s} /\ checked' = checked \cup {s} /\ planned' = planned \cup {s}
  /\ UNCHANGED <<backup, block, stateFile, chosen, restart>>

DayPasses ==
  /\ block = "recent" /\ restart.pc = "idle" /\ block' = "old"
  /\ UNCHANGED <<art, checked, planned, backup, stateFile, chosen, restart>>

\* "Manual cleanup required": the engineer moves the backups of a stage away.
CleanUp(s) ==
  /\ restart.pc = "idle" /\ s \in backup /\ backup' = backup \ {s}
  /\ UNCHANGED <<art, checked, planned, block, stateFile, chosen, restart>>

RestartNext ==
  \/ \E s \in STAGE_ORDER : BeginRestart(s) \/ CompleteStage(s) \/ CleanUp(s)
  \/ ArchiveNext \/ ResetRows \/ ClearPlans \/ RecordArchive \/ DispatchRestart \/ RestartDies \/ DayPasses

RestartSpec == RestartInit /\ [][RestartNext]_restartVars

-----------------------------------------------------------------------------
\* Every variable stays in its set; only a running restart has archived stages.
RestartTypeOK ==
  /\ art \subseteq STAGE_ORDER /\ checked \subseteq STAGE_ORDER /\ planned \subseteq STAGE_ORDER
  /\ backup \subseteq STAGE_ORDER /\ chosen \subseteq STAGE_ORDER
  /\ block \in {"none", "recent", "old"} /\ stateFile \in BOOLEAN
  /\ \/ restart = NoRestart
     \/ /\ restart \in [pc: {"archive", "plans", "block", "dispatch"},
                        stage: STAGE_ORDER, archived: SUBSET STAGE_ORDER]
        /\ restart.archived \subseteq downstreamStages(restart.stage)

\* Stages renamed away whose row still says they are complete.
HalfRestarted(s) == {d \in downstreamStages(s) : d \in (backup \cap checked) \ art}

Dispatching == restart.pc = "dispatch"

\* A restart cut off between its renames and its audit block is told from a
\* whole one: no cluster is dispatched over a downstream stage that is
\* archived but still counts as completed, as long as every restart so far
\* chose the same stage.
HalfRestartsStayUndispatched ==
  Dispatching /\ Cardinality(chosen) = 1 => HalfRestarted(restart.stage) = {}
=============================================================================
