----------------------------- MODULE MCScaffold -----------------------------
(***************************************************************************)
(* The commands of the development scaffold: a behaviour is one of         *)
(* Escalation, FullRestart, UnitWorkflow, AuditReview or Progress, so      *)
(* their state spaces add up.                                              *)
(***************************************************************************)
EXTENDS Escalation, FullRestart, UnitWorkflow, AuditReview, Progress

VARIABLE tool  \* which of them this behaviour is about

\* Descriptions are told apart and nothing else.
Symmetry == Permutations(Descriptions)

allVars == <<escalationVars, restartVars, workflowVars, auditVars, progressVars, tool>>

\* The machines that stand still are in one initial state each.
MCInit ==
  /\ tool \in {"escalation", "restart", "advice", "requests", "audit", "progress"}
  /\ EscalationInit /\ RestartInit /\ WorkflowInit /\ AuditInit /\ ProgressInit
  /\ tool # "restart" => stateFile
  /\ tool # "progress" => blockedBy = [u \in Described |-> {}]

\* Bound: in a behaviour about advice one description is asked for, no write
\* fails, no milestone ends and the plan lies in the project's state file; in one
\* about requests nothing is skipped, by a plan in the unit's file, markers stay
\* whole, and main merges without a question.
Advised ==
  /\ project'.state = project'.units
  /\ \A u \in Roster : /\ unit'[u].flat = Nothing /\ wanted'[u].cut = {}
                       /\ Cardinality({wanted'[u].change, wanted'[u].redesign} \ {Nothing}) <= 1
Requested ==
  /\ ~project'.skipped
  /\ \A u \in Roster : /\ unit'[u].inception => unit'[u].flat = {}
                       /\ unit'[u].marker # "corrupt" /\ unit'[u].merge = "clean" /\ ~unit'[u].sync

MCNext ==
  \/ tool = "escalation" /\ EscalationNext
     /\ UNCHANGED <<restartVars, workflowVars, auditVars, progressVars, tool>>
  \/ tool = "restart" /\ RestartNext
     /\ UNCHANGED <<escalationVars, workflowVars, auditVars, progressVars, tool>>
  \/ /\ WorkflowNext
     /\ (tool = "advice" /\ Advised) \/ (tool = "requests" /\ Requested)
     /\ UNCHANGED <<escalationVars, restartVars, auditVars, progressVars, tool>>
  \/ tool = "audit" /\ AuditNext
     /\ UNCHANGED <<escalationVars, restartVars, workflowVars, progressVars, tool>>
  \/ tool = "progress" /\ ProgressNext
     /\ UNCHANGED <<escalationVars, restartVars, workflowVars, auditVars, tool>>

MCSpec == MCInit /\ [][MCNext]_allVars
=============================================================================
