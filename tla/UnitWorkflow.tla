----------------------------- MODULE UnitWorkflow -----------------------------
(***************************************************************************)
(* The development scaffold's unit workflow: the preflights that let a     *)
(* slash command start, the files the commands leave, and /aidlc-resume,   *)
(* which reads those files and recommends the next command.  The clusters  *)
(* of agents a command dispatches are not part of the repository's code;   *)
(* what they write is taken from how the preflights and resume read it.    *)
(* A branch is left with its work committed, a marker perhaps excepted.    *)
(***************************************************************************)
EXTENDS Naturals, SequencesExt

CONSTANTS
  Size,          \* the units are 1..Size, in the order resume lists them
  Descriptions,  \* what the engineer asks for
  Nothing        \* no state file, no description, no plan

VARIABLES
  at,       \* the branch checked out: 0 is main
  project,  \* the inception documents at the project's root
  unit,     \* each unit's branch and what lies on it
  wanted    \* history: the last description a command accepted for each unit's request
            \* and redesign, and for which of them a later new file was left without one

workflowVars == <<at, project, unit, wanted>>

Roster == 1..Size
DesignDirs == {"functional-design", "nfr-requirements", "nfr-design", "infrastructure-design"}
\* What workflow planning may decide to skip: nothing, or all but the first stage.
Plans == {{}, DesignDirs \ {"functional-design"}}

Clusters == {"planner", "functional-designer", "systems-designer", "coder"}
Envelopes == {"none", "gate", "awaiting-build-test"}
Stages13 == {"inception", "design", "code"}
State == [cluster: Clusters, stage: Stages13, envelope: Envelopes]

ASSUME WorkflowAssumption ==
  /\ Size \in Nat \ {0}
  /\ Nothing \notin Descriptions /\ Nothing \notin Plans /\ Nothing \notin Stages13 /\ Nothing \notin State

EnvelopeOf(state) == IF state = Nothing THEN "none" ELSE state.envelope
StateFor(c, s, e) == [cluster |-> c, stage |-> s, envelope |-> e]

\* The latest question file of a kind.  Of a redesign's four answers resume
\* sees only the last: the pattern's \s* runs over the line ends of the others.
QuestionFile == [answers: {"no file", "none", "last only", "all"}, text: Descriptions \cup {Nothing}]
NoFile == [answers |-> "no file", text |-> Nothing]

\* The escalation marker of the working tree, "renewed" when the branch's last
\* commit holds an older one; and what that commit holds.
MarkerStates == {"none", "pending", "renewed", "corrupt"}
FiledStates == MarkerStates \ {"renewed"}
\* main merges into the unit, or clashes with it, or a merge has stopped (MERGE_HEAD).
MergeStates == {"clean", "clash", "stopped"}

NewUnit == [branch |-> "missing", inputs |-> FALSE, inception |-> FALSE, designed |-> {}, flat |-> Nothing,
            root |-> {}, built |-> FALSE, istate |-> Nothing, cstate |-> Nothing,
            completed |-> Nothing, change |-> NoFile, redesign |-> NoFile,
            sync |-> FALSE, marker |-> "none", filed |-> "none", merge |-> "clean", script |-> FALSE]

WorkflowInit ==
  /\ at = 0
  /\ project = [inputs |-> TRUE, units |-> FALSE, stories |-> FALSE, skipped |-> FALSE, state |-> FALSE]
  /\ unit = [u \in Roster |-> NewUnit]
  /\ wanted = [u \in Roster |-> [change |-> Nothing, redesign |-> Nothing, cut |-> {}]]

-----------------------------------------------------------------------------
\* The preflights.

OnUnit(u) == at = u /\ project.units

preflightProjectInception == at = 0 /\ project.inputs
preflightUnitInception(u) == OnUnit(u) /\ unit[u].inputs

isUserStoriesSkipped == project.skipped
preflightUnitDesign(u) == OnUnit(u) /\ (isUserStoriesSkipped \/ project.stories)

\* The unit's own flat state file, when there is one, hides the project's.
getSkippedStages(u) == IF unit[u].flat # Nothing THEN unit[u].flat ELSE unit[u].root
preflightUnitConstruct(u) == OnUnit(u) /\ DesignDirs \ getSkippedStages(u) \subseteq unit[u].designed

hasActiveRedesign(u) == unit[u].redesign.answers = "all"
preflightUnitRedesign(u) ==
  /\ OnUnit(u) /\ unit[u].cstate # Nothing
  /\ \/ unit[u].cstate.cluster = "coder"
     \/ unit[u].cstate.cluster # "planner" /\ hasActiveRedesign(u)

\* audit.md names an approved gate.
deriveActiveGateFromAudit(u) == unit[u].completed # Nothing
preflightChangeRequest(u) ==
  /\ OnUnit(u)
  /\ unit[u].istate # Nothing \/ unit[u].cstate # Nothing \/ deriveActiveGateFromAudit(u)

activeSyncQuestion(u) == unit[u].sync
auditLogClean(u) == unit[u].completed # Nothing
preflightUnitRelease(u) ==
  /\ OnUnit(u) /\ unit[u].cstate = Nothing /\ unit[u].marker = "none" /\ unit[u].merge = "clean"
  /\ ~activeSyncQuestion(u) /\ auditLogClean(u)

preflightNewMilestone == at = 0 /\ \A u \in Roster : unit[u].branch # "live"

-----------------------------------------------------------------------------
\* The commands.

ProjectInception(skip) ==
  /\ preflightProjectInception
  /\ project' = [project EXCEPT !.units = TRUE, !.stories = ~skip, !.skipped = skip, !.state = TRUE]
  /\ UNCHANGED <<at, unit, wanted>>

newMilestone ==
  /\ preflightNewMilestone
  /\ project' = [project EXCEPT !.state = FALSE]
  /\ UNCHANGED <<at, unit, wanted>>

\* Idempotent: what a later call finds is left alone.  An inception that is
\* over is not begun again, so the plan of a unit is made once.
scaffoldUnitInception(u) ==
  /\ preflightUnitInception(u) /\ unit[u].istate = Nothing /\ ~unit[u].inception
  /\ unit' = [unit EXCEPT ![u].istate = StateFor("planner", "inception", "gate")]
  /\ UNCHANGED <<at, project, wanted>>

UnitDesign(u) ==
  /\ preflightUnitDesign(u) /\ unit[u].cstate = Nothing
  /\ unit' = [unit EXCEPT ![u].cstate = StateFor("functional-designer", "design", "gate")]
  /\ UNCHANGED <<at, project, wanted>>

UnitConstruct(u) ==
  /\ preflightUnitConstruct(u)
  /\ EnvelopeOf(unit[u].cstate) = "none"
  /\ unit' = [unit EXCEPT ![u].cstate = StateFor("coder", "code", "gate")]
  /\ UNCHANGED <<at, project, wanted>>

\* A script that is missing fails without a run; one that fails leaves the
\* state for the next try; one that passes clears it.
runBuildAndTest(u, passes) ==
  /\ at = u /\ EnvelopeOf(unit[u].cstate) = "awaiting-build-test"
  /\ unit' = IF unit[u].script /\ passes
             THEN [unit EXCEPT ![u].cstate = Nothing, ![u].built = TRUE, ![u].completed = "code"]
             ELSE unit
  /\ UNCHANGED <<at, project, wanted>>

\* Mutant: a description goes only to a new file.
Persisted_NewFile(file, d, open, through) ==
  IF d = Nothing \/ open THEN file ELSE [answers |-> "none", text |-> IF through THEN d ELSE Nothing]

\* A description goes to the file that still waits for its answers, else to a
\* new one; without a description the latest file is read.  A new file is
\* written first: it has no description when the command is cut off there, or
\* writePersistedArg throws at a line end or a control character in it.
Persisted(file, d, open, through) ==
  IF d = Nothing \/ (open /\ ~through) THEN file
  ELSE [answers |-> IF open THEN file.answers ELSE "none", text |-> IF through THEN d ELSE Nothing]

OpenChange(u) == unit[u].change.answers = "none"
OpenRedesign(u) == unit[u].redesign.answers \in {"none", "last only"}
changeRequestFile(u, d, through) == Persisted(unit[u].change, d, OpenChange(u), through)
redesignFile(u, d, through) == Persisted(unit[u].redesign, d, OpenRedesign(u), through)

changeRequestDescriptionFallback(u, d) == IF d # Nothing THEN d ELSE unit[u].change.text
redesignDescriptionFallback(u, d) == IF d # Nothing THEN d ELSE unit[u].redesign.text

Remembered(kept, d, through) == IF d = Nothing \/ ~through THEN kept ELSE d
CutBy(cut, of, d, open, through) ==
  IF d = Nothing \/ (open /\ ~through) THEN cut ELSE IF through THEN cut \ {of} ELSE cut \cup {of}

\* What is remembered of a request, and of a redesign.
ChangeWanted(u, d, through) ==
  [wanted[u] EXCEPT !.change = Remembered(@, d, through),
                    !.cut = CutBy(@, "change", d, OpenChange(u), through)]
RedesignWanted(u, d, through) ==
  [wanted[u] EXCEPT !.redesign = Remembered(@, d, through),
                    !.cut = CutBy(@, "redesign", d, OpenRedesign(u), through)]

persistChangeRequestDescription(u, d, through) ==
  /\ preflightChangeRequest(u)
  /\ unit' = [unit EXCEPT ![u].change = changeRequestFile(u, d, through)]
  /\ wanted' = [wanted EXCEPT ![u] = ChangeWanted(u, d, through)]
  /\ UNCHANGED <<at, project>>

\* The pending markers are deleted, then the new one is written; one that cannot
\* be parsed stays beside it.
Escalated(u, written) ==
  IF unit[u].marker = "corrupt" THEN "corrupt"
  ELSE IF ~written THEN "none"
  ELSE IF unit[u].filed = "none" THEN "pending" ELSE "renewed"

\* Cut off before the markers, it is persistChangeRequestDescription.
preflightChangeRequestEscalate(u, d, written) ==
  /\ preflightChangeRequest(u) /\ changeRequestDescriptionFallback(u, d) # Nothing
  /\ unit' = [unit EXCEPT ![u].change = changeRequestFile(u, d, TRUE), ![u].marker = Escalated(u, written)]
  /\ wanted' = [wanted EXCEPT ![u] = ChangeWanted(u, d, TRUE)]
  /\ UNCHANGED <<at, project>>

persistUnitRedesignDescription(u, d, through) ==
  /\ preflightUnitRedesign(u)
  /\ d # Nothing \/ unit[u].redesign # NoFile
  /\ unit' = [unit EXCEPT ![u].redesign = redesignFile(u, d, through)]
  /\ wanted' = [wanted EXCEPT ![u] = RedesignWanted(u, d, through)]
  /\ UNCHANGED <<at, project>>

\* A fix on main takes the marker away, corrupt or not, before main is merged;
\* a merge that fails leaves MERGE_HEAD, one that succeeds may end in a question.
preflightUnitSync(u, fixed, asks) ==
  /\ OnUnit(u) /\ unit[u].merge # "stopped"
  /\ unit' = [unit EXCEPT ![u].marker = IF fixed THEN "none" ELSE @,
                          ![u].merge = IF @ = "clash" THEN "stopped" ELSE @,
                          ![u].sync = IF unit[u].merge = "clash" THEN @ ELSE asks]
  /\ UNCHANGED <<at, project, wanted>>

-----------------------------------------------------------------------------
\* The engineer, and the clusters between two commands.

\* git leaves neither a merge that stopped nor a committed marker that was
\* rewritten; a committed one that was deleted is back on return.
BranchMayBeLeft(u) ==
  /\ unit[u].merge # "stopped"
  /\ unit[u].filed = "none" \/ unit[u].marker \in {"none", unit[u].filed}
BranchLeft(u) == [unit[u] EXCEPT !.marker = IF unit[u].filed = "none" THEN @ ELSE unit[u].filed]

Checkout(b) ==
  /\ at # b /\ b \in {0} \cup {u \in Roster : unit[u].branch = "live"} /\ at' = b
  /\ at # 0 => BranchMayBeLeft(at)
  /\ unit' = IF at = 0 THEN unit ELSE [unit EXCEPT ![at] = BranchLeft(at)]
  /\ UNCHANGED <<project, wanted>>

CreateBranch(u) ==
  /\ at = 0 /\ project.units /\ unit[u].branch # "live"
  /\ at' = u /\ unit' = [unit EXCEPT ![u].branch = "live"]
  /\ UNCHANGED <<project, wanted>>

AuthorInputs(u) ==
  /\ at = u /\ ~unit[u].inputs /\ unit' = [unit EXCEPT ![u].inputs = TRUE]
  /\ UNCHANGED <<at, project, wanted>>

\* The engineer approves the planner's gate; the plan is in the unit's state
\* file, or only in the project's, and the orchestrator's state may stay.
ApproveInception(u, where, plan, kept) ==
  /\ at = u /\ EnvelopeOf(unit[u].istate) = "gate"
  /\ unit' = [unit EXCEPT ![u].istate = IF kept THEN [@ EXCEPT !.envelope = "none"] ELSE Nothing,
                          ![u].inception = TRUE,
                          ![u].completed = "inception",
                          ![u].flat = IF where = "flat" THEN plan ELSE @,
                          ![u].root = IF where = "root" THEN plan ELSE @]
  /\ UNCHANGED <<at, project, wanted>>

ApproveStage(u) ==
  /\ at = u /\ EnvelopeOf(unit[u].cstate) = "gate"
  /\ LET c == unit[u].cstate.cluster
         done == IF c = "functional-designer" THEN {"functional-design"}
                 ELSE DesignDirs \ {"functional-design"}
     IN unit' = IF c = "coder"
                THEN [unit EXCEPT ![u].cstate.envelope = "awaiting-build-test", ![u].script = TRUE]
                ELSE [unit EXCEPT ![u].designed = @ \cup (done \ getSkippedStages(u)),
                                  ![u].completed = "design",
                                  ![u].cstate = IF c = "functional-designer"
                                                THEN StateFor("systems-designer", "design", "gate")
                                                ELSE StateFor("systems-designer", "design", "none")]
  /\ UNCHANGED <<at, project, wanted>>

\* A redesign whose four answers are in rewinds the construction.
Rewind(u) ==
  /\ preflightUnitRedesign(u) /\ hasActiveRedesign(u) /\ unit[u].cstate.cluster = "coder"
  /\ unit' = [unit EXCEPT ![u].cstate = StateFor("functional-designer", "design", "gate")]
  /\ UNCHANGED <<at, project, wanted>>

AnswerChange(u) ==
  /\ at = u /\ unit[u].change.answers = "none"
  /\ unit' = [unit EXCEPT ![u].change.answers = "all"]
  /\ UNCHANGED <<at, project, wanted>>

AnswerRedesign(u, how) ==
  /\ at = u /\ unit[u].redesign.answers \in {"none", "last only"} /\ how # unit[u].redesign.answers
  /\ unit' = [unit EXCEPT ![u].redesign.answers = how]
  /\ UNCHANGED <<at, project, wanted>>

AnswerSync(u) ==
  /\ at = u /\ unit[u].sync
  /\ unit' = [unit EXCEPT ![u].sync = FALSE]
  /\ UNCHANGED <<at, project, wanted>>

\* Conflicts are resolved and committed, or the merge is aborted.
EndMerge(u, resolved) ==
  /\ at = u /\ unit[u].merge = "stopped"
  /\ unit' = [unit EXCEPT ![u].merge = IF resolved THEN "clean" ELSE "clash"]
  /\ UNCHANGED <<at, project, wanted>>

MainClashes(u) ==
  /\ unit[u].branch = "live" /\ unit[u].merge = "clean"
  /\ unit' = [unit EXCEPT ![u].merge = "clash"]
  /\ UNCHANGED <<at, project, wanted>>

CommitEscalation(u) ==
  /\ at = u /\ unit[u].merge # "stopped" /\ unit[u].marker # unit[u].filed
  /\ LET held == IF unit[u].marker = "renewed" THEN "pending" ELSE unit[u].marker
     IN unit' = [unit EXCEPT ![u].marker = held, ![u].filed = held]
  /\ UNCHANGED <<at, project, wanted>>

SpoilMarker(u) ==
  /\ at = u /\ unit[u].marker # "none"
  /\ unit' = [unit EXCEPT ![u].marker = "corrupt"]
  /\ UNCHANGED <<at, project, wanted>>

\* unit-release leaves the branch by a checkout of main, and renames it.
Release(u) ==
  /\ preflightUnitRelease(u)
  /\ at' = 0 /\ unit' = [unit EXCEPT ![u] = [BranchLeft(u) EXCEPT !.branch = "archived"]]
  /\ UNCHANGED <<project, wanted>>

UnitCommand(u) ==
  \/ scaffoldUnitInception(u) \/ UnitDesign(u) \/ UnitConstruct(u) \/ Release(u)
  \/ \E passes \in BOOLEAN : runBuildAndTest(u, passes)
  \/ \E d \in Descriptions \cup {Nothing}, through \in BOOLEAN :
       \/ persistChangeRequestDescription(u, d, through)
       \/ preflightChangeRequestEscalate(u, d, through)
       \/ persistUnitRedesignDescription(u, d, through)
  \/ \E fixed, asks \in BOOLEAN : preflightUnitSync(u, fixed, asks)

AgentStep(u) ==
  \/ \E where \in {"flat", "root"}, plan \in Plans, kept \in BOOLEAN :
       ApproveInception(u, where, plan, kept)
  \/ AuthorInputs(u) \/ ApproveStage(u) \/ Rewind(u) \/ AnswerChange(u) \/ AnswerSync(u)
  \/ (\E resolved \in BOOLEAN : EndMerge(u, resolved)) \/ MainClashes(u)
  \/ CommitEscalation(u) \/ SpoilMarker(u)
  \/ \E how \in {"last only", "all"} : AnswerRedesign(u, how)

WorkflowNext ==
  \/ \E skip \in BOOLEAN : ProjectInception(skip)
  \/ newMilestone
  \/ \E b \in Roster \cup {0} : Checkout(b)
  \/ \E u \in Roster : CreateBranch(u) \/ UnitCommand(u) \/ AgentStep(u)

WorkflowSpec == WorkflowInit /\ [][WorkflowNext]_workflowVars

-----------------------------------------------------------------------------
\* /aidlc-resume: which command to run next.

Advice(t, c) == [tier |-> t, command |-> c]

CLUSTER_TO_COMMAND ==
  [c \in Clusters |-> CASE c = "planner" -> "/aidlc-unit-inception"
                       [] c = "coder" -> "/aidlc-unit-construct"
                       [] OTHER -> "/aidlc-unit-design"]
\* Mutant: the last design cluster leads on to the construction.
resolveTier3Command_Onward(state) ==
  IF state.cluster = "systems-designer" THEN "/aidlc-unit-construct" ELSE CLUSTER_TO_COMMAND[state.cluster]

resolveTier3Command(state) == CLUSTER_TO_COMMAND[state.cluster]

AskKinds == <<"change-requests", "redesign", "sync">>
QUESTION_DIR_TO_COMMAND ==
  [k \in Range(AskKinds) |-> CASE k = "change-requests" -> "/aidlc-change-request"
                           [] k = "redesign" -> "/aidlc-unit-redesign"
                           [] OTHER -> "/aidlc-unit-sync"]
resolveTier2Command(kind) == QUESTION_DIR_TO_COMMAND[kind]

\* A file is pending when an answer line is empty, as far as the pattern sees.
Pending(u, kind) == CASE kind = "change-requests" -> unit[u].change.answers = "none"
                      [] kind = "redesign" -> unit[u].redesign.answers = "none"
                      [] OTHER -> unit[u].sync
findPendingQuestionFiles(u) == {n \in DOMAIN AskKinds : Pending(u, AskKinds[n])}

readBootstrapState(u) == IF unit[u].cstate # Nothing THEN unit[u].cstate ELSE unit[u].istate
readAidlcState(u) == unit[u].completed

\* The directories under aidlc-docs that hold documents: the design stages
\* write below construction/, where the preflight of the construction looks.
DocumentDirs(u) == (IF unit[u].inception THEN {"inception"} ELSE {})
                \cup (IF unit[u].built THEN {"construction"} ELSE {})
probeLifecycle(u) == [inception |-> "inception" \in DocumentDirs(u),
                      design |-> "design" \in DocumentDirs(u),
                      construct |-> "construction" \in DocumentDirs(u)]
NoLifecycle == [inception |-> FALSE, design |-> FALSE, construct |-> FALSE]

\* escalated: the marker that is read is there, and not resolved.
synthesizeRecommendation(u, escalated, lifecycle) ==
  LET state == readBootstrapState(u)
      envelope == EnvelopeOf(state)
      last == readAidlcState(u)
      pending == findPendingQuestionFiles(u)
      mismatch == state # Nothing /\ last # Nothing /\ state.stage # last
  IN IF escalated THEN Advice(1, "/aidlc-escalate-fix")
     ELSE IF pending # {} THEN Advice(2, resolveTier2Command(AskKinds[Min(pending)]))
     ELSE IF envelope # "none" THEN Advice(3, resolveTier3Command(state))
     ELSE IF mismatch THEN Advice(4, "investigate")
     ELSE IF lifecycle.inception /\ ~lifecycle.design THEN Advice(3, "/aidlc-unit-design")
     ELSE IF lifecycle.inception /\ ~lifecycle.construct THEN Advice(3, "/aidlc-unit-construct")
     ELSE Advice(5, "continue")

resumeFromUnitBranch(u) == synthesizeRecommendation(u, unit[u].marker # "none", probeLifecycle(u))

\* What the cross-branch report says of a unit: it reads the last commit.
reportOf(u) == [unit |-> u, status |-> unit[u].branch,
                advice |-> synthesizeRecommendation(u, unit[u].filed # "none", NoLifecycle)]

\* Mutant: the first live unit is named.
resumeFromMain_First(reports) == Head(SelectSeq(reports, LAMBDA r : r.status = "live"))

\* The first report of the highest priority wins; a unit without a branch is
\* named only when no unit is active.
resumeFromMain(reports) ==
  LET quiet == [unit |-> 0, status |-> "main", advice |-> Advice(5, "continue")]
      top[n \in 0..Len(reports)] ==
        IF n = 0 THEN [quiet EXCEPT !.advice.tier = 6]
        ELSE LET r == reports[n]
             IN IF r.status = "live" /\ r.advice.tier < top[n - 1].advice.tier THEN r ELSE top[n - 1]
      missing == {n \in DOMAIN reports : reports[n].status = "missing"}
  IN IF top[Len(reports)].advice.tier < 6 THEN top[Len(reports)]
     ELSE IF missing # {} THEN [reports[Min(missing)] EXCEPT !.advice = Advice(3, "/aidlc-unit-inception")]
     ELSE quiet

-----------------------------------------------------------------------------
\* Whether the preflight of a command accepts the unit, once its question file
\* is answered.  An escalate-fix is run on main: it reads the last commit of the
\* unit's branch, where every marker has to parse and one to be pending.  A sync
\* is accepted when its merge succeeds.
Accepts(c, u) ==
  CASE c = "/aidlc-unit-inception" -> preflightUnitInception(u)
    [] c = "/aidlc-unit-design" -> preflightUnitDesign(u)
    [] c = "/aidlc-unit-construct" -> preflightUnitConstruct(u)
    [] c = "/aidlc-change-request" -> preflightChangeRequest(u)
    [] c = "/aidlc-unit-redesign" ->
         OnUnit(u) /\ unit[u].cstate # Nothing /\ unit[u].cstate.cluster # "planner"
    [] c = "/aidlc-escalate-fix" ->
         project.units /\ unit[u].branch = "live" /\ BranchMayBeLeft(u) /\ unit[u].filed = "pending"
    [] c = "/aidlc-unit-sync" -> OnUnit(u) /\ unit[u].merge = "clean"
    [] c \in {"investigate", "continue"} -> TRUE

\* The command resume recommends on a unit's branch is one whose preflight
\* accepts the unit (a question file once it is answered).  It may refuse for
\* what resume does not read: a redesign nobody answered before the
\* construction ended, a marker that is corrupt or not the one committed, a
\* merge that stopped, or a main that clashes with the unit.
AdviceIsAccepted ==
  \A u \in Roster : at = u =>
    LET advice == resumeFromUnitBranch(u)
    IN \/ Accepts(advice.command, u)
       \/ advice.command = "/aidlc-unit-redesign" /\ unit[u].cstate = Nothing
       \/ /\ advice.command = "/aidlc-escalate-fix"
          /\ \/ unit[u].marker = "corrupt" \/ unit[u].marker # unit[u].filed
             \/ unit[u].merge = "stopped"
       \/ advice.command = "/aidlc-unit-sync" /\ unit[u].merge # "clean"

\* Re-run without a description, a change request or a redesign acts on the
\* last description a command accepted for it, however often the question file
\* was asked anew, answered or asked for again in between; or finds none, when
\* the latest file is one that was made for a description that never got there.
DescriptionsAreRecovered ==
  \A u \in Roster :
    /\ \/ changeRequestDescriptionFallback(u, Nothing) = wanted[u].change
       \/ changeRequestDescriptionFallback(u, Nothing) = Nothing /\ "change" \in wanted[u].cut
    /\ \/ redesignDescriptionFallback(u, Nothing) = wanted[u].redesign
       \/ redesignDescriptionFallback(u, Nothing) = Nothing /\ "redesign" \in wanted[u].cut

\* What the report may hold of one more unit.
Neighbours == [unit: {Size + 1}, status: {"missing", "live", "archived"},
               advice: {Advice(t, "any") : t \in {1, 3, 5}}]

\* Main's report names the most pressing need of the live units, wherever the
\* unit stands in the list: "Tier 1 on any unit beats Tier 2 on any other".
MainNamesTheMostPressing ==
  at = 0 /\ project.units =>
    \A other \in Neighbours :
      LET mine == [u \in Roster |-> reportOf(u)] IN
      \A reports \in {mine \o <<other>>, <<other>> \o mine} :
        LET active == {i \in DOMAIN reports : reports[i].status = "live"} IN
        \A i \in active : resumeFromMain(reports).advice.tier <= reports[i].advice.tier

=============================================================================
