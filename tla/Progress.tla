------------------------------- MODULE Progress -------------------------------
(***************************************************************************)
(* /aidlc-progress: the dashboard of all units, computed on main from the  *)
(* state files on the units' branches and from the dependency document.    *)
(* The actions are what the other commands do to those files; the          *)
(* dashboard itself changes nothing and is a set of operators.             *)
(***************************************************************************)
EXTENDS Naturals, FiniteSets

CONSTANTS
  Described,      \* the units described under inception/units
  Stranger    \* a name in the dependency document that is no unit's

ASSUME ProgressAssumption == IsFiniteSet(Described) /\ Stranger \notin Described

VARIABLES
  blockedBy,  \* what is read of unit-of-work-dependency.md, which no command changes
  files       \* what git show finds of each unit: its branch and its two state files

progressVars == <<blockedBy, files>>

\* The document holds a matrix, sentences, or both.  noise: it also names the
\* unit itself and a name that is no unit's.  suffix: the pairs of units of which
\* the first one's name ends in "-" and the second one's name.
Pairs == {p \in Described \X Described : p[1] # p[2]}
Documents ==
  [form: {"none"}, edges: {{}}, noise: {FALSE}, suffix: {{}}]
  \cup [form: {"matrix", "both"}, edges: SUBSET Pairs, noise: BOOLEAN, suffix: {{}}]
  \cup [form: {"prose"}, edges: SUBSET Pairs, noise: BOOLEAN, suffix: {{}} \cup {{p} : p \in Pairs}]

StageNames == {"units-generation", "functional-design", "systems-design", "code-generation", "build-and-test"}
Nowhere == [branch |-> "none", inception |-> FALSE, construction |-> "none"]

-----------------------------------------------------------------------------
\* Reading the dependencies: of each unit, those it is blocked by.

Written(document) ==
  document.edges \cup IF document.noise
                      THEN {p \in Described \X (Described \cup {Stranger}) : p[2] \in {p[1], Stranger}}
                      ELSE {}

parseMatrixTableDependencies(document) ==
  [u \in Described |-> {v \in Described : v # u /\ <<u, v>> \in Written(document)}]

\* \b lets a sentence about "web-api" count for the unit "api" as well.
parseEnglishProseDependencies(document) ==
  [u \in Described |-> {v \in Described : v # u /\ \E w \in Described :
                      /\ <<w, v>> \in Written(document)
                      /\ w = u \/ <<w, u>> \in document.suffix}]

\* With a matrix the sentences are not read.
parseDependencies(document) ==
  CASE document.form \in {"matrix", "both"} -> parseMatrixTableDependencies(document)
    [] document.form = "prose" -> parseEnglishProseDependencies(document)
    [] OTHER -> [u \in Described |-> {}]

ProgressInit ==
  /\ blockedBy \in {parseDependencies(document) : document \in Documents}
  /\ files = [u \in Described |-> Nowhere]

-----------------------------------------------------------------------------
\* Reading the units.

\* A live branch wins over the archives; the construction state file wins over
\* the inception's.
readUnitState(u) ==
  LET f == files[u]
  IN IF f.branch = "none" THEN "NO_BRANCH"
     ELSE IF f.branch = "archived" THEN "RELEASED"
     ELSE IF f.construction # "none" THEN f.construction
     ELSE IF f.inception THEN "units-generation" ELSE "NO_STATE"

Triple(d, c, t) == [design |-> d, code |-> c, test |-> t]
STAGE_TO_TRIPLE ==
  [s \in StageNames |-> CASE s = "units-generation" -> Triple("-", "-", "-")
                      [] s = "code-generation" -> Triple("done", "wip", "-")
                      [] s = "build-and-test" -> Triple("done", "done", "wip")
                      [] OTHER -> Triple("wip", "-", "-")]

\* "CORRUPT": unreadable, no JSON, or of no known stage.
classifyStage(state) ==
  CASE state \in {"RELEASED", "COMPLETE"} -> Triple("done", "done", "done")
    [] state \in {"NO_BRANCH", "NO_STATE"} -> Triple("-", "-", "-")
    [] state = "CORRUPT" -> Triple("?", "?", "?")
    [] OTHER -> STAGE_TO_TRIPLE[state]
classification == [u \in Described |-> classifyStage(readUnitState(u))]

-----------------------------------------------------------------------------
\* The dashboard.

\* Mutant: the cap on the rounds counts one too few.
Rounds_Short == Cardinality(Described) - 1

\* The cap on the rounds.
Rounds == Cardinality(Described) + 2

\* Mutant: one blocker placed is enough.
computeBatches_AnyBlocker ==
  LET placed[n \in 0..Rounds] ==
        IF n = 0 THEN {}
        ELSE LET before == placed[n - 1]
             IN before \cup {u \in Described : blockedBy[u] = {} \/ blockedBy[u] \cap before # {}}
  IN [waves |-> [n \in 1..Rounds |-> placed[n] \ placed[n - 1]], cycleBroken |-> Described \ placed[Rounds]]

computeBatches ==
  LET placed[n \in 0..Rounds] ==
        IF n = 0 THEN {}
        ELSE LET before == placed[n - 1] IN before \cup {u \in Described : blockedBy[u] \subseteq before}
  IN [waves |-> [n \in 1..Rounds |-> placed[n] \ placed[n - 1]], cycleBroken |-> Described \ placed[Rounds]]

Phases == <<"design", "code", "test">>

\* BLOCKED outranks PARTIAL.
derivePhaseStatus(cs, phase) ==
  LET column == {cs[u][phase] : u \in Described}
      blockers == {b \in Described : cs[b][phase] # "done" /\
                                 \E u \in Described : cs[u][phase] = "-" /\ b \in blockedBy[u]}
  IN [status |-> CASE Described # {} /\ column = {"done"} -> "DONE"
                   [] blockers # {} -> "BLOCKED"
                   [] blockers = {} /\ column \cap {"done", "wip"} # {} -> "PARTIAL"
                   [] OTHER -> "READY",
      blockers |-> blockers]

\* Mutant: a blocker counts until it is done altogether.
renderDashboardRow_Altogether(cs, phase, u) ==
  IF cs[u][phase] # "-" THEN {} ELSE {b \in blockedBy[u] : cs[b].test # "done"}

\* The row of a unit in the block of a phase.
renderDashboardRow(cs, phase, u) ==
  IF cs[u][phase] # "-" THEN {} ELSE {b \in blockedBy[u] : cs[b][phase] # "done"}

\* Mutant: only a released unit is done.
Done_Released(cs, u) == readUnitState(u) = "RELEASED"

Done(cs, u) == cs[u] = Triple("done", "done", "done")

aggregateCounts(cs) ==
  LET finished == {u \in Described : Done(cs, u)}
      wip == {u \in Described \ finished : \E i \in DOMAIN Phases : cs[u][Phases[i]] = "wip"}
  IN [done |-> Cardinality(finished), wip |-> Cardinality(wip),
      remaining |-> Cardinality(Described \ (finished \cup wip)),
      released |-> Cardinality({u \in Described : readUnitState(u) = "RELEASED"})]

\* The phase a unit is listed under is the last one it has begun.
bucketByPhase(cs) ==
  LET Begun(u, phase) == cs[u][phase] \in {"wip", "done"}
      BucketOf(u) == IF readUnitState(u) = "RELEASED" THEN "Released"
                     ELSE IF Begun(u, "test") THEN "Test"
                     ELSE IF Begun(u, "code") THEN "Code"
                     ELSE IF Begun(u, "design") THEN "Design" ELSE "Pending"
  IN [b \in {"Design", "Code", "Test", "Released", "Pending"} |-> {u \in Described : BucketOf(u) = b}]

-----------------------------------------------------------------------------
\* What the other commands do to the files of a unit.

BranchAppears(u) ==
  /\ files[u].branch # "live"
  /\ files' = [files EXCEPT ![u] = [Nowhere EXCEPT !.branch = "live"]]
  /\ UNCHANGED blockedBy

BeginInception(u) ==
  /\ files[u].branch = "live" /\ files[u].construction = "none" /\ ~files[u].inception
  /\ files' = [files EXCEPT ![u].inception = TRUE]
  /\ UNCHANGED blockedBy

After == [s \in StageNames |-> CASE s = "units-generation" -> {"functional-design", "systems-design"}
                             [] s = "functional-design" -> {"systems-design"}
                             [] s = "systems-design" -> {"code-generation"}
                             [] s = "code-generation" -> {"build-and-test", "functional-design"}
                             [] OTHER -> {"COMPLETE", "functional-design"}]

\* The next stage, or the first again by a redesign.
Advance(u, next) ==
  /\ readUnitState(u) \in StageNames /\ next \in After[readUnitState(u)]
  /\ files' = [files EXCEPT ![u].construction = next]
  /\ UNCHANGED blockedBy

\* A build and test that passes removes the construction state.
ClearState(u) ==
  /\ files[u].construction \in {"build-and-test", "COMPLETE"}
  /\ files' = [files EXCEPT ![u].construction = "none", ![u].inception = FALSE]
  /\ UNCHANGED blockedBy

Corrupt(u) ==
  /\ readUnitState(u) \in StageNames /\ files' = [files EXCEPT ![u].construction = "CORRUPT"]
  /\ UNCHANGED blockedBy

ReleaseUnit(u) ==
  /\ readUnitState(u) = "NO_STATE" /\ files' = [files EXCEPT ![u] = [Nowhere EXCEPT !.branch = "archived"]]
  /\ UNCHANGED blockedBy

ProgressNext ==
  \E u \in Described :
    \/ BranchAppears(u) \/ BeginInception(u) \/ ClearState(u) \/ Corrupt(u) \/ ReleaseUnit(u)
    \/ \E next \in StageNames \cup {"COMPLETE"} : Advance(u, next)

ProgressSpec == ProgressInit /\ [][ProgressNext]_progressVars

-----------------------------------------------------------------------------
\* Each unit stands in the first wave its blockers allow: they are all in
\* earlier waves, and one of them in the wave just before.
WavesAreEarliest ==
  LET waves == computeBatches.waves
  IN \A n \in DOMAIN waves : \A u \in waves[n] :
       /\ \A b \in blockedBy[u] : \E k \in 1..(n - 1) : b \in waves[k]
       /\ n > 1 => blockedBy[u] \cap waves[n - 1] # {}

\* The units left out of the waves, and named as "Cycle-broken", are those on
\* a dependency cycle or behind one: the members of the sets in which every
\* unit is blocked by another of the set.
CyclesAreNamed ==
  computeBatches.cycleBroken =
    UNION {C \in SUBSET Described : \A u \in C : blockedBy[u] \cap C # {}}

\* The counts in the head of the dashboard, computed from the classifications
\* in a loop of their own, agree with the table of units by phase below it.
CountsAgreeWithTable ==
  LET counts == aggregateCounts(classification)
      In(b) == Cardinality(bucketByPhase(classification)[b])
  IN /\ In("Released") = counts.released /\ In("Pending") = counts.remaining
     /\ In("Design") + In("Code") + In("Test") = counts.wip + counts.done - counts.released

\* A phase is reported BLOCKED exactly when a row of its table is, and the
\* blockers it names lead somewhere: unless there is a dependency cycle, work
\* on one of them is not itself blocked.
BlockedPhasesHaveAWayOut ==
  LET Row(i, u) == renderDashboardRow(classification, Phases[i], u)
  IN \A i \in DOMAIN Phases :
       LET phase == derivePhaseStatus(classification, Phases[i])
       IN /\ phase.status = "BLOCKED" <=> \E u \in Described : Row(i, u) # {}
          /\ phase.status = "BLOCKED" /\ computeBatches.cycleBroken = {}
               => \E b \in phase.blockers : Row(i, b) = {}
=============================================================================
