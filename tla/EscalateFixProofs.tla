-------------------------- MODULE EscalateFixProofs -------------------------
(***************************************************************************)
(* Safety of the escalation cycle, for every set of units and requests and *)
(* every number of commits on main, and of the full restart that it or a   *)
(* human starts, below.                                                    *)
(***************************************************************************)
EXTENDS Escalation, FullRestart, FiniteSetTheorems, TLAPS

\* What the next step must find of a unit's marker, release and hint, or else the
\* lapse that excuses it.
MarkerKept(u) == \/ work[u] = asked[u]
                 \/ (cmd.op = "mark" /\ cmd.unit = u)
                 \/ "marker" \in lapses[u]
Clean(u) == /\ ~Open(u) \/ "marker" \in lapses[u]
            /\ u \in ahead \/ "diff" \in lapses[u]
            /\ u \notin restale \/ LapsedOf(u, HintLapses)
HintOwed(u) == \/ u \notin restale \/ u \in stale
               \/ (cmd.op = "hint" /\ cmd.unit = u)
               \/ LapsedOf(u, HintLapses)

\* A release under way found no open escalation, work to bring and no
\* construction older than a fix in place, and nothing changed since.
ReleaseIsClean ==
  \A u \in Units : cmd.op \in {"squash", "commit"} /\ cmd.unit = u => Clean(u)

\* A unit fixed in place has its hint, or is about to get it.
HintsAreOwed == \A u \in Units : HintOwed(u)

EscalationInv ==
  EscalationTypeOK /\ OpenEscalationsKeepTheirMarker /\ ReleaseIsClean /\ HintsAreOwed
-----------------------------------------------------------------------------
\* The types.

CommandOK(c) == \/ c = Idle \/ c \in [op: {"mark"}, unit: Units, req: Reqs]
                \/ c \in [op: {"hint", "squash", "commit", "archive"}, unit: Units, req: {None}]

\* What a step notes of a unit.
LEMMA Notes ==
  ASSUME EscalationTypeOK, NEW u \in Units
  PROVE  /\ \A l \in Lapses : Lapsed(u, l) =>
              /\ lapses' \in [Units -> SUBSET Lapses]
              /\ l \in lapses'[u]
              /\ \A v \in Units : lapses[v] \subseteq lapses'[v]
         /\ \A m : Mended(u, m) =>
              /\ lapses' \in [Units -> SUBSET Lapses]
              /\ \A v \in Units : \A l \in lapses[v] : l \notin m => l \in lapses'[v]
              /\ \A v \in Units : v # u => lapses'[v] = lapses[v]
<1> USE DEF EscalationTypeOK
<1>1. ASSUME NEW l \in Lapses, Lapsed(u, l)
      PROVE  /\ lapses' \in [Units -> SUBSET Lapses]
             /\ l \in lapses'[u]
             /\ \A v \in Units : lapses[v] \subseteq lapses'[v]
  BY <1>1 DEF Lapsed
<1>2. ASSUME NEW m, Mended(u, m)
      PROVE  /\ lapses' \in [Units -> SUBSET Lapses]
             /\ \A v \in Units : \A l \in lapses[v] : l \notin m => l \in lapses'[v]
             /\ \A v \in Units : v # u => lapses'[v] = lapses[v]
  BY <1>2 DEF Mended
<1> QED BY <1>1, <1>2

\* The names of the lapses differ.
LEMMA LapseNames == /\ HintLapses \subseteq Lapses /\ "marker" \in Lapses /\ "diff" \in Lapses
                    /\ "marker" \notin HintLapses /\ "diff" \notin HintLapses
                    /\ "hint cut" \in HintLapses /\ "hint failed" \in HintLapses
                    /\ "questions" \in HintLapses
  BY DEF Lapses, HintLapses

\* What a mended lapse leaves of the others.
LEMMA MendedKeeps ==
  ASSUME EscalationTypeOK, NEW u \in Units, NEW v \in Units
  PROVE  /\ Mended(u, {"diff"}) => \A l \in lapses[v] : l # "diff" => l \in lapses'[v]
         /\ Mended(u, {"marker"}) => \A l \in lapses[v] : l # "marker" => l \in lapses'[v]
         /\ Mended(u, HintLapses) => ("marker" \in lapses[v] => "marker" \in lapses'[v])
<1>1. ASSUME NEW m, Mended(u, m), NEW l \in lapses[v], l \notin m PROVE l \in lapses'[v]
  BY <1>1, Notes
<1> QED BY <1>1, LapseNames

\* What a command that runs says of its unit.
LEMMA Commands ==
  ASSUME NEW c, CommandOK(c)
  PROVE  /\ c.op # "idle" => c.unit \in Units
         /\ c.op = "mark" => c.req \in Reqs
         /\ c # Idle => c.op # "idle"
         /\ c = Idle => c.op = "idle"
  BY DEF CommandOK, Idle

LEMMA Runs ==
  ASSUME NEW u \in Units
  PROVE  /\ CommandOK(Idle)
         /\ \A r \in Reqs : CommandOK(Running("mark", u, r))
         /\ \A op \in {"hint", "squash", "commit", "archive"} : CommandOK(Running(op, u, None))
  BY DEF CommandOK, Running

LEMMA MarkerShape ==
  ASSUME NEW mk \in Markers, mk # None
  PROVE  mk.req \in Reqs /\ mk.since \in Nat
  BY DEF Markers, Marker

LEMMA LogGrows ==
  ASSUME log \in Seq(Commit), NEW c \in Commit
  PROVE  /\ Append(log, c) \in Seq(Commit)
         /\ Len(Append(log, c)) = Len(log) + 1
         /\ Append(log, c)[Len(log) + 1] = c
         /\ \A i \in DOMAIN log : i \in DOMAIN Append(log, c) /\ Append(log, c)[i] = log[i]
  OBVIOUS

LEMMA FixCommits ==
  ASSUME EscalationTypeOK, NEW u \in Units, NEW typed \in Typed(u), EscalateFixFinalize(u, typed)
  PROVE  \E c \in Commit : log' = Append(log, c) /\ c.kind = "fix"
<1> USE DEF EscalationTypeOK
<1> DEFINE req == Resolved(Resolved(typed, question.req), OnBranch(u))
<1>1. typed \in Reqs \cup {None} /\ OnBranch(u) \in Reqs \cup {None}
  BY MarkerShape DEF Typed, OnBranch
<1>2. req \in Reqs
  BY <1>1 DEF Resolved, EscalateFixFinalize
<1> DEFINE c == [kind |-> "fix", unit |-> u, req |-> req]
<1>3. c \in Commit /\ c.kind = "fix"
  BY <1>2 DEF Commit
<1>4. log' = Append(log, c)
  BY DEF EscalateFixFinalize
<1> QED BY <1>3, <1>4

LEMMA ReleaseCommits ==
  ASSUME EscalationTypeOK, CommitRelease
  PROVE  \E c \in Commit : log' = Append(log, c) /\ c.unit = cmd.unit
<1> DEFINE c == [kind |-> "release", unit |-> cmd.unit, req |-> None]
<1>1. cmd.unit \in Units
  BY Commands DEF CommandOK, EscalationTypeOK, CommitRelease
<1>2. c \in Commit /\ c.unit = cmd.unit
  BY <1>1 DEF Commit
<1>3. log' = Append(log, c)
  BY DEF CommitRelease
<1> QED BY <1>2, <1>3

LEMMA InitType == EscalationInit => EscalationTypeOK
<1> SUFFICES ASSUME EscalationInit PROVE EscalationTypeOK
  OBVIOUS
<1>1. work \in [Units -> Markers] /\ tree = work /\ asked = work
  BY DEF EscalationInit, Markers
<1>2. log \in Seq(Commit)
  BY DEF EscalationInit
<1>3. lapses \in [Units -> SUBSET Lapses]
  BY DEF EscalationInit
<1> QED BY <1>1, <1>2, <1>3 DEF EscalationInit, EscalationTypeOK

\* What the engineer and the agents do.
LEMMA TypeEngineer == EscalationTypeOK /\ EngineerStep => EscalationTypeOK'
<1> SUFFICES ASSUME EscalationTypeOK, EngineerStep PROVE EscalationTypeOK'
  OBVIOUS
<1> USE EscalationAssumption DEF EscalationTypeOK
<1>1. ASSUME NEW b \in Units \cup {"main"}, CheckoutBranch(b) PROVE EscalationTypeOK'
  <2>1. work' \in [Units -> Markers]
    BY <1>1 DEF CheckoutBranch, Leave
  <2> QED BY <1>1, <2>1 DEF CheckoutBranch, noteVars
<1>2. ASSUME NEW u \in Units, Construct(u) PROVE EscalationTypeOK'
  BY <1>2, Notes DEF Construct, unitVars, mainVars
<1>3. ASSUME NEW u \in Units, CommitQuestions(u) PROVE EscalationTypeOK'
  BY <1>3, Notes, LapseNames DEF CommitQuestions, unitVars, mainVars
<1>4. ASSUME NEW u \in Units, CommitMarker(u) PROVE EscalationTypeOK'
  BY <1>4 DEF CommitMarker, mainVars, noteVars
<1>5. ASSUME NEW u \in Units, AbortMerge(u) PROVE EscalationTypeOK'
  BY <1>5 DEF AbortMerge, unitVars, mainVars, noteVars
<1>6. ASSUME NEW u \in Units, ResetHard(u) PROVE EscalationTypeOK'
  BY <1>6, Notes, LapseNames DEF ResetHard, mainVars
<1>7. ASSUME NEW mode \in Modes, AnswerQuestion(mode) PROVE EscalationTypeOK'
  BY <1>7 DEF AnswerQuestion, unitVars, noteVars
<1>8. CASE DropQuestion
  BY <1>8 DEF DropQuestion, unitVars, noteVars
<1>9. CASE CutOff
  <2>1. cmd.unit \in Units
    BY <1>9, Commands DEF CutOff, Ready, CommandOK
  <2>2. lapses' \in [Units -> SUBSET Lapses]
    BY <1>9, <2>1, Notes, LapseNames DEF CutOff
  <2> QED BY <1>9, <2>2 DEF CutOff, unitVars, mainVars
<1> QED BY <1>1, <1>2, <1>3, <1>4, <1>5, <1>6, <1>7, <1>8, <1>9 DEF EngineerStep

\* What the commands on a unit's branch do.
LEMMA TypeUnit == EscalationTypeOK /\ UnitStep => EscalationTypeOK'
<1> SUFFICES ASSUME EscalationTypeOK, UnitStep PROVE EscalationTypeOK'
  OBVIOUS
<1> USE EscalationAssumption DEF EscalationTypeOK
<1>1. ASSUME NEW u \in Units, NEW r \in Reqs, BeginEscalate(u, r) PROVE EscalationTypeOK'
  BY <1>1 DEF BeginEscalate, mainVars, noteVars, Running, Markers
<1>2. CASE WriteEscalationMarker
  <2>1. cmd.unit \in Units /\ cmd.req \in Reqs
    BY <1>2, Commands DEF WriteEscalationMarker, CommandOK
  <2>2. [req |-> cmd.req, since |-> Len(log)] \in Markers
    BY <2>1 DEF Markers, Marker
  <2>3. lapses' \in [Units -> SUBSET Lapses]
    BY <1>2, <2>1, Notes DEF WriteEscalationMarker
  <2> QED BY <1>2, <2>1, <2>2, <2>3 DEF WriteEscalationMarker, mainVars
<1>3. ASSUME NEW u \in Units, NEW probed \in BOOLEAN, NEW conflict \in BOOLEAN,
             PreflightUnitSync(u, probed, conflict)
      PROVE  EscalationTypeOK'
  BY <1>3 DEF PreflightUnitSync, Swept, Markers, mainVars, noteVars
<1> QED BY <1>1, <1>2, <1>3 DEF UnitStep

\* What the fix commands do.
LEMMA TypeFix == EscalationTypeOK /\ FixStep => EscalationTypeOK'
<1> SUFFICES ASSUME EscalationTypeOK, FixStep PROVE EscalationTypeOK'
  OBVIOUS
<1> USE EscalationAssumption DEF EscalationTypeOK
<1>1. ASSUME NEW u \in Units, NEW typed \in Typed(u), NEW written \in BOOLEAN,
             PreflightEscalateFix(u, typed, written)
      PROVE  EscalationTypeOK'
  <2>1. typed \in Reqs \cup {None}
    BY <1>1, MarkerShape DEF Typed
  <2>2. Resolved(typed, tree[u].req) \in Reqs
    BY <1>1, <2>1, MarkerShape DEF Resolved, PreflightEscalateFix
  <2>3. question' \in [unit: Units, req: Reqs \cup {None}, mode: Modes \cup {None}]
    BY <1>1, <2>2 DEF PreflightEscalateFix
  <2> QED BY <1>1, <2>3 DEF PreflightEscalateFix, unitVars, noteVars
<1>2. ASSUME NEW u \in Units, EscalateFix(u) PROVE EscalationTypeOK'
  BY <1>2 DEF EscalateFix, unitVars, noteVars
<1>3. ASSUME NEW u \in Units, NEW typed \in Typed(u), EscalateFixFinalize(u, typed)
      PROVE  EscalationTypeOK'
  <2>1. log' \in Seq(Commit)
    BY <1>3, FixCommits, LogGrows
  <2>2. cmd' = cmd \/ cmd' \in [op: {"hint"}, unit: Units, req: {None}]
    BY <1>3 DEF EscalateFixFinalize, Running
  <2>3. lapses' \in [Units -> SUBSET Lapses] /\ restale' \subseteq Units
    BY <1>3, Notes DEF EscalateFixFinalize, noteVars
  <2> QED BY <1>3, <2>1, <2>2, <2>3 DEF EscalateFixFinalize
<1>4. CASE WriteStaleHintMarker
  <2>1. cmd.unit \in Units
    BY <1>4, Commands DEF WriteStaleHintMarker, CommandOK
  <2> QED BY <1>4, <2>1 DEF WriteStaleHintMarker, unitVars, mainVars, noteVars
<1>5. CASE HintFails
  <2>1. cmd.unit \in Units
    BY <1>5, Commands DEF HintFails, CommandOK
  <2>2. lapses' \in [Units -> SUBSET Lapses]
    BY <1>5, <2>1, Notes, LapseNames DEF HintFails
  <2> QED BY <1>5, <2>2 DEF HintFails, unitVars, mainVars
<1>6. ASSUME NEW lost \in BOOLEAN, FinalizeFails(lost) PROVE EscalationTypeOK'
  BY <1>6 DEF FinalizeFails, unitVars, noteVars
<1> QED BY <1>1, <1>2, <1>3, <1>4, <1>5, <1>6 DEF FixStep

\* What a release does.
LEMMA TypeRelease == EscalationTypeOK /\ ReleaseStep => EscalationTypeOK'
<1> SUFFICES ASSUME EscalationTypeOK, ReleaseStep PROVE EscalationTypeOK'
  OBVIOUS
<1> USE EscalationAssumption DEF EscalationTypeOK
<1>0. cmd.op # "idle" => cmd.unit \in Units
  BY Commands DEF CommandOK
<1>1. ASSUME NEW u \in Units, NEW answered \in BOOLEAN, BeginRelease(u, answered)
      PROVE  EscalationTypeOK'
  <2>1. lapses' \in [Units -> SUBSET Lapses]
    BY <1>1, Notes, LapseNames DEF BeginRelease
  <2> QED BY <1>1, <2>1 DEF BeginRelease, mainVars, Running, Markers
<1>2. CASE Squash
  BY <1>0, <1>2 DEF Squash, Running, unitVars, noteVars
<1>3. ASSUME NEW back \in BOOLEAN, Rollback(back) PROVE EscalationTypeOK'
  BY <1>0, <1>3 DEF Rollback, unitVars, noteVars
<1>4. CASE CommitRelease
  <2>1. log' \in Seq(Commit)
    BY <1>4, ReleaseCommits, LogGrows
  <2>2. lapses' \in [Units -> SUBSET Lapses]
    BY <1>0, <1>4, Notes DEF CommitRelease
  <2> QED BY <1>0, <1>4, <2>1, <2>2 DEF CommitRelease, Running
<1>5. CASE Archive
  BY <1>5 DEF Archive, unitVars, mainVars, noteVars
<1> QED BY <1>1, <1>2, <1>3, <1>4, <1>5 DEF ReleaseStep

LEMMA TypeStep == EscalationTypeOK /\ [EscalationNext]_escalationVars => EscalationTypeOK'
<1>1. EscalationTypeOK /\ UNCHANGED escalationVars => EscalationTypeOK'
  BY DEF EscalationTypeOK, escalationVars, unitVars, mainVars, noteVars
<1> QED BY <1>1, TypeEngineer, TypeUnit, TypeFix, TypeRelease DEF EscalationNext

\* The variables stay in their sets, whatever the order of the commands
\* (Escalation's handlers) and wherever one is cut off.
THEOREM EscalationTypeCorrect == EscalationSpec => []EscalationTypeOK
  BY InitType, TypeStep, PTL DEF EscalationSpec
-----------------------------------------------------------------------------
\* Open escalations.

\* Nobody looks at whether an escalation is open but by these.
LEMMA OpenUnchanged == UNCHANGED <<asked, log>> => \A u : Open(u)' <=> Open(u)
  BY DEF Open, Fixed

\* A commit on main opens no escalation.
LEMMA OpenShrinks ==
  ASSUME EscalationTypeOK, NEW c \in Commit, log' = Append(log, c), asked' = asked
  PROVE  \A u \in Units : Open(u)' => Open(u)
<1> SUFFICES ASSUME NEW u \in Units, Open(u)' PROVE Open(u)
  OBVIOUS
<1>1. asked[u] # None /\ ~Fixed(u, asked[u])'
  BY DEF Open
<1>2. ASSUME NEW i \in DOMAIN log, i > asked[u].since, log[i].kind = "fix", log[i].unit = u
      PROVE  FALSE
  <2>1. i \in DOMAIN log' /\ log'[i] = log[i]
    BY LogGrows DEF EscalationTypeOK
  <2> QED BY <1>1, <1>2, <2>1 DEF Fixed
<1> QED BY <1>1, <1>2 DEF Open, Fixed

\* Swept takes only markers that a fix answers.
LEMMA SweptKeepsOpen ==
  ASSUME NEW u \in Units, Open(u), work[u] = asked[u]
  PROVE  Swept(u) = work[u] /\ Swept(u) # None
  BY DEF Open, Swept

LEMMA InitRest == EscalationInit => OpenEscalationsKeepTheirMarker /\ ReleaseIsClean /\ HintsAreOwed
  BY DEF EscalationInit, OpenEscalationsKeepTheirMarker, ReleaseIsClean, HintsAreOwed, HintOwed, Open, Idle

\* A step that leaves the marker alone, and the lapse of one that is lost.
LEMMA KeepFrame ==
  ASSUME EscalationTypeOK, OpenEscalationsKeepTheirMarker, NEW u \in Units, Open(u)',
         UNCHANGED <<work, asked, log>>, Ready, lapses[u] \cap {"marker"} \subseteq lapses'[u]
  PROVE  MarkerKept(u)'
<1>1. Open(u)
  BY OpenUnchanged
<1>2. work[u] = asked[u] \/ "marker" \in lapses[u]
  BY <1>1 DEF OpenEscalationsKeepTheirMarker, Ready, Idle
<1> QED BY <1>2 DEF MarkerKept

LEMMA KeepEngineer ==
  EscalationTypeOK /\ OpenEscalationsKeepTheirMarker /\ EngineerStep => OpenEscalationsKeepTheirMarker'
<1> SUFFICES ASSUME EscalationTypeOK, OpenEscalationsKeepTheirMarker, EngineerStep,
                    NEW u \in Units, Open(u)'
             PROVE  MarkerKept(u)'
  BY DEF OpenEscalationsKeepTheirMarker, MarkerKept
<1> USE LapseNames
<1>1. ASSUME NEW b \in Units \cup {"main"}, CheckoutBranch(b) PROVE MarkerKept(u)'
  <2>1. Open(u) /\ asked[u] # None /\ asked' = asked /\ lapses' = lapses
    BY <1>1, OpenUnchanged DEF CheckoutBranch, Open, noteVars
  <2>2. work[u] = asked[u] \/ "marker" \in lapses[u]
    BY <1>1, <2>1 DEF OpenEscalationsKeepTheirMarker, CheckoutBranch, Ready, Idle
  <2>3. CASE work[u] = asked[u]
    <3>1. work'[u] = work[u]
      BY <1>1, <2>1, <2>3 DEF CheckoutBranch, MayLeave, Leave, EscalationTypeOK
    <3> QED BY <2>1, <2>3, <3>1 DEF MarkerKept
  <2> QED BY <2>1, <2>2, <2>3 DEF MarkerKept
<1>2. ASSUME NEW v \in Units, Construct(v) PROVE MarkerKept(u)'
  BY <1>2, KeepFrame, Notes DEF Construct, unitVars, mainVars, On
<1>3. ASSUME NEW v \in Units, CommitQuestions(v) PROVE MarkerKept(u)'
  BY <1>3, KeepFrame, Notes DEF CommitQuestions, unitVars, mainVars, On
<1>4. ASSUME NEW v \in Units, CommitMarker(v) PROVE MarkerKept(u)'
  BY <1>4, KeepFrame DEF CommitMarker, mainVars, noteVars, On
<1>5. ASSUME NEW v \in Units, AbortMerge(v) PROVE MarkerKept(u)'
  BY <1>5, KeepFrame DEF AbortMerge, unitVars, mainVars, noteVars, On
<1>6. ASSUME NEW v \in Units, ResetHard(v) PROVE MarkerKept(u)'
  <2>1. Open(u) /\ asked[u] # None /\ asked' = asked
    BY <1>6, OpenUnchanged DEF ResetHard, mainVars, Open
  <2>2. work[u] = asked[u] \/ "marker" \in lapses[u]
    BY <1>6, <2>1 DEF OpenEscalationsKeepTheirMarker, ResetHard, On, Ready, Idle
  <2>3. lapses[u] \subseteq lapses'[u]
    BY <1>6, Notes DEF ResetHard
  <2>4. CASE u = v /\ work[u] # tree[u] /\ work[u] # None
    BY <1>6, <2>4, Notes DEF ResetHard, MarkerKept
  <2>5. CASE u = v /\ work[u] = None
    BY <2>1, <2>2, <2>3, <2>5 DEF MarkerKept
  <2>6. CASE u # v \/ work[u] = tree[u]
    <3>1. work'[u] = work[u]
      BY <1>6, <2>6 DEF ResetHard, EscalationTypeOK
    <3> QED BY <2>1, <2>2, <2>3, <3>1 DEF MarkerKept
  <2> QED BY <2>4, <2>5, <2>6
<1>7. ASSUME NEW mode \in Modes, AnswerQuestion(mode) PROVE MarkerKept(u)'
  BY <1>7, KeepFrame DEF AnswerQuestion, unitVars, noteVars, OnMain
<1>8. CASE DropQuestion
  BY <1>8, KeepFrame DEF DropQuestion, unitVars, noteVars, OnMain
<1>9. CASE CutOff
  <2>1. Open(u) /\ asked[u] # None /\ cmd.unit \in Units
    BY <1>9, OpenUnchanged, Commands
       DEF CutOff, unitVars, mainVars, Open, Ready, CommandOK, EscalationTypeOK
  <2>2. lapses[u] \subseteq lapses'[u]
    BY <1>9, <2>1, Notes DEF CutOff
  <2>3. CASE cmd.op = "mark" /\ cmd.unit = u
    BY <1>9, <2>1, <2>3, Notes DEF CutOff, MarkerKept
  <2>4. CASE ~(cmd.op = "mark" /\ cmd.unit = u)
    BY <1>9, <2>1, <2>2, <2>4 DEF CutOff, unitVars, OpenEscalationsKeepTheirMarker, MarkerKept
  <2> QED BY <2>3, <2>4
<1> QED BY <1>1, <1>2, <1>3, <1>4, <1>5, <1>6, <1>7, <1>8, <1>9 DEF EngineerStep

LEMMA KeepUnit ==
  EscalationTypeOK /\ OpenEscalationsKeepTheirMarker /\ UnitStep => OpenEscalationsKeepTheirMarker'
<1> SUFFICES ASSUME EscalationTypeOK, OpenEscalationsKeepTheirMarker, UnitStep,
                    NEW u \in Units, Open(u)'
             PROVE  MarkerKept(u)'
  BY DEF OpenEscalationsKeepTheirMarker, MarkerKept
<1>1. ASSUME NEW v \in Units, NEW r \in Reqs, BeginEscalate(v, r) PROVE MarkerKept(u)'
  <2>1. CASE u = v
    BY <1>1, <2>1 DEF BeginEscalate, Running, MarkerKept
  <2>2. CASE u # v
    <3>1. Open(u) /\ work'[u] = work[u] /\ UNCHANGED <<asked, lapses>>
      BY <1>1, <2>2, OpenUnchanged DEF BeginEscalate, mainVars, noteVars, EscalationTypeOK
    <3>2. work[u] = asked[u] \/ "marker" \in lapses[u]
      BY <1>1, <3>1 DEF OpenEscalationsKeepTheirMarker, BeginEscalate, On, Ready, Idle
    <3> QED BY <3>1, <3>2 DEF MarkerKept
  <2> QED BY <2>1, <2>2
<1>2. CASE WriteEscalationMarker
  <2>1. cmd.unit \in Units
    BY <1>2, Commands DEF WriteEscalationMarker, CommandOK, EscalationTypeOK
  <2>2. CASE u = cmd.unit
    BY <1>2, <2>2 DEF WriteEscalationMarker, MarkerKept, EscalationTypeOK
  <2>3. CASE u # cmd.unit
    <3>1. work'[u] = work[u] /\ asked'[u] = asked[u] /\ lapses'[u] = lapses[u] /\ log' = log
      BY <1>2, <2>1, <2>3, Notes DEF WriteEscalationMarker, mainVars, EscalationTypeOK
    <3>2. Open(u)
      BY <3>1 DEF Open, Fixed
    <3> QED BY <2>3, <3>1, <3>2 DEF OpenEscalationsKeepTheirMarker, MarkerKept
  <2> QED BY <2>2, <2>3
<1>3. ASSUME NEW v \in Units, NEW probed \in BOOLEAN, NEW conflict \in BOOLEAN,
             PreflightUnitSync(v, probed, conflict)
      PROVE  MarkerKept(u)'
  <2>1. Open(u) /\ UNCHANGED <<asked, lapses>>
    BY <1>3, OpenUnchanged DEF PreflightUnitSync, mainVars, noteVars
  <2>2. work[u] = asked[u] \/ "marker" \in lapses[u]
    BY <1>3, <2>1 DEF OpenEscalationsKeepTheirMarker, PreflightUnitSync, On, Ready, Idle
  <2>3. CASE work[u] = asked[u]
    <3>1. work'[u] = work[u]
      BY <1>3, <2>1, <2>3, SweptKeepsOpen DEF PreflightUnitSync, EscalationTypeOK
    <3> QED BY <2>1, <2>3, <3>1 DEF MarkerKept
  <2> QED BY <2>1, <2>2, <2>3 DEF MarkerKept
<1> QED BY <1>1, <1>2, <1>3 DEF UnitStep

LEMMA KeepFix ==
  EscalationTypeOK /\ OpenEscalationsKeepTheirMarker /\ FixStep => OpenEscalationsKeepTheirMarker'
<1> SUFFICES ASSUME EscalationTypeOK, OpenEscalationsKeepTheirMarker, FixStep,
                    NEW u \in Units, Open(u)'
             PROVE  MarkerKept(u)'
  BY DEF OpenEscalationsKeepTheirMarker, MarkerKept
<1> USE LapseNames
<1>1. ASSUME NEW v \in Units, NEW typed \in Typed(v), NEW written \in BOOLEAN,
             PreflightEscalateFix(v, typed, written)
      PROVE  MarkerKept(u)'
  BY <1>1, KeepFrame DEF PreflightEscalateFix, unitVars, noteVars, OnMain
<1>2. ASSUME NEW v \in Units, EscalateFix(v) PROVE MarkerKept(u)'
  BY <1>2, KeepFrame DEF EscalateFix, unitVars, noteVars, OnMain
<1>3. ASSUME NEW v \in Units, NEW typed \in Typed(v), EscalateFixFinalize(v, typed)
      PROVE  MarkerKept(u)'
  <2>1. \E c \in Commit : log' = Append(log, c)
    BY <1>3, FixCommits
  <2>2. Open(u)
    BY <1>3, <2>1, OpenShrinks DEF EscalateFixFinalize
  <2>3. work[u] = asked[u] \/ "marker" \in lapses[u]
    BY <1>3, <2>2 DEF OpenEscalationsKeepTheirMarker, EscalateFixFinalize, OnMain, Ready, Idle
  <2>4. "marker" \in lapses[u] => "marker" \in lapses'[u]
    BY <1>3, Notes DEF EscalateFixFinalize, noteVars
  <2> QED BY <1>3, <2>3, <2>4 DEF EscalateFixFinalize, MarkerKept
<1>4. ASSUME WriteStaleHintMarker \/ HintFails PROVE MarkerKept(u)'
  <2>1. Open(u) /\ UNCHANGED <<work, asked>>
    BY <1>4, OpenUnchanged DEF WriteStaleHintMarker, HintFails, unitVars, mainVars
  <2>2. work[u] = asked[u] \/ "marker" \in lapses[u]
    BY <1>4, <2>1 DEF OpenEscalationsKeepTheirMarker, WriteStaleHintMarker, HintFails
  <2>3. cmd.unit \in Units
    BY <1>4, Commands DEF WriteStaleHintMarker, HintFails, CommandOK, EscalationTypeOK
  <2>4. lapses[u] \subseteq lapses'[u]
    BY <1>4, <2>3, Notes DEF WriteStaleHintMarker, HintFails, noteVars
  <2> QED BY <2>1, <2>2, <2>4 DEF MarkerKept
<1>5. ASSUME NEW lost \in BOOLEAN, FinalizeFails(lost) PROVE MarkerKept(u)'
  BY <1>5, KeepFrame DEF FinalizeFails, unitVars, noteVars, OnMain
<1> QED BY <1>1, <1>2, <1>3, <1>4, <1>5 DEF FixStep

LEMMA KeepRelease ==
  EscalationTypeOK /\ OpenEscalationsKeepTheirMarker /\ ReleaseStep => OpenEscalationsKeepTheirMarker'
<1> SUFFICES ASSUME EscalationTypeOK, OpenEscalationsKeepTheirMarker, ReleaseStep,
                    NEW u \in Units, Open(u)'
             PROVE  MarkerKept(u)'
  BY DEF OpenEscalationsKeepTheirMarker, MarkerKept
<1> USE LapseNames
<1>0. ASSUME Open(u), UNCHANGED <<work, asked>>, cmd.op # "mark",
             lapses[u] \cap {"marker"} \subseteq lapses'[u]
      PROVE  MarkerKept(u)'
  BY <1>0 DEF OpenEscalationsKeepTheirMarker, MarkerKept
<1>1. ASSUME NEW v \in Units, NEW answered \in BOOLEAN, BeginRelease(v, answered)
      PROVE  MarkerKept(u)'
  <2>1. Open(u) /\ asked' = asked
    BY <1>1, OpenUnchanged DEF BeginRelease, mainVars
  <2>2. work[u] = asked[u] \/ "marker" \in lapses[u]
    BY <1>1, <2>1 DEF OpenEscalationsKeepTheirMarker, BeginRelease, On, Ready, Idle
  <2>3. "marker" \in lapses[u] => "marker" \in lapses'[u]
    BY <1>1, Notes, MendedKeeps DEF BeginRelease
  <2>4. CASE work[u] = asked[u]
    <3>1. u # v
      BY <1>1, <2>1, <2>4, SweptKeepsOpen DEF BeginRelease, PreflightUnitRelease
    <3> QED BY <1>1, <2>1, <2>4, <3>1 DEF BeginRelease, EscalationTypeOK, MarkerKept
  <2> QED BY <2>2, <2>3, <2>4 DEF MarkerKept
<1>2. CASE Squash
  BY <1>0, <1>2, OpenUnchanged DEF Squash, unitVars, noteVars
<1>3. ASSUME NEW back \in BOOLEAN, Rollback(back) PROVE MarkerKept(u)'
  BY <1>0, <1>3, OpenUnchanged DEF Rollback, unitVars, noteVars
<1>4. CASE CommitRelease
  <2>1. \E c \in Commit : log' = Append(log, c)
    BY <1>4, ReleaseCommits
  <2>2. Open(u) /\ UNCHANGED <<work, asked>> /\ cmd.op = "commit"
    BY <1>4, <2>1, OpenShrinks DEF CommitRelease
  <2>3. cmd.unit \in Units
    BY <2>2, Commands DEF CommandOK, EscalationTypeOK
  <2>4. lapses[u] \cap {"marker"} \subseteq lapses'[u]
    BY <1>4, <2>3, MendedKeeps DEF CommitRelease
  <2> QED BY <1>0, <2>2, <2>4
<1>5. CASE Archive
  BY <1>0, <1>5, OpenUnchanged DEF Archive, unitVars, mainVars, noteVars
<1> QED BY <1>1, <1>2, <1>3, <1>4, <1>5 DEF ReleaseStep

-----------------------------------------------------------------------------
\* The release under way, and the hints.

\* A release is under way only from a release that began.
LEMMA CleanStep == EscalationInv /\ EscalationNext => ReleaseIsClean'
<1> SUFFICES ASSUME EscalationInv, EscalationNext, NEW u \in Units,
                    cmd'.op \in {"squash", "commit"}, cmd'.unit = u
             PROVE  Clean(u)'
  BY DEF ReleaseIsClean
<1>0. Ready => cmd.op = "idle"
  BY DEF Ready, Idle
<1>1. ASSUME EngineerStep PROVE FALSE
  <2>1. cmd' = Idle \/ (Ready /\ cmd' = cmd)
    BY <1>1 DEF EngineerStep, CheckoutBranch, Construct, CommitQuestions, CommitMarker, AbortMerge,
       ResetHard, AnswerQuestion, DropQuestion, CutOff, On, OnMain
  <2> QED BY <1>0, <2>1 DEF Idle
<1>2. ASSUME UnitStep PROVE FALSE
  BY <1>0, <1>2 DEF UnitStep, BeginEscalate, WriteEscalationMarker, PreflightUnitSync, On, Idle, Running
<1>3. ASSUME FixStep PROVE FALSE
  <2>1. ASSUME NEW v \in Units, NEW typed \in Typed(v), EscalateFixFinalize(v, typed) PROVE FALSE
    BY <1>0, <2>1 DEF EscalateFixFinalize, OnMain, Running
  <2>2. cmd' = Idle \/ (Ready /\ cmd' = cmd)
    BY <1>3, <2>1 DEF FixStep, PreflightEscalateFix, EscalateFix, FinalizeFails,
       WriteStaleHintMarker, HintFails, OnMain
  <2> QED BY <1>0, <2>2 DEF Idle
<1>4. ASSUME NEW v \in Units, NEW answered \in BOOLEAN, BeginRelease(v, answered) PROVE Clean(u)'
  <2>1. u = v /\ Ready /\ UNCHANGED <<ahead, restale>>
    BY <1>4 DEF BeginRelease, On, Running
  <2>2. ~Open(u) \/ "marker" \in lapses[u]
    BY <1>0, <1>4, <2>1, SweptKeepsOpen
       DEF BeginRelease, PreflightUnitRelease, EscalationInv, OpenEscalationsKeepTheirMarker
  <2>3. Open(u)' <=> Open(u)
    BY <1>4, OpenUnchanged DEF BeginRelease, mainVars
  <2>4. u \notin restale \/ LapsedOf(u, HintLapses)
    BY <1>0, <1>4, <2>1
       DEF BeginRelease, PreflightUnitRelease, DownstreamStale, EscalationInv, HintsAreOwed, HintOwed
  <2>5. \A l \in {"marker"} \cup HintLapses : l \in lapses[u] => l \in lapses'[u]
    BY <1>4, Notes, MendedKeeps, LapseNames DEF BeginRelease, EscalationInv
  <2>6. u \in ahead \/ "diff" \in lapses'[u]
    BY <1>4, <2>1, Notes, LapseNames DEF BeginRelease, Contributes, EscalationInv
  <2>7. LapsedOf(u, HintLapses) => LapsedOf(u, HintLapses)'
    BY <2>5 DEF LapsedOf, HintLapses
  <2> QED BY <2>1, <2>2, <2>3, <2>4, <2>5, <2>6, <2>7 DEF Clean
<1>5. ASSUME Squash PROVE Clean(u)'
  <2>1. u = cmd.unit /\ cmd.op = "squash"
    BY <1>5 DEF Squash, Running
  <2>2. UNCHANGED <<asked, log, ahead, restale, lapses>>
    BY <1>5 DEF Squash, unitVars, noteVars
  <2> QED BY <2>1, <2>2, OpenUnchanged DEF EscalationInv, ReleaseIsClean, Clean, LapsedOf
<1>6. ASSUME Archive \/ CommitRelease \/ \E back \in BOOLEAN : Rollback(back) PROVE FALSE
  BY <1>6 DEF Rollback, CommitRelease, Archive, Idle, Running
<1> QED BY <1>1, <1>2, <1>3, <1>4, <1>5, <1>6 DEF EscalationNext, ReleaseStep

\* A step that takes neither a hint nor the lapse of one away.
LEMMA HintFrame ==
  ASSUME EscalationInv, NEW u \in Units, u \in restale' => u \in restale, stale \subseteq stale',
         ~(cmd.op = "hint" /\ cmd.unit = u), \A l \in HintLapses : l \in lapses[u] => l \in lapses'[u]
  PROVE  HintOwed(u)'
<1>1. HintOwed(u)
  BY DEF EscalationInv, HintsAreOwed
<1> QED BY <1>1 DEF HintOwed, LapsedOf

LEMMA HintStep == EscalationInv /\ EscalationNext => HintsAreOwed'
<1> SUFFICES ASSUME EscalationInv, EscalationNext, NEW u \in Units PROVE HintOwed(u)'
  BY DEF HintsAreOwed
<1>0. Ready => cmd.op = "idle"
  BY DEF Ready, Idle
<1>a. EscalationTypeOK /\ HintOwed(u) /\ CommandOK(cmd)
  BY DEF EscalationInv, HintsAreOwed, EscalationTypeOK, CommandOK
<1>1. ASSUME NEW b \in Units \cup {"main"}, CheckoutBranch(b) PROVE HintOwed(u)'
  BY <1>0, <1>1, HintFrame DEF CheckoutBranch, noteVars
<1>2. ASSUME NEW v \in Units, Construct(v) PROVE HintOwed(u)'
  <2>1. CASE u = v
    BY <1>2, <2>1 DEF Construct, HintOwed
  <2>2. CASE u # v
    BY <1>0, <1>2, <1>a, <2>2, Notes DEF Construct, On, HintOwed, LapsedOf
  <2> QED BY <2>1, <2>2
<1>3. ASSUME NEW v \in Units, CommitQuestions(v) PROVE HintOwed(u)'
  <2>1. restale' = restale /\ stale' = stale \ {v} /\ \A l : l \in lapses[u] => l \in lapses'[u]
    BY <1>3, <1>a, Notes, LapseNames DEF CommitQuestions
  <2>2. u = v /\ u \in stale /\ u \in restale => "questions" \in lapses'[u]
    BY <1>3, <1>a, Notes, LapseNames DEF CommitQuestions
  <2> QED BY <1>0, <1>3, <1>a, <2>1, <2>2, LapseNames DEF CommitQuestions, On, HintOwed, LapsedOf
<1>4. ASSUME NEW v \in Units, CommitMarker(v) \/ AbortMerge(v) \/ ResetHard(v) PROVE HintOwed(u)'
  <2>1. UNCHANGED <<restale, stale>> /\ Ready
    BY <1>4 DEF CommitMarker, AbortMerge, ResetHard, noteVars, On
  <2>2. lapses[u] \subseteq lapses'[u]
    BY <1>4, <1>a, Notes, LapseNames DEF CommitMarker, AbortMerge, ResetHard, noteVars
  <2> QED BY <1>0, <2>1, <2>2, HintFrame
<1>5. ASSUME DropQuestion \/ \E mode \in Modes : AnswerQuestion(mode) PROVE HintOwed(u)'
  BY <1>0, <1>5, HintFrame DEF AnswerQuestion, DropQuestion, noteVars, OnMain
<1>6. CASE CutOff
  <2>1. cmd.unit \in Units
    BY <1>6, <1>a, Commands DEF CutOff, Ready
  <2>2. lapses[u] \subseteq lapses'[u]
    BY <1>6, <1>a, <2>1, Notes, LapseNames DEF CutOff
  <2>3. cmd.op = "hint" /\ cmd.unit = u => "hint cut" \in lapses'[u]
    BY <1>6, <1>a, <2>1, Notes, LapseNames DEF CutOff
  <2> QED BY <1>6, <1>a, <2>2, <2>3, LapseNames DEF CutOff, HintOwed, LapsedOf
<1>7. CASE UnitStep
  <2>1. UNCHANGED <<restale, stale>> /\ cmd.op # "hint"
    BY <1>0, <1>7 DEF UnitStep, BeginEscalate, WriteEscalationMarker, PreflightUnitSync, noteVars, On
  <2>2. \A l \in HintLapses : l \in lapses[u] => l \in lapses'[u]
    <3>1. CASE WriteEscalationMarker
      <4>1. cmd.unit \in Units
        BY <3>1, <1>a, Commands DEF WriteEscalationMarker
      <4> QED BY <3>1, <1>a, <4>1, MendedKeeps, LapseNames DEF WriteEscalationMarker
    <3> QED BY <3>1, <1>7 DEF UnitStep, BeginEscalate, PreflightUnitSync, noteVars
  <2> QED BY <2>1, <2>2, HintFrame
<1>8. ASSUME NEW v \in Units, NEW typed \in Typed(v), EscalateFixFinalize(v, typed) PROVE HintOwed(u)'
  <2>1. CASE question.mode = "in-place" /\ u = v
    BY <1>8, <2>1 DEF EscalateFixFinalize, Running, HintOwed
  <2>2. CASE question.mode = "in-place" /\ u # v
    BY <1>0, <1>8, <1>a, <2>2, HintFrame, Notes DEF EscalateFixFinalize, OnMain
  <2>3. CASE question.mode # "in-place"
    BY <1>0, <1>8, <2>3, HintFrame DEF EscalateFixFinalize, OnMain, noteVars
  <2> QED BY <2>1, <2>2, <2>3
<1>9. CASE WriteStaleHintMarker
  BY <1>9, <1>a DEF WriteStaleHintMarker, noteVars, HintOwed, LapsedOf
<1>10. CASE HintFails
  <2>1. cmd.unit \in Units
    BY <1>10, <1>a, Commands DEF HintFails
  <2>2. lapses[u] \subseteq lapses'[u] /\ "hint failed" \in lapses'[cmd.unit]
    BY <1>10, <1>a, <2>1, Notes, LapseNames DEF HintFails
  <2> QED BY <1>10, <1>a, <2>2, LapseNames DEF HintFails, HintOwed, LapsedOf
<1>11. ASSUME \/ \E v \in Units : EscalateFix(v)
              \/ \E v \in Units : \E typed \in Typed(v), written \in BOOLEAN :
                   PreflightEscalateFix(v, typed, written)
              \/ \E lost \in BOOLEAN : FinalizeFails(lost)
       PROVE  HintOwed(u)'
  BY <1>0, <1>11, HintFrame DEF EscalateFix, PreflightEscalateFix, FinalizeFails, noteVars, OnMain
<1>12. CASE ReleaseStep
  <2>1. UNCHANGED <<restale, stale>> /\ cmd.op # "hint"
    BY <1>0, <1>12 DEF ReleaseStep, BeginRelease, Squash, Rollback, CommitRelease, Archive, On, noteVars
  <2>2. \A l \in HintLapses : l \in lapses[u] => l \in lapses'[u]
    <3>1. ASSUME NEW v \in Units, NEW answered \in BOOLEAN, BeginRelease(v, answered)
          PROVE  \A l \in HintLapses : l \in lapses[u] => l \in lapses'[u]
      BY <3>1, <1>a, Notes, MendedKeeps, LapseNames DEF BeginRelease
    <3>2. ASSUME CommitRelease PROVE \A l \in HintLapses : l \in lapses[u] => l \in lapses'[u]
      <4>1. cmd.unit \in Units
        BY <3>2, <1>a, Commands DEF CommitRelease
      <4> QED BY <3>2, <1>a, <4>1, MendedKeeps, LapseNames DEF CommitRelease
    <3> QED BY <1>12, <3>1, <3>2 DEF ReleaseStep, Squash, Rollback, Archive, noteVars
  <2> QED BY <2>1, <2>2, HintFrame
<1> QED BY <1>1, <1>2, <1>3, <1>4, <1>5, <1>6, <1>7, <1>8, <1>9, <1>10, <1>11, <1>12
        DEF EscalationNext, EngineerStep, FixStep

\* The inductive invariant: besides the types and the markers, what a release
\* under way has found and the hints that are owed.
THEOREM EscalationInvariant == EscalationSpec => []EscalationInv
<1>1. EscalationInit => EscalationInv
  BY InitType, InitRest DEF EscalationInv
<1>2. EscalationInv /\ [EscalationNext]_escalationVars => EscalationInv'
  <2>1. CASE UNCHANGED escalationVars
    <3>1. EscalationTypeOK /\ UNCHANGED escalationVars => EscalationTypeOK'
      BY TypeStep
    <3> QED BY <2>1, <3>1, OpenUnchanged
            DEF EscalationInv, escalationVars, unitVars, mainVars, noteVars,
                OpenEscalationsKeepTheirMarker, ReleaseIsClean, Clean, HintsAreOwed, HintOwed, LapsedOf
  <2>2. CASE EscalationNext
    BY <2>2, TypeStep, KeepEngineer, KeepUnit, KeepFix, KeepRelease, CleanStep, HintStep
       DEF EscalationInv, EscalationNext
  <2> QED BY <2>1, <2>2
<1> QED BY <1>1, <1>2, PTL DEF EscalationSpec

\* An escalation that no fix answers keeps its marker file whatever is cut off,
\* left, synced or rolled back: it is lost only by the next escalation, between
\* its deletion and its write, and by a hard reset over an uncommitted marker.
THEOREM OpenEscalationsKept == EscalationSpec => []OpenEscalationsKeepTheirMarker
<1>1. EscalationInv => OpenEscalationsKeepTheirMarker
  BY DEF EscalationInv
<1> QED BY <1>1, EscalationInvariant, PTL

\* A release commit is the last step but one of a release that found the unit clean.
LEMMA ReleaseStepIsClean ==
  ASSUME EscalationInv, [EscalationNext]_escalationVars, NEW u \in Units, Releases(u)
  PROVE  Clean(u)
<1> USE DEF EscalationInv, EscalationTypeOK
<1>0. log' # log
  BY DEF Releases
<1>1. ~ UNCHANGED escalationVars
  BY <1>0 DEF escalationVars, mainVars
<1>2. ~EngineerStep /\ ~UnitStep
  BY <1>0 DEF EngineerStep, CheckoutBranch, Construct, CommitQuestions, CommitMarker, AbortMerge,
     ResetHard, AnswerQuestion, DropQuestion, CutOff, UnitStep, BeginEscalate, WriteEscalationMarker,
     PreflightUnitSync, mainVars
<1>3. ~FixStep
  <2>1. ASSUME NEW v \in Units, NEW typed \in Typed(v), EscalateFixFinalize(v, typed) PROVE FALSE
    <3>1. PICK c \in Commit : log' = Append(log, c) /\ c.kind = "fix"
      BY <2>1, FixCommits
    <3>2. log'[Len(log')] = c
      BY <3>1, LogGrows
    <3> QED BY <3>1, <3>2 DEF Releases
  <2> QED BY <1>0, <2>1
          DEF FixStep, PreflightEscalateFix, EscalateFix, FinalizeFails, WriteStaleHintMarker,
              HintFails, mainVars
<1>4. CommitRelease
  BY <1>0, <1>1, <1>2, <1>3 DEF EscalationNext, ReleaseStep, BeginRelease, Squash, Rollback, Archive, mainVars
<1>5. cmd.op = "commit" /\ cmd.unit = u
  <2>1. PICK c \in Commit : log' = Append(log, c) /\ c.unit = cmd.unit
    BY <1>4, ReleaseCommits
  <2>2. log'[Len(log')] = c
    BY <2>1, LogGrows
  <2> QED BY <1>4, <2>1, <2>2 DEF Releases, CommitRelease
<1> QED BY <1>5 DEF ReleaseIsClean

\* No unit is released over the change it escalated last, as long as that is not
\* fixed on main (unit-release.js between the preflight and the commit), but
\* for a request whose marker is gone: cut off at the next escalation, or reset.
THEOREM ReleasesFindEscalationsFixed == EscalationSpec => NoReleaseOverOpenEscalation
<1>1. EscalationInv /\ [EscalationNext]_escalationVars =>
        [\A u \in Units : Releases(u) => ~Open(u) \/ "marker" \in lapses[u]]_escalationVars
  BY ReleaseStepIsClean DEF Clean
<1> QED BY <1>1, EscalationInvariant, PTL DEF EscalationSpec, NoReleaseOverOpenEscalation

\* A release commit brings work that main did not have, also when an earlier
\* release of the unit was cut off before its branch was archived; the one
\* exception is a release begun while git could not tell what the unit has.
THEOREM ReleasesAreNotRepeated == EscalationSpec => ReleasesBringWork
<1>1. EscalationInv /\ [EscalationNext]_escalationVars =>
        [\A u \in Units : Releases(u) => u \in ahead \/ "diff" \in lapses[u]]_escalationVars
  BY ReleaseStepIsClean DEF Clean
<1> QED BY <1>1, EscalationInvariant, PTL DEF EscalationSpec, ReleasesBringWork

\* No unit is released on construction older than a fix in place (the stale hint
\* of escalateFixFinalize), but for a fix whose hint was cut off or could not
\* be written, and for question files committed after it.
THEOREM ReleasesAreNotStale == EscalationSpec => NoReleaseOfStaleWork
<1>1. EscalationInv /\ [EscalationNext]_escalationVars =>
        [\A u \in Units : Releases(u) => u \notin restale \/ LapsedOf(u, HintLapses)]_escalationVars
  BY ReleaseStepIsClean DEF Clean
<1> QED BY <1>1, EscalationInvariant, PTL DEF EscalationSpec, NoReleaseOfStaleWork

-----------------------------------------------------------------------------
(***************************************************************************)
(* Safety of a full restart, for every number of inception stages.         *)
(***************************************************************************)
\* With one stage ever chosen, the restarts below it are all of that stage.
Only(s) == chosen \subseteq {s}

\* What a restart of s, the only stage chosen, has to be like for its audit
\* block to mean that it went through.
WholeOrUnrecorded(s) ==
  /\ block = "recent" => HalfRestarted(s) = {}
  /\ restart.pc # "idle" =>
       /\ restart.stage \in chosen
       /\ restart.pc = "archive" => /\ block # "recent"
                                    /\ backup \cap downstreamStages(s) \subseteq restart.archived
       /\ restart.pc \in {"plans", "block", "dispatch"} => HalfRestarted(s) = {}

RestartInv ==
  /\ RestartTypeOK
  /\ \A s \in STAGE_ORDER : Only(s) => WholeOrUnrecorded(s)
-----------------------------------------------------------------------------
LEMMA RestartInitType == RestartInit => RestartTypeOK
  BY DEF RestartInit, RestartTypeOK, NoRestart

LEMMA Shapes ==
  ASSUME RestartTypeOK
  PROVE  /\ restart.pc = "idle" <=> restart = NoRestart
         /\ restart.pc # "idle" => /\ restart.stage \in STAGE_ORDER
                                   /\ restart.archived \subseteq downstreamStages(restart.stage)
                                   /\ restart.pc \in {"archive", "plans", "block", "dispatch"}
  BY DEF RestartTypeOK, NoRestart

LEMMA RestartTypeStep == RestartTypeOK /\ [RestartNext]_restartVars => RestartTypeOK'
<1> SUFFICES ASSUME RestartTypeOK, [RestartNext]_restartVars PROVE RestartTypeOK'
  OBVIOUS
<1> USE DEF RestartTypeOK
<1>1. ASSUME NEW s \in STAGE_ORDER, BeginRestart(s) PROVE RestartTypeOK'
  BY <1>1 DEF BeginRestart
<1>2. CASE ArchiveNext
  <2>1. PICK d \in ToArchive(restart.stage) :
          /\ art' = art \ {d} /\ backup' = backup \cup {d}
          /\ restart' = [restart EXCEPT !.archived = @ \cup {d}]
    BY <1>2 DEF ArchiveNext
  <2>2. d \in downstreamStages(restart.stage) /\ d \in STAGE_ORDER
    BY DEF ToArchive, downstreamStages
  <2> QED BY <1>2, <2>1, <2>2, Shapes DEF ArchiveNext, NoRestart
<1>3. CASE ResetRows
  BY <1>3, Shapes DEF ResetRows, NoRestart
<1>4. CASE ClearPlans
  BY <1>4, Shapes DEF ClearPlans, NoRestart
<1>5. CASE RecordArchive
  BY <1>5, Shapes DEF RecordArchive, NoRestart
<1>6. CASE DispatchRestart \/ RestartDies
  BY <1>6 DEF DispatchRestart, RestartDies
<1>7. ASSUME NEW s \in STAGE_ORDER, CompleteStage(s) PROVE RestartTypeOK'
  BY <1>7 DEF CompleteStage
<1>8. ASSUME NEW s \in STAGE_ORDER, CleanUp(s) PROVE RestartTypeOK'
  BY <1>8 DEF CleanUp
<1>9. CASE DayPasses
  BY <1>9 DEF DayPasses
<1>10. CASE UNCHANGED restartVars
  BY <1>10 DEF restartVars
<1> QED BY <1>1, <1>2, <1>3, <1>4, <1>5, <1>6, <1>7, <1>8, <1>9, <1>10 DEF RestartNext

\* The sets of files, the audit block and the running restart stay what they
\* should be, wherever runFullRestartMode is cut off.
THEOREM RestartTypeCorrect == RestartSpec => []RestartTypeOK
  BY RestartInitType, RestartTypeStep, PTL DEF RestartSpec
-----------------------------------------------------------------------------
LEMMA WholeStep ==
  ASSUME RestartInv, RestartNext, NEW s \in STAGE_ORDER, Only(s)'
  PROVE  WholeOrUnrecorded(s)'
<1> USE DEF RestartInv, WholeOrUnrecorded, HalfRestarted
<1>0. chosen \subseteq chosen'
  BY DEF RestartNext, BeginRestart, ArchiveNext, ResetRows, ClearPlans, RecordArchive,
     DispatchRestart, RestartDies, CompleteStage, CleanUp, DayPasses
<1>a. Only(s) /\ WholeOrUnrecorded(s)
  BY <1>0 DEF Only
<1>b. restart.pc # "idle" => restart.stage = s
  BY <1>a DEF Only
<1>1. ASSUME NEW r \in STAGE_ORDER, BeginRestart(r) PROVE WholeOrUnrecorded(s)'
  <2>1. r = s
    BY <1>1 DEF BeginRestart, Only
  <2> QED BY <1>1, <1>a, <2>1 DEF BeginRestart, detectContinuationState
<1>2. CASE ArchiveNext
  <2>1. PICK d \in ToArchive(restart.stage) :
          /\ art' = art \ {d} /\ backup' = backup \cup {d}
          /\ restart' = [restart EXCEPT !.archived = @ \cup {d}]
    BY <1>2 DEF ArchiveNext
  <2>2. /\ restart'.pc = "archive" /\ restart'.stage = restart.stage
        /\ restart'.archived = restart.archived \cup {d}
    BY <1>2, <2>1, Shapes DEF ArchiveNext, RestartTypeOK, NoRestart
  <2> QED BY <1>2, <1>a, <2>1, <2>2 DEF ArchiveNext
<1>3. CASE ResetRows
  <2>1. restart'.pc = "plans" /\ restart'.stage = restart.stage
    BY <1>3, Shapes DEF ResetRows, RestartTypeOK, NoRestart
  <2>2. (backup \cap checked') \cap downstreamStages(s) = {}
    BY <1>3, <1>a DEF ResetRows
  <2> QED BY <1>3, <1>a, <2>1, <2>2 DEF ResetRows
<1>4. CASE ClearPlans
  <2>1. restart'.pc \in {"block", "dispatch"} /\ restart'.stage = restart.stage
    BY <1>4, Shapes DEF ClearPlans, RestartTypeOK, NoRestart
  <2> QED BY <1>4, <1>a, <2>1 DEF ClearPlans
<1>5. CASE RecordArchive
  <2>1. restart'.pc = "dispatch" /\ restart'.stage = restart.stage
    BY <1>5, Shapes DEF RecordArchive, RestartTypeOK, NoRestart
  <2> QED BY <1>5, <1>a, <2>1 DEF RecordArchive
<1>6. CASE DispatchRestart \/ RestartDies
  BY <1>6, <1>a DEF DispatchRestart, RestartDies, NoRestart
<1>7. ASSUME NEW r \in STAGE_ORDER, CompleteStage(r) PROVE WholeOrUnrecorded(s)'
  BY <1>7, <1>a DEF CompleteStage
<1>8. ASSUME NEW r \in STAGE_ORDER, CleanUp(r) PROVE WholeOrUnrecorded(s)'
  BY <1>8, <1>a DEF CleanUp
<1>9. CASE DayPasses
  BY <1>9, <1>a DEF DayPasses
<1> QED BY <1>1, <1>2, <1>3, <1>4, <1>5, <1>6, <1>7, <1>8, <1>9 DEF RestartNext

\* The inductive invariant: as long as one stage only was ever chosen, a recent
\* audit block means that no stage below it is half restarted, and a restart
\* that is still renaming has made all the backups itself.
THEOREM RestartInvariant == RestartSpec => []RestartInv
<1>1. RestartInit => RestartInv
  BY RestartInitType DEF RestartInit, RestartInv, WholeOrUnrecorded, NoRestart
<1>2. RestartInv /\ [RestartNext]_restartVars => RestartInv'
  <2>1. CASE UNCHANGED restartVars
    BY <2>1 DEF restartVars, RestartInv, RestartTypeOK, Only, WholeOrUnrecorded, HalfRestarted
  <2>2. CASE RestartNext
    BY <2>2, RestartTypeStep, WholeStep DEF RestartInv
  <2> QED BY <2>1, <2>2
<1> QED BY <1>1, <1>2, PTL DEF RestartSpec

\* While every restart chose the same stage, the audit block and the backups
\* tell a restart that was cut off between its renames and its block from a
\* whole one: no cluster is dispatched over half a restart.
THEOREM HalfRestartsUndispatched == RestartSpec => []HalfRestartsStayUndispatched
<1>1. RestartInv => HalfRestartsStayUndispatched
  <2> SUFFICES ASSUME RestartInv, Dispatching, Cardinality(chosen) = 1
               PROVE  HalfRestarted(restart.stage) = {}
    BY DEF HalfRestartsStayUndispatched
  <2>1. restart.pc = "dispatch" /\ restart.stage \in STAGE_ORDER
    BY Shapes DEF Dispatching, RestartInv
  <2>2. PICK s \in STAGE_ORDER : chosen = {s}
    <3>1. IsFiniteSet(STAGE_ORDER) /\ chosen \subseteq STAGE_ORDER
      BY RestartAssumption, FS_Interval DEF STAGE_ORDER, RestartInv, RestartTypeOK
    <3>2. IsFiniteSet(chosen)
      BY <3>1, FS_Subset
    <3> QED BY <3>1, <3>2, FS_Singleton
  <2>3. WholeOrUnrecorded(s)
    BY <2>2 DEF RestartInv, Only
  <2> QED BY <2>1, <2>2, <2>3 DEF WholeOrUnrecorded
<1> QED BY <1>1, RestartInvariant, PTL
=============================================================================
