------------------------------ MODULE Escalation ------------------------------
(***************************************************************************)
(* The development scaffold's escalation cycle over one clone: a unit      *)
(* asks for a change of the project's inception documents by a marker on   *)
(* its branch, the fix is committed on main, the sync takes the marker     *)
(* away and the release squashes the unit into main.  One command runs at  *)
(* a time; it may be cut off between two of its steps, and a call of git   *)
(* that it makes may fail or run into its time limit.  Nobody edits a      *)
(* marker, and files that can be written to a directory can be deleted.    *)
(***************************************************************************)
EXTENDS Naturals, Sequences

CONSTANTS
  Units,       \* the units the project describes; a unit's branch has its name
  Reqs,        \* descriptions of changes
  None,        \* no marker, no unit, no description
  MaxCommits   \* bound: commits on main

ASSUME EscalationAssumption == None \notin Units /\ None \notin Reqs /\ "main" \notin Units

VARIABLES
  head,        \* the branch checked out
  work, tree,  \* each unit's marker: in the working tree, in its branch's last commit
  asked,       \* history: the last marker written for each unit
  log,         \* the commits on main
  question,    \* the latest escalate-fix question file
  dirty,       \* an inception artifact differs from main's last commit
  staged,      \* the unit whose squash lies in the index
  ahead,       \* the units whose branch holds work, or a commit of a marker, that main lacks
  live,        \* the units whose branch is not archived
  stale,       \* the units with a stale hint younger than any commit under construction/
  restale,     \* history: the units fixed in place since their last construction
  lapses,      \* history: what went wrong with each unit's marker, hint or release
  merging,     \* MERGE_HEAD exists
  cmd          \* the running command: what it does next, for which unit

unitVars == <<work, tree, asked>>
mainVars == <<log, question, dirty, staged>>
noteVars == <<restale, lapses>>
escalationVars == <<head, unitVars, mainVars, ahead, live, stale, noteVars, merging, cmd>>

\* Every marker is escalation-1.json: a new one takes the place of those
\* pending, and no caller ever marks one resolved.
Marker == [req: Reqs, since: Nat]
Markers == Marker \cup {None}
Commit == [kind: {"fix", "release"}, unit: Units, req: Reqs \cup {None}]
Modes == {"in-place", "full-restart"}

\* What can go wrong: a marker was deleted for a new one that was never written,
\* or went with a hard reset.  The hint of a fix was not written, because the
\* fix was cut off or because the write failed and the fix went on; or question
\* files were committed, which pass for construction.  A release was begun
\* without an answer to what the unit has that main lacks.
HintLapses == {"hint cut", "hint failed", "questions"}
Lapses == {"marker", "diff"} \cup HintLapses
Lapsed(u, lapse) == lapses' = [lapses EXCEPT ![u] = @ \cup {lapse}]
Mended(u, mended) == lapses' = [lapses EXCEPT ![u] = @ \ mended]

Idle == [op |-> "idle", unit |-> None, req |-> None]
Running(op, u, r) == [op |-> op, unit |-> u, req |-> r]
Ready == cmd = Idle
On(u) == Ready /\ head = u /\ u \in Units
OnMain == Ready /\ head = "main"

EscalationInit ==
  /\ head = "main" /\ merging = FALSE /\ cmd = Idle
  /\ work = [u \in Units |-> None] /\ tree = work /\ asked = work
  /\ log = <<>> /\ question = None /\ dirty = FALSE /\ staged = None
  /\ ahead = {} /\ live = Units /\ stale = {} /\ restale = {}
  /\ lapses = [u \in Units |-> {}]

-----------------------------------------------------------------------------
\* Helpers of the commands.

\* validateMarkerAgainstMain: a fix of the unit younger than the marker.
Fixed(u, mk) == \E i \in DOMAIN log : /\ i > mk.since
                                      /\ log[i].kind = "fix" /\ log[i].unit = u

\* Mutant: any fix of the unit, an older one too, answers the marker.
Swept_AnyAge(u) ==
  IF \E i \in DOMAIN log : log[i].kind = "fix" /\ log[i].unit = u THEN None ELSE work[u]

\* The marker the working tree holds when a sync has scanned and deleted.
Swept(u) == IF work[u] # None /\ Fixed(u, work[u]) THEN None ELSE work[u]

\* git diff main...unit is not empty.
Contributes(u) == u \in ahead

\* Mutant: any work of the unit counts as younger than the hint.
DownstreamStale_AnyWork(u) == u \in stale /\ ~Contributes(u)

\* checkDownstreamStale: no commit under construction/ since the hint; a log
\* that fails counts as none.
DownstreamStale(u) == u \in stale

\* resolveArg: what the engineer typed, or else what the question file kept.
Resolved(typed, kept) == IF typed # None THEN typed ELSE kept

-----------------------------------------------------------------------------
\* The engineer and the agents, between two commands.

\* git refuses to leave a branch whose tracked marker was rewritten; a marker
\* deleted without a commit is back on return.
Leave(u) == IF u \in Units /\ tree[u] # None THEN [work EXCEPT ![u] = tree[u]] ELSE work
MayLeave(u) == u \in Units => tree[u] = None \/ work[u] \in {None, tree[u]}

CheckoutBranch(b) ==
  /\ Ready /\ ~merging /\ b # head /\ b \in live \cup {"main"}
  /\ staged \in {None, b} /\ MayLeave(head)
  /\ head' = b /\ work' = Leave(head) /\ staged' = None
  /\ UNCHANGED <<tree, asked, log, question, dirty, ahead, live, stale, noteVars, merging, cmd>>

Construct(u) ==
  /\ On(u) /\ ~merging
  /\ ahead' = ahead \cup {u} /\ stale' = stale \ {u} /\ restale' = restale \ {u}
  /\ Mended(u, HintLapses)
  /\ UNCHANGED <<head, unitVars, mainVars, live, merging, cmd>>

\* The question files of change requests, redesigns and syncs lie under
\* construction/ too.
CommitQuestions(u) ==
  /\ On(u) /\ ~merging
  /\ ahead' = ahead \cup {u} /\ stale' = stale \ {u}
  /\ IF u \in stale \cap restale THEN Lapsed(u, "questions") ELSE UNCHANGED lapses
  /\ UNCHANGED <<head, unitVars, mainVars, live, restale, merging, cmd>>

CommitMarker(u) ==
  /\ On(u) /\ ~merging /\ work[u] # tree[u]
  /\ tree' = [tree EXCEPT ![u] = work[u]] /\ ahead' = ahead \cup {u}
  /\ UNCHANGED <<head, work, asked, mainVars, live, stale, noteVars, merging, cmd>>

AnswerQuestion(mode) ==
  /\ OnMain /\ question # None /\ question.mode = None
  /\ question' = [question EXCEPT !.mode = mode]
  /\ UNCHANGED <<head, unitVars, log, dirty, staged, ahead, live, stale, noteVars, merging, cmd>>

AbortMerge(u) ==
  /\ On(u) /\ merging /\ merging' = FALSE
  /\ UNCHANGED <<head, unitVars, mainVars, ahead, live, stale, noteVars, cmd>>

\* git reset --hard to the commit before the merge, which a failed sync advises
\* and every sync prints: a tracked marker that was rewritten, or deleted, and
\* not committed is what it was before.
ResetHard(u) ==
  /\ On(u) /\ tree[u] # None
  /\ work' = [work EXCEPT ![u] = tree[u]] /\ merging' = FALSE
  /\ IF work[u] \in {None, tree[u]} THEN UNCHANGED lapses ELSE Lapsed(u, "marker")
  /\ UNCHANGED <<head, tree, asked, mainVars, ahead, live, stale, restale, cmd>>

\* A command dies, throws, or a call to git runs into its time limit, between
\* two steps.
CutOff ==
  /\ ~Ready /\ cmd' = Idle
  /\ CASE cmd.op = "mark" /\ asked[cmd.unit] # None -> Lapsed(cmd.unit, "marker")
       [] cmd.op = "hint" -> Lapsed(cmd.unit, "hint cut")
       [] OTHER -> UNCHANGED lapses
  /\ UNCHANGED <<head, unitVars, mainVars, ahead, live, stale, restale, merging>>

-----------------------------------------------------------------------------
\* /aidlc-change-request

\* The description is the typed one or the change-request file's; the markers
\* that are pending go first.
BeginEscalate(u, r) ==
  /\ On(u)
  /\ work' = [work EXCEPT ![u] = None] /\ cmd' = Running("mark", u, r)
  /\ UNCHANGED <<head, tree, asked, mainVars, ahead, live, stale, noteVars, merging>>

WriteEscalationMarker ==
  /\ cmd.op = "mark" /\ cmd' = Idle
  /\ LET mk == [req |-> cmd.req, since |-> Len(log)] IN
       /\ work' = [work EXCEPT ![cmd.unit] = mk]
       /\ asked' = [asked EXCEPT ![cmd.unit] = mk]
  /\ Mended(cmd.unit, {"marker"})
  /\ UNCHANGED <<head, tree, mainVars, ahead, live, stale, restale, merging>>

-----------------------------------------------------------------------------
\* /aidlc-escalate-fix: the marker is read from the unit's last commit.

\* The description goes into the file after the file is written, or is not
\* written at all.
PreflightEscalateFix(u, typed, written) ==
  /\ OnMain /\ question = None /\ u \in live /\ tree[u] # None
  /\ question' = [unit |-> u, mode |-> None,
                  req |-> IF written THEN Resolved(typed, tree[u].req) ELSE None]
  /\ UNCHANGED <<head, unitVars, log, dirty, staged, ahead, live, stale, noteVars, merging, cmd>>

\* A question file that is there is dispatched, whichever unit and marker it was
\* written for; the cluster may change the artifact.
EscalateFix(u) ==
  /\ OnMain /\ question # None /\ question.mode # None /\ u \in live /\ tree[u] # None
  /\ dirty' = TRUE
  /\ UNCHANGED <<head, unitVars, log, question, staged, ahead, live, stale, noteVars, merging, cmd>>

\* What finalize falls back on when the question file has no description.
OnBranch(u) == IF u \in live /\ tree[u] # None THEN tree[u].req ELSE None

\* The commit takes the whole index, what a release left staged too.
EscalateFixFinalize(u, typed) ==
  /\ OnMain /\ question # None /\ question.mode # None /\ Len(log) < MaxCommits
  /\ dirty \/ staged # None
  /\ LET req == Resolved(Resolved(typed, question.req), OnBranch(u)) IN
       /\ req # None
       /\ log' = Append(log, [kind |-> "fix", unit |-> u, req |-> req])
  /\ dirty' = FALSE /\ staged' = None
  /\ ahead' = ahead \ {staged}
  /\ IF question.mode = "in-place"
     THEN /\ cmd' = Running("hint", u, None) /\ restale' = restale \cup {u}
          /\ Mended(u, HintLapses)
     ELSE UNCHANGED <<cmd, noteVars>>
  /\ UNCHANGED <<head, work, tree, asked, question, live, stale, merging>>

\* A commit that fails is rolled back by a hard reset; with the index it takes
\* the question file away, unless an earlier commit holds it.
FinalizeFails(lost) ==
  /\ OnMain /\ question # None /\ question.mode # None
  /\ dirty \/ staged # None
  /\ dirty' = FALSE /\ staged' = None
  /\ question' = IF lost THEN None ELSE question
  /\ UNCHANGED <<head, unitVars, log, ahead, live, stale, noteVars, merging, cmd>>

WriteStaleHintMarker ==
  /\ cmd.op = "hint" /\ cmd' = Idle
  /\ stale' = stale \cup {cmd.unit}
  /\ UNCHANGED <<head, unitVars, mainVars, ahead, live, noteVars, merging>>

\* A hint that cannot be written is passed over: RESOLVED_OK.
HintFails ==
  /\ cmd.op = "hint" /\ cmd' = Idle
  /\ Lapsed(cmd.unit, "hint failed")
  /\ UNCHANGED <<head, unitVars, mainVars, ahead, live, stale, restale, merging>>

\* The engineer may take the file of an earlier cycle away.
DropQuestion ==
  /\ OnMain /\ question # None /\ question' = None
  /\ UNCHANGED <<head, unitVars, log, dirty, staged, ahead, live, stale, noteVars, merging, cmd>>

-----------------------------------------------------------------------------
\* /aidlc-unit-sync

\* The markers go from the working tree before main is merged, and stay gone
\* when the merge fails; a log of main that cannot be had keeps them.
PreflightUnitSync(u, probed, conflict) ==
  /\ On(u) /\ ~merging
  /\ work' = [work EXCEPT ![u] = IF probed THEN Swept(u) ELSE @] /\ merging' = conflict
  /\ UNCHANGED <<head, tree, asked, mainVars, ahead, live, stale, noteVars, cmd>>

-----------------------------------------------------------------------------
\* /aidlc-unit-release

\* Mutant: the markers are not scanned.
PreflightUnitRelease_Unscanned(u) == ~DownstreamStale(u)

PreflightUnitRelease(u) == Swept(u) = None /\ ~DownstreamStale(u)

\* Mutant: a diff that is answered with nothing does not stop the release.
BeginRelease_Heedless(u, answered) ==
  /\ On(u) /\ ~merging /\ PreflightUnitRelease(u)
  /\ IF answered THEN Mended(u, {"diff"}) ELSE Lapsed(u, "diff")
  /\ head' = "main" /\ cmd' = Running("squash", u, None) /\ work' = [work EXCEPT ![u] = tree[u]]
  /\ UNCHANGED <<tree, asked, mainVars, ahead, live, stale, restale, merging>>

\* The sync, the preflight, the diff against main and the checkout of main.  A
\* diff that fails does not stop the release; one that is refused, or finds
\* nothing to release, is a sync.
BeginRelease(u, answered) ==
  /\ On(u) /\ ~merging /\ PreflightUnitRelease(u)
  /\ answered => Contributes(u)
  /\ IF Contributes(u) THEN Mended(u, {"diff"}) ELSE Lapsed(u, "diff")
  /\ head' = "main" /\ cmd' = Running("squash", u, None) /\ work' = [work EXCEPT ![u] = tree[u]]
  /\ UNCHANGED <<tree, asked, mainVars, ahead, live, stale, restale, merging>>

Squash ==
  /\ cmd.op = "squash"
  /\ staged' = cmd.unit /\ cmd' = Running("commit", cmd.unit, None)
  /\ UNCHANGED <<head, unitVars, log, question, dirty, ahead, live, stale, noteVars, merging>>

\* The squash or the commit fails: main is reset, and after a failed squash the
\* unit's branch is checked out again, which may fail.
Rollback(back) ==
  /\ cmd.op \in {"squash", "commit"} /\ cmd' = Idle
  /\ dirty' = FALSE /\ staged' = None
  /\ head' = IF cmd.op = "squash" /\ back THEN cmd.unit ELSE "main"
  /\ UNCHANGED <<unitVars, log, question, ahead, live, stale, noteVars, merging>>

CommitRelease ==
  /\ cmd.op = "commit" /\ Len(log) < MaxCommits
  /\ log' = Append(log, [kind |-> "release", unit |-> cmd.unit, req |-> None])
  /\ staged' = None /\ ahead' = ahead \ {cmd.unit}
  /\ cmd' = Running("archive", cmd.unit, None)
  /\ Mended(cmd.unit, {"diff"})
  /\ UNCHANGED <<head, work, tree, asked, question, dirty, live, stale, restale, merging>>

\* git branch -m; one that fails leaves the branch live, like a command cut off.
Archive ==
  /\ cmd.op = "archive" /\ cmd' = Idle
  /\ live' = live \ {cmd.unit}
  /\ UNCHANGED <<head, unitVars, mainVars, ahead, stale, noteVars, merging>>

-----------------------------------------------------------------------------
\* What the engineer types on the fix commands, or into the question file in
\* its stead: nothing, or what the unit asked last.
Typed(u) == {None} \cup (IF asked[u] = None THEN {} ELSE {asked[u].req})

EngineerStep ==
  \/ \E b \in Units \cup {"main"} : CheckoutBranch(b)
  \/ \E u \in Units : \/ Construct(u) \/ CommitQuestions(u) \/ CommitMarker(u)
                      \/ AbortMerge(u) \/ ResetHard(u)
  \/ \E mode \in Modes : AnswerQuestion(mode)
  \/ DropQuestion \/ CutOff

UnitStep ==
  \/ \E u \in Units, r \in Reqs : BeginEscalate(u, r)
  \/ WriteEscalationMarker
  \/ \E u \in Units, probed, conflict \in BOOLEAN : PreflightUnitSync(u, probed, conflict)

FixStep ==
  \/ \E u \in Units : \E typed \in Typed(u), written \in BOOLEAN :
       PreflightEscalateFix(u, typed, written)
  \/ \E u \in Units : EscalateFix(u)
  \/ \E u \in Units : \E typed \in Typed(u) : EscalateFixFinalize(u, typed)
  \/ \E lost \in BOOLEAN : FinalizeFails(lost)
  \/ WriteStaleHintMarker \/ HintFails

ReleaseStep ==
  \/ \E u \in Units, answered \in BOOLEAN : BeginRelease(u, answered)
  \/ \E back \in BOOLEAN : Rollback(back)
  \/ Squash \/ CommitRelease \/ Archive

EscalationNext == EngineerStep \/ UnitStep \/ FixStep \/ ReleaseStep
EscalationSpec == EscalationInit /\ [][EscalationNext]_escalationVars

-----------------------------------------------------------------------------
\* Every variable stays in its set; the marker files, the commits and the
\* command are records of the shapes above.
EscalationTypeOK ==
  /\ head \in Units \cup {"main"}
  /\ work \in [Units -> Markers] /\ tree \in [Units -> Markers]
  /\ asked \in [Units -> Markers]
  /\ log \in Seq(Commit)
  /\ question \in [unit: Units, req: Reqs \cup {None}, mode: Modes \cup {None}] \cup {None}
  /\ dirty \in BOOLEAN /\ merging \in BOOLEAN /\ staged \in Units \cup {None}
  /\ ahead \subseteq Units /\ live \subseteq Units /\ stale \subseteq Units /\ restale \subseteq Units
  /\ lapses \in [Units -> SUBSET Lapses]
  /\ cmd = Idle \/ cmd \in [op: {"mark"}, unit: Units, req: Reqs]
                \/ cmd \in [op: {"hint", "squash", "commit", "archive"}, unit: Units, req: {None}]

Open(u) == asked[u] # None /\ ~Fixed(u, asked[u])

LapsedOf(u, kinds) == lapses[u] \cap kinds # {}

\* The last request that a unit escalated, as long as no fix on main answers it,
\* has its marker file: neither a sync, whatever git answers, nor a branch left
\* and returned to, nor a release rolled back makes it disappear.  Two things
\* do: the next escalation, between its deletion and its write or cut off
\* there, and a hard reset over a marker that was not committed.
OpenEscalationsKeepTheirMarker ==
  \A u \in Units : Open(u) => \/ work[u] = asked[u]
                             \/ (cmd.op = "mark" /\ cmd.unit = u)
                             \/ "marker" \in lapses[u]

Releases(u) == /\ Len(log') = Len(log) + 1
               /\ log'[Len(log')].kind = "release" /\ log'[Len(log')].unit = u

\* A unit is released only when the change it escalated last has been fixed on
\* main, unless its marker was lost in one of those two ways: nothing between
\* the preflight and the release commit reopens one.
NoReleaseOverOpenEscalation ==
  [][\A u \in Units : Releases(u) => ~Open(u) \/ "marker" \in lapses[u]]_escalationVars

\* A release commit brings work of the unit to main that was not there, unless
\* git failed to say what the unit has: a release cut off before the branch is
\* archived is otherwise not made a second time.
ReleasesBringWork ==
  [][\A u \in Units : Releases(u) => u \in ahead \/ "diff" \in lapses[u]]_escalationVars

\* A unit whose inception documents were fixed in place is not released on
\* construction older than the fix, unless the hint of that fix was not
\* written, or question files were committed after it.
NoReleaseOfStaleWork ==
  [][\A u \in Units : Releases(u) => u \notin restale \/ LapsedOf(u, HintLapses)]_escalationVars

=============================================================================
