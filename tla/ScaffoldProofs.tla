----------------------------- MODULE ScaffoldProofs -----------------------------
(***************************************************************************)
(* The commands of the development scaffold that review, resume and        *)
(* report: what overlapping reviews leave out and what a finalize answers, *)
(* for every number of entries and moments; what resume advises, for any   *)
(* number of units; and what the progress report says of any units and any *)
(* dependencies between them.                                              *)
(***************************************************************************)
EXTENDS AuditReview, UnitWorkflow, Progress, Inductions, TLAPS

Named == {l.moment : l \in logs}

\* The types, as far as the arguments need them.
AuditTypeOK ==
  /\ clock \in Moments /\ staging \subseteq Moments
  /\ \A i \in items : i \in Item
  /\ IsFiniteSet(items)
  /\ \A l \in logs : l \in [moment: Moments, empty: BOOLEAN]
  /\ \A r \in reviews : /\ r.moment \in 1..clock
                        /\ r.since \in 0..(r.moment - 1)
  /\ told.ok \subseteq Moments /\ told.aged \subseteq Moments /\ told \in [ok: SUBSET Moments, aged: SUBSET Moments]

\* Where the windows begin, and what each review looked for: the blocks of its
\* window that had landed before its moment, bundled or missed.
WindowsAreWhole ==
  \A r \in reviews :
    /\ r.since = 0 \/ r.since \in Named
    /\ \A i \in items : i.kind = "block" /\ i.written >= r.since /\ i.landed < r.moment
                          => i \in r.missed \/ \E b \in r.bundle : b.nr = i.nr

\* A log, and a bundle that is staged, belong to a review; a review's bundle is
\* staged until it is finalized or aged, and a finalized one's log is there.
BundlesAreReviews ==
  /\ \A l \in logs : \E r \in reviews : r.moment = l.moment
  /\ \A m \in staging : \E r \in reviews : r.moment = m
  /\ \A r \in reviews : r.moment \in staging \cup told.ok \cup told.aged

\* The logs are finitely many: there is a latest one, and an earliest one after
\* any moment.  (Stated of the logs, as no induction on sets is needed then.)
LogsHaveEnds ==
  /\ Named # {} => \E m \in Named : \A n \in Named : n <= m
  /\ \A w \in Moments : (\E m \in Named : m > w) =>
       \E m \in Named : m > w /\ \A n \in Named : n > w => m <= n

AuditInv == AuditTypeOK /\ LogsHaveEnds /\ WindowsAreWhole /\ BundlesAreReviews /\ FinalizedHasItsLog
-----------------------------------------------------------------------------
LEMMA PriorLog ==
  ASSUME AuditTypeOK, LogsHaveEnds
  PROVE  /\ findPriorAuditLog = 0 \/ findPriorAuditLog \in Named
         /\ Named # {} => findPriorAuditLog \in Named
         /\ \A m \in Named : m <= findPriorAuditLog
         /\ Named \subseteq Moments
<1>1. Named \subseteq Moments
  BY DEF AuditTypeOK, Named
<1>2. CASE Named = {}
  BY <1>2 DEF findPriorAuditLog, Named
<1>3. CASE Named # {}
  <2>1. findPriorAuditLog = CHOOSE m \in Named : \A n \in Named : n <= m
    BY <1>3 DEF findPriorAuditLog, Named
  <2>2. \E m \in Named : \A n \in Named : n <= m
    BY <1>3 DEF LogsHaveEnds
  <2> HIDE DEF Named
  <2> QED BY <1>1, <2>1, <2>2
<1> QED BY <1>1, <1>2, <1>3

LEMMA AuditInitInv == AuditInit => AuditInv
  BY AuditAssumption, FS_EmptySet DEF AuditInit, AuditInv, AuditTypeOK, LogsHaveEnds, Named, WindowsAreWhole, BundlesAreReviews, FinalizedHasItsLog, Moments

LEMMA CollectKeeps ==
  ASSUME AuditInv, NEW aged \in SUBSET staging, NEW missed \in SUBSET Landed,
         auditReviewCollect(aged, missed)
  PROVE  AuditInv'
<1> USE DEF AuditInv
<1> DEFINE since == findPriorAuditLog
<1>1. PICK bundle :
        /\ bundle = Window(since) \ missed
        /\ reviews' = reviews \cup {[moment |-> clock, since |-> since,
                                     bundle |-> bundle, missed |-> missed]}
  BY DEF auditReviewCollect
<1>2. /\ \A r \in reviews : r.moment # clock
      /\ staging' = (staging \ aged) \cup {clock}
      /\ told' = [told EXCEPT !.aged = @ \cup aged]
      /\ clock' = clock /\ items' = items /\ logs' = logs
  BY DEF auditReviewCollect, cleanStaleStaging
<1>3. since \in 0..(clock - 1)
  <2>1. \A m \in Named : m \in 1..(clock - 1)
    BY <1>2, AuditAssumption DEF BundlesAreReviews, AuditTypeOK, Named, Moments
  <2> QED BY <2>1, PriorLog, AuditAssumption DEF AuditTypeOK, Moments
<1>4. AuditTypeOK'
  BY <1>1, <1>2, <1>3, AuditAssumption DEF AuditTypeOK, Moments
<1>5. WindowsAreWhole'
  <2>1. since = 0 \/ since \in Named'
    BY <1>2, PriorLog DEF Named
  <2>2. ASSUME NEW i \in items, i.kind = "block", i.written >= since, i.landed < clock
        PROVE  i \in missed \/ i \in bundle
    BY <1>1, <2>2, AuditAssumption DEF Window, Landed, sliceAuditByTimestamp, AuditTypeOK, Item, Moments, Uncommitted
  <2>3. Named' = Named
    BY <1>2 DEF Named
  <2> QED BY <1>1, <1>2, <2>1, <2>2, <2>3 DEF WindowsAreWhole
<1>9. told'.ok = told.ok /\ told'.aged = told.aged \cup aged
  BY <1>2 DEF AuditTypeOK
<1>10. clock \in staging' /\ \A n \in staging : n \in staging' \/ n \in told'.aged
  BY <1>2, <1>9
<1>6. BundlesAreReviews'
  <2>1. \E r \in reviews' : r.moment = clock
    <3>1. [moment |-> clock, since |-> since, bundle |-> bundle, missed |-> missed] \in reviews'
      BY <1>1
    <3>2. [moment |-> clock, since |-> since, bundle |-> bundle, missed |-> missed].moment = clock
      OBVIOUS
    <3> QED BY <3>1, <3>2
  <2>2. \A r \in reviews' : r.moment \in staging' \cup told'.ok \cup told'.aged
    BY <1>1, <1>9, <1>10 DEF BundlesAreReviews
  <2>3. \A r \in reviews : r \in reviews'
    BY <1>1
  <2> QED BY <1>2, <2>1, <2>2, <2>3 DEF BundlesAreReviews
<1>7. FinalizedHasItsLog'
  BY <1>2 DEF FinalizedHasItsLog, AuditTypeOK
<1>8. LogsHaveEnds'
  BY <1>2 DEF LogsHaveEnds, Named
<1> QED BY <1>4, <1>5, <1>6, <1>7, <1>8

LEMMA LogsKeep ==
  ASSUME AuditInv, NEW m \in Moments,
         \/ \E empty \in BOOLEAN : WriteLog(m, empty)
         \/ auditReviewFinalize(m)
  PROVE  AuditInv'
<1> USE DEF AuditInv
<1>1. ASSUME NEW empty \in BOOLEAN, WriteLog(m, empty) PROVE AuditInv'
  <2>1. /\ logs' = logs \cup {[moment |-> m, empty |-> empty]} /\ m \in staging
        /\ UNCHANGED <<clock, items, reviews, staging, told>>
    BY <1>1 DEF WriteLog
  <2>2. AuditTypeOK'
    BY <2>1 DEF AuditTypeOK, Moments
  <2>3. Named' = Named \cup {m}
    <3>1. \A n \in Named' : n \in Named \cup {m}
      BY <2>1 DEF Named
    <3>2. m \in Named' /\ \A n \in Named : n \in Named'
      <4>1. [moment |-> m, empty |-> empty] \in logs' /\ [moment |-> m, empty |-> empty].moment = m
        BY <2>1
      <4> QED BY <2>1, <4>1 DEF Named
    <3> QED BY <3>1, <3>2
  <2>7. Named \subseteq Moments
    BY DEF Named, AuditTypeOK
  <2>8. LogsHaveEnds'
    <3>1. Named' # {} => \E p \in Named' : \A n \in Named' : n <= p
      BY <2>3, <2>7 DEF LogsHaveEnds, Moments
    <3>2. ASSUME NEW w \in Moments, NEW q \in Named', q > w
          PROVE  \E p \in Named' : p > w /\ \A n \in Named' : n > w => p <= n
      <4>1. CASE \E p \in Named : p > w
        <5>1. PICK p \in Named : p > w /\ \A n \in Named : n > w => p <= n
          BY <4>1 DEF LogsHaveEnds
        <5>2. CASE m > w /\ m < p
          BY <2>3, <2>7, <5>1, <5>2 DEF Moments
        <5>3. CASE ~(m > w /\ m < p)
          BY <2>3, <2>7, <5>1, <5>3 DEF Moments
        <5> QED BY <5>2, <5>3
      <4>2. CASE ~\E p \in Named : p > w
        BY <2>3, <2>7, <3>2, <4>2 DEF Moments
      <4> QED BY <4>1, <4>2
    <3> QED BY <3>1, <3>2 DEF LogsHaveEnds
  <2>4. WindowsAreWhole'
    BY <2>1, <2>3 DEF WindowsAreWhole
  <2>5. BundlesAreReviews'
    BY <2>1 DEF BundlesAreReviews
  <2>6. FinalizedHasItsLog'
    BY <2>1 DEF FinalizedHasItsLog
  <2> QED BY <2>2, <2>4, <2>5, <2>6, <2>8
<1>2. CASE auditReviewFinalize(m)
  <2>1. /\ \E r \in reviews : r.moment = m
        /\ m \in staging => \E l \in logs : l.moment = m /\ ~l.empty
        /\ staging' = staging \ {m} /\ told' = [told EXCEPT !.ok = @ \cup {m}]
        /\ UNCHANGED <<clock, items, reviews, logs>>
    BY <1>2 DEF auditReviewFinalize
  <2>2. told'.ok = told.ok \cup {m} /\ told'.aged = told.aged
    BY <2>1 DEF AuditTypeOK
  <2>3. AuditTypeOK'
    BY <2>1, <2>2 DEF AuditTypeOK
  <2>4. WindowsAreWhole'
    BY <2>1 DEF WindowsAreWhole, Named
  <2>5. BundlesAreReviews'
    BY <2>1, <2>2 DEF BundlesAreReviews
  <2>6. m \notin told.aged => \E l \in logs : l.moment = m /\ ~l.empty
    BY <2>1 DEF BundlesAreReviews, FinalizedHasItsLog
  <2>7. FinalizedHasItsLog'
    BY <2>1, <2>2, <2>6 DEF FinalizedHasItsLog
  <2>8. LogsHaveEnds'
    BY <2>1 DEF LogsHaveEnds, Named
  <2> QED BY <2>3, <2>4, <2>5, <2>7, <2>8
<1> QED BY <1>1, <1>2

\* What is written or lands now is not older than any review.
LEMMA EntriesKeep ==
  ASSUME AuditInv,
         \/ \E kind \in EntryKinds, ofUnit \in BOOLEAN : Write(kind, ofUnit)
         \/ \E i \in items : Land(i)
  PROVE  AuditInv'
<1> USE DEF AuditInv
<1>1. UNCHANGED <<clock, reviews, logs, staging, told>>
  BY DEF Write, Land
<1>2. \A i \in items' : i \in items \/ i.landed >= clock
  BY AuditAssumption DEF Write, Land, AuditTypeOK, Item, Moments, Uncommitted
<1>3. (\A i \in items' : i \in Item) /\ IsFiniteSet(items')
  <2>1. ASSUME NEW kind \in EntryKinds, NEW ofUnit \in BOOLEAN, Write(kind, ofUnit)
        PROVE  (\A i \in items' : i \in Item) /\ IsFiniteSet(items')
    <3>1. Cardinality(items) \in Nat
      BY FS_CardinalityType DEF AuditTypeOK
    <3> DEFINE new == [nr |-> Cardinality(items) + 1, kind |-> kind, unit |-> ofUnit,
                       written |-> clock, landed |-> IF ofUnit THEN Uncommitted ELSE clock]
    <3>2. items' = items \cup {new} /\ Cardinality(items) < MaxItems
      BY <2>1 DEF Write
    <3>3. new \in Item
      <4>1. Cardinality(items) + 1 \in 1..MaxItems /\ kind \in EntryKinds /\ ofUnit \in BOOLEAN
        BY <3>1, <3>2, AuditAssumption
      <4>2. clock \in Moments /\ (IF ofUnit THEN Uncommitted ELSE clock) \in 1..Uncommitted
        BY AuditAssumption DEF AuditTypeOK, Moments, Uncommitted
      <4>. QED  BY <4>1, <4>2 DEF Item
    <3>4. IsFiniteSet(items \cup {new})
      BY FS_AddElement DEF AuditTypeOK
    <3> HIDE DEF new
    <3> QED BY <3>2, <3>3, <3>4 DEF AuditTypeOK
  <2>2. ASSUME NEW i \in items, Land(i)
        PROVE  (\A j \in items' : j \in Item) /\ IsFiniteSet(items')
    <3> DEFINE new == [i EXCEPT !.landed = clock]
    <3>1. items' = (items \ {i}) \cup {new}
      BY <2>2 DEF Land
    <3>2. new \in Item
      BY AuditAssumption DEF AuditTypeOK, Item, Moments, Uncommitted
    <3>3. IsFiniteSet((items \ {i}) \cup {new})
      BY FS_RemoveElement, FS_AddElement DEF AuditTypeOK
    <3> HIDE DEF new
    <3> QED BY <3>1, <3>2, <3>3 DEF AuditTypeOK
  <2> QED BY <2>1, <2>2
<1>4. AuditTypeOK'
  BY <1>1, <1>3 DEF AuditTypeOK
<1>5. WindowsAreWhole'
  <2> SUFFICES ASSUME NEW r \in reviews, NEW i \in items', i.kind = "block",
                      i.written >= r.since, i.landed < r.moment
               PROVE  i \in r.missed \/ \E b \in r.bundle : b.nr = i.nr
    BY <1>1 DEF WindowsAreWhole, Named
  <2>1. i \in items
    BY <1>2, <1>3, AuditAssumption DEF AuditTypeOK, Item, Moments, Uncommitted
  <2> QED BY <2>1 DEF WindowsAreWhole
<1>6. BundlesAreReviews' /\ FinalizedHasItsLog' /\ LogsHaveEnds'
  BY <1>1 DEF BundlesAreReviews, FinalizedHasItsLog, LogsHaveEnds, Named
<1> QED BY <1>4, <1>5, <1>6

LEMMA ClockKeeps == ASSUME AuditInv, ClockTicks \/ UNCHANGED auditVars PROVE AuditInv'
<1> USE DEF AuditInv
<1>1. clock' \in {clock, clock + 1} /\ clock' \in Moments
  BY AuditAssumption DEF ClockTicks, auditVars, AuditTypeOK, Moments
<1>2. UNCHANGED <<items, reviews, logs, staging, told>>
  BY DEF ClockTicks, auditVars
<1>3. AuditTypeOK'
  BY <1>1, <1>2 DEF AuditTypeOK, Moments
<1> QED BY <1>2, <1>3 DEF LogsHaveEnds, Named, WindowsAreWhole, BundlesAreReviews, FinalizedHasItsLog

\* Each review bundled what its window held, each finalized one has its log,
\* and the windows begin where an earlier log's review was made.
THEOREM AuditInvariant == AuditSpec => []AuditInv
<1>1. AuditInv /\ [AuditNext]_auditVars => AuditInv'
  <2> SUFFICES ASSUME AuditInv, [AuditNext]_auditVars PROVE AuditInv'
    OBVIOUS
  <2> QED BY CollectKeeps, LogsKeep, EntriesKeep, ClockKeeps DEF AuditNext
<1> QED BY <1>1, AuditInitInv, PTL DEF AuditSpec

\* A finalize that answered FINALIZE_OK (auditReviewFinalize) had the log of
\* its review, unless cleanStaleStaging had taken the bundle.
THEOREM FinalizedReviewsHaveLogs == AuditSpec => []FinalizedHasItsLog
BY AuditInvariant, PTL DEF AuditInv

LEMMA WholeWindowsLeaveNoGap == AuditInv => NoGapBetweenReviews
<1> SUFFICES ASSUME AuditInv, NEW i \in items, Past(i),
                    \A l \in logs : l.moment > i.written =>
                      /\ ~l.empty /\ ~(i.landed >= l.moment)
                      /\ \A r \in reviews : r.moment = l.moment => i \notin r.missed
             PROVE  Reviewed(i)
  BY DEF NoGapBetweenReviews
<1> USE DEF AuditInv
<1>1. i.written \in Moments /\ i.landed \in Nat /\ i.kind = "block"
  BY AuditAssumption DEF AuditTypeOK, Item, Past, Moments, Uncommitted
<1>2. Named \subseteq Moments
  BY PriorLog
<1>3. \E m \in Named : m > i.written
  <2>1. i.written < findPriorAuditLog
    BY DEF Past
  <2>2. findPriorAuditLog # 0
    BY <1>1, <2>1 DEF Moments
  <2>3. findPriorAuditLog \in Named
    BY <2>2, PriorLog
  <2> QED BY <1>1, <1>2, <2>1, <2>3 DEF Moments
<1>4. PICK m \in Named : m > i.written /\ \A n \in Named : n > i.written => m <= n
  BY <1>1, <1>3 DEF LogsHaveEnds
<1>5. PICK l \in logs : l.moment = m
  BY <1>4 DEF Named
<1>6. PICK r \in reviews : r.moment = m
  BY <1>5 DEF BundlesAreReviews
<1>7. i.landed < r.moment /\ ~l.empty /\ i \notin r.missed
  BY <1>1, <1>2, <1>4, <1>5, <1>6 DEF Moments
<1>8. r.since < m /\ r.since \in Nat
  BY <1>2, <1>4, <1>6 DEF AuditTypeOK, Moments
<1>9. i.written >= r.since
  BY <1>1, <1>2, <1>4, <1>6, <1>8 DEF WindowsAreWhole, Moments
<1> QED BY <1>1, <1>5, <1>6, <1>7, <1>9 DEF WindowsAreWhole, Reviewed

\* However reviews overlap, are left or repeated, and whatever files their
\* collects cannot read, a block is unreviewed only if it landed after a review
\* younger than it, or that review's log is empty, or its collect missed it.
THEOREM ReviewsLeaveNoGap == AuditSpec => []NoGapBetweenReviews
BY AuditInvariant, WholeWindowsLeaveNoGap, PTL
-----------------------------------------------------------------------------
UnitRecord ==
  [ branch: {"missing", "live", "archived"}, inputs: BOOLEAN, inception: BOOLEAN, designed: SUBSET DesignDirs,
    flat: Plans \cup {Nothing}, root: Plans, built: BOOLEAN, istate: State \cup {Nothing},
    cstate: State \cup {Nothing}, completed: Stages13 \cup {Nothing}, change: QuestionFile, redesign: QuestionFile,
    sync: BOOLEAN, marker: MarkerStates, filed: FiledStates, merge: MergeStates, script: BOOLEAN ]

Projects == [inputs: BOOLEAN, units: BOOLEAN, stories: BOOLEAN, skipped: BOOLEAN, state: BOOLEAN]
Wants == [change: Descriptions \cup {Nothing}, redesign: Descriptions \cup {Nothing},
          cut: SUBSET {"change", "redesign"}]

WorkflowTypes ==
  /\ at \in Roster \cup {0}
  /\ project \in Projects
  /\ unit \in [Roster -> UnitRecord]
  /\ wanted \in [Roster -> Wants]

\* The project's inception comes before every branch, and the branch checked
\* out is not archived.
ProjectFirst ==
  /\ at # 0 => project.units /\ unit[at].branch = "live"
  /\ project.units => project.stories \/ project.skipped
  /\ \A u \in Roster : unit[u].branch = "live" => project.units

\* What the state files of a unit say of the rest of what lies on its branch.
SkippedBy(r) == IF r.flat # Nothing THEN r.flat ELSE r.root
Begun(r) == r.istate # Nothing \/ r.cstate # Nothing \/ r.completed # Nothing
StateFilesAgree(r) ==
  /\ r.istate # Nothing => r.inputs /\ r.istate.cluster = "planner"
  /\ r.inception => EnvelopeOf(r.istate) = "none"
  /\ ~r.inception => r.flat = Nothing /\ r.root = {}
  /\ r.cstate # Nothing => r.cstate.cluster # "planner"
  /\ r.cstate # Nothing /\ r.cstate.cluster = "coder" => DesignDirs \ SkippedBy(r) \subseteq r.designed
  /\ r.change.answers # "no file" => Begun(r)

\* The latest question files hold what was wanted last, or nothing when they
\* were made for a description that never got there.
Recovered(r, w) ==
  /\ r.change.text = w.change \/ (r.change.text = Nothing /\ "change" \in w.cut)
  /\ r.redesign.text = w.redesign \/ (r.redesign.text = Nothing /\ "redesign" \in w.cut)

WorkflowInv ==
  /\ WorkflowTypes /\ ProjectFirst
  /\ \A u \in Roster : StateFilesAgree(unit[u]) /\ Recovered(unit[u], wanted[u])

LEMMA NothingIsNoOther ==
  /\ 0 \notin Roster
  /\ \A x \in Descriptions \cup Plans \cup Stages13 \cup State : x # Nothing
  /\ {} \in Plans /\ \A p \in Plans : p \subseteq DesignDirs
  /\ \A c \in Clusters, s \in Stages13, e \in Envelopes :
       /\ StateFor(c, s, e) \in State /\ StateFor(c, s, e).cluster = c /\ StateFor(c, s, e).envelope = e
  /\ \A x \in State : x.cluster \in Clusters /\ x.stage \in Stages13 /\ x.envelope \in Envelopes
                     /\ EnvelopeOf(x) = x.envelope
  /\ EnvelopeOf(Nothing) = "none"
BY WorkflowAssumption DEF Roster, Plans, State, StateFor, EnvelopeOf, DesignDirs

LEMMA WorkflowStarts == WorkflowInit => WorkflowInv
<1>. SUFFICES ASSUME WorkflowInit PROVE WorkflowInv
  OBVIOUS
<1>1. NewUnit \in UnitRecord
  BY NothingIsNoOther DEF NewUnit, UnitRecord, NoFile, QuestionFile, MarkerStates, FiledStates, MergeStates
<1>2. StateFilesAgree(NewUnit) /\ Recovered(NewUnit, [change |-> Nothing, redesign |-> Nothing, cut |-> {}])
  BY DEF NewUnit, StateFilesAgree, Recovered, NoFile
<1>3. WorkflowTypes
  BY <1>1 DEF WorkflowInit, WorkflowTypes, Wants, Projects
<1>4. ProjectFirst
  BY DEF WorkflowInit, ProjectFirst, NewUnit
<1>. QED  BY <1>2, <1>3, <1>4 DEF WorkflowInit, WorkflowInv

\* One unit's branch changes.
LEMMA UnitMoves ==
  ASSUME WorkflowInv, NEW u \in Roster, NEW r \in UnitRecord, NEW w \in Wants,
         unit' = [unit EXCEPT ![u] = r], wanted' = [wanted EXCEPT ![u] = w],
         StateFilesAgree(r), Recovered(r, w),
         UNCHANGED project, at' \in Roster \cup {0}, at' # 0 \/ r.branch = "live" => project.units,
         at' # 0 => IF at' = u THEN r.branch = "live" ELSE unit[at'].branch = "live"
  PROVE  WorkflowInv'
<1>1. unit \in [Roster -> UnitRecord] /\ wanted \in [Roster -> Wants]
  BY DEF WorkflowInv, WorkflowTypes
<1>2. unit' \in [Roster -> UnitRecord] /\ \A v \in Roster : unit'[v] = IF v = u THEN r ELSE unit[v]
  BY <1>1
<1>3. wanted' \in [Roster -> Wants] /\ \A v \in Roster : wanted'[v] = IF v = u THEN w ELSE wanted[v]
  BY <1>1
<1>4. WorkflowTypes'
  BY <1>2, <1>3 DEF WorkflowInv, WorkflowTypes
<1>5. ProjectFirst'
  BY <1>2 DEF WorkflowInv, ProjectFirst
<1>6. \A v \in Roster : StateFilesAgree(unit'[v]) /\ Recovered(unit'[v], wanted'[v])
  BY <1>2, <1>3 DEF WorkflowInv
<1>. QED  BY <1>4, <1>5, <1>6 DEF WorkflowInv

LEMMA UnitKnown ==
  ASSUME WorkflowInv, NEW u \in Roster
  PROVE  /\ unit[u] \in UnitRecord /\ StateFilesAgree(unit[u]) /\ Recovered(unit[u], wanted[u])
         /\ wanted[u] \in Wants /\ wanted = [wanted EXCEPT ![u] = wanted[u]]
         /\ at \in Roster \cup {0} /\ (at # 0 => project.units /\ unit[at].branch = "live")
         /\ (unit[u].branch = "live" => project.units)
BY NothingIsNoOther DEF WorkflowInv, WorkflowTypes, ProjectFirst

\* A step on one unit's branch that leaves the text of the question files.
LEMMA UnitStep ==
  ASSUME WorkflowInv, NEW u \in Roster, NEW r \in UnitRecord, unit' = [unit EXCEPT ![u] = r],
         StateFilesAgree(r), r.branch = unit[u].branch, r.change.text = unit[u].change.text, r.redesign.text = unit[u].redesign.text,
         UNCHANGED <<at, project, wanted>>
  PROVE  WorkflowInv'
<1>. USE UnitKnown
<1>1. Recovered(r, wanted[u])
  BY DEF Recovered
<1>2. wanted' = [wanted EXCEPT ![u] = wanted[u]] /\ UNCHANGED project /\ at' \in Roster \cup {0}
      /\ (at' # 0 \/ r.branch = "live" => project.units)
      /\ (at' # 0 => IF at' = u THEN r.branch = "live" ELSE unit[at'].branch = "live")
  OBVIOUS
<1>. QED  BY <1>1, <1>2, UnitMoves

LEMMA InceptionBegins ==
  ASSUME WorkflowInv, NEW u \in Roster, scaffoldUnitInception(u)
  PROVE  WorkflowInv'
<1>1. PICK o \in UnitRecord : o = unit[u] /\ StateFilesAgree(o)
  BY UnitKnown
<1>. DEFINE s == StateFor("planner", "inception", "gate")
<1>2. /\ s \in State /\ s.cluster = "planner" /\ s # Nothing
      /\ o.inputs /\ ~o.inception
  BY <1>1, NothingIsNoOther DEF scaffoldUnitInception, preflightUnitInception, Clusters, Stages13, Envelopes
<1>. DEFINE r == [o EXCEPT !.istate = s]
<1>3. unit' = [unit EXCEPT ![u] = r] /\ UNCHANGED <<at, project, wanted>>
  BY <1>1 DEF scaffoldUnitInception
<1>4. r \in UnitRecord
  BY <1>2 DEF UnitRecord
<1>5. /\ r.istate = s /\ r.inputs = o.inputs /\ r.inception = o.inception /\ r.flat = o.flat
      /\ r.root = o.root /\ r.designed = o.designed /\ r.cstate = o.cstate /\ r.completed = o.completed
      /\ r.change = o.change /\ r.redesign = o.redesign /\ r.branch = o.branch
  BY DEF UnitRecord
<1>. HIDE DEF r, s
<1>6. StateFilesAgree(r)
  BY <1>1, <1>2, <1>5 DEF StateFilesAgree, Begun, SkippedBy
<1>. QED  BY <1>1, <1>2, <1>3, <1>4, <1>5, <1>6, UnitStep

LEMMA DesignBegins ==
  ASSUME WorkflowInv, NEW u \in Roster, UnitDesign(u)
  PROVE  WorkflowInv'
<1>1. PICK o \in UnitRecord : o = unit[u] /\ StateFilesAgree(o)
  BY UnitKnown
<1>. DEFINE s == StateFor("functional-designer", "design", "gate")
<1>2. /\ s \in State /\ s.cluster = "functional-designer" /\ s # Nothing
  BY <1>1, NothingIsNoOther DEF Clusters, Stages13, Envelopes
<1>. DEFINE r == [o EXCEPT !.cstate = s]
<1>3. unit' = [unit EXCEPT ![u] = r] /\ UNCHANGED <<at, project, wanted>>
  BY <1>1 DEF UnitDesign
<1>4. r \in UnitRecord
  BY <1>2 DEF UnitRecord
<1>5. /\ r.cstate = s /\ r.inputs = o.inputs /\ r.inception = o.inception /\ r.flat = o.flat
      /\ r.root = o.root /\ r.designed = o.designed /\ r.istate = o.istate /\ r.completed = o.completed
      /\ r.change = o.change /\ r.redesign = o.redesign /\ r.branch = o.branch
  BY DEF UnitRecord
<1>. HIDE DEF r, s
<1>6. StateFilesAgree(r)
  BY <1>1, <1>2, <1>5 DEF StateFilesAgree, Begun, SkippedBy
<1>. QED  BY <1>1, <1>2, <1>3, <1>4, <1>5, <1>6, UnitStep

LEMMA ConstructionBegins ==
  ASSUME WorkflowInv, NEW u \in Roster, UnitConstruct(u)
  PROVE  WorkflowInv'
<1>1. PICK o \in UnitRecord : o = unit[u] /\ StateFilesAgree(o)
  BY UnitKnown
<1>. DEFINE s == StateFor("coder", "code", "gate")
<1>2. /\ s \in State /\ s.cluster = "coder" /\ s # Nothing
      /\ DesignDirs \ SkippedBy(o) \subseteq o.designed
  BY <1>1, NothingIsNoOther DEF UnitConstruct, preflightUnitConstruct, getSkippedStages, SkippedBy, Clusters, Stages13, Envelopes
<1>. DEFINE r == [o EXCEPT !.cstate = s]
<1>3. unit' = [unit EXCEPT ![u] = r] /\ UNCHANGED <<at, project, wanted>>
  BY <1>1 DEF UnitConstruct
<1>4. r \in UnitRecord
  BY <1>2 DEF UnitRecord
<1>5. /\ r.cstate = s /\ r.inputs = o.inputs /\ r.inception = o.inception /\ r.flat = o.flat
      /\ r.root = o.root /\ r.designed = o.designed /\ r.istate = o.istate /\ r.completed = o.completed
      /\ r.change = o.change /\ r.redesign = o.redesign /\ r.branch = o.branch
  BY DEF UnitRecord
<1>. HIDE DEF r, s
<1>6. StateFilesAgree(r)
  BY <1>1, <1>2, <1>5 DEF StateFilesAgree, Begun, SkippedBy
<1>. QED  BY <1>1, <1>2, <1>3, <1>4, <1>5, <1>6, UnitStep

LEMMA ConstructionRewinds ==
  ASSUME WorkflowInv, NEW u \in Roster, Rewind(u)
  PROVE  WorkflowInv'
<1>1. PICK o \in UnitRecord : o = unit[u] /\ StateFilesAgree(o)
  BY UnitKnown
<1>. DEFINE s == StateFor("functional-designer", "design", "gate")
<1>2. /\ s \in State /\ s.cluster = "functional-designer" /\ s # Nothing
  BY <1>1, NothingIsNoOther DEF Clusters, Stages13, Envelopes
<1>. DEFINE r == [o EXCEPT !.cstate = s]
<1>3. unit' = [unit EXCEPT ![u] = r] /\ UNCHANGED <<at, project, wanted>>
  BY <1>1 DEF Rewind
<1>4. r \in UnitRecord
  BY <1>2 DEF UnitRecord
<1>5. /\ r.cstate = s /\ r.inputs = o.inputs /\ r.inception = o.inception /\ r.flat = o.flat
      /\ r.root = o.root /\ r.designed = o.designed /\ r.istate = o.istate /\ r.completed = o.completed
      /\ r.change = o.change /\ r.redesign = o.redesign /\ r.branch = o.branch
  BY DEF UnitRecord
<1>. HIDE DEF r, s
<1>6. StateFilesAgree(r)
  BY <1>1, <1>2, <1>5 DEF StateFilesAgree, Begun, SkippedBy
<1>. QED  BY <1>1, <1>2, <1>3, <1>4, <1>5, <1>6, UnitStep

LEMMA InputsAreAuthored ==
  ASSUME WorkflowInv, NEW u \in Roster, AuthorInputs(u)
  PROVE  WorkflowInv'
<1>1. PICK o \in UnitRecord : o = unit[u] /\ StateFilesAgree(o)
  BY UnitKnown
<1>. DEFINE r == [o EXCEPT !.inputs = TRUE]
<1>3. unit' = [unit EXCEPT ![u] = r] /\ UNCHANGED <<at, project, wanted>>
  BY <1>1 DEF AuthorInputs
<1>4. r \in UnitRecord
  BY DEF UnitRecord
<1>5. /\ r.inputs = TRUE /\ r.inception = o.inception /\ r.flat = o.flat /\ r.root = o.root
      /\ r.designed = o.designed /\ r.istate = o.istate /\ r.cstate = o.cstate /\ r.completed = o.completed
      /\ r.change = o.change /\ r.redesign = o.redesign /\ r.branch = o.branch
  BY DEF UnitRecord
<1>. HIDE DEF r
<1>6. StateFilesAgree(r)
  BY <1>1, <1>5 DEF StateFilesAgree, Begun, SkippedBy
<1>. QED  BY <1>1, <1>3, <1>4, <1>5, <1>6, UnitStep

\* What lies beside the documents and question files: markers, the merge of
\* main, the question a sync asks.
Aside(o, m, f, g, y) == [o EXCEPT !.marker = m, !.filed = f, !.merge = g, !.sync = y]

LEMMA AsideIsApart ==
  ASSUME WorkflowInv, NEW u \in Roster, NEW r, NEW m \in MarkerStates, NEW f \in FiledStates,
         NEW g \in MergeStates, NEW y \in BOOLEAN, r = Aside(unit[u], m, f, g, y)
  PROVE  /\ r \in UnitRecord /\ StateFilesAgree(r) /\ Recovered(r, wanted[u]) /\ r.branch = unit[u].branch
         /\ r.change.text = unit[u].change.text /\ r.redesign.text = unit[u].redesign.text
<1>1. PICK o \in UnitRecord : o = unit[u] /\ StateFilesAgree(o) /\ Recovered(o, wanted[u])
  BY UnitKnown
<1>2. r \in UnitRecord
  BY <1>1 DEF Aside, UnitRecord
<1>3. /\ r.inputs = o.inputs /\ r.inception = o.inception /\ r.flat = o.flat /\ r.root = o.root
      /\ r.designed = o.designed /\ r.istate = o.istate /\ r.cstate = o.cstate /\ r.completed = o.completed
      /\ r.change = o.change /\ r.redesign = o.redesign /\ r.branch = o.branch
  BY <1>1 DEF Aside, UnitRecord
<1>4. StateFilesAgree(r)
  BY <1>1, <1>3 DEF StateFilesAgree, Begun, SkippedBy
<1>. QED  BY <1>1, <1>2, <1>3, <1>4 DEF Recovered

LEMMA MarkerLeft ==
  ASSUME WorkflowInv, NEW u \in Roster
  PROVE  \E m \in MarkerStates : BranchLeft(u) = Aside(unit[u], m, unit[u].filed, unit[u].merge, unit[u].sync)
<1>1. PICK o \in UnitRecord : o = unit[u]
  BY UnitKnown
<1>. DEFINE m == IF o.filed = "none" THEN o.marker ELSE o.filed
<1>2. m \in MarkerStates
  BY DEF UnitRecord, MarkerStates, FiledStates
<1>3. BranchLeft(u) = [o EXCEPT !.marker = m]
  BY <1>1 DEF BranchLeft
<1>. HIDE DEF m
<1>4. [o EXCEPT !.marker = m] = Aside(o, m, o.filed, o.merge, o.sync)
  BY DEF UnitRecord, Aside
<1>. QED  BY <1>1, <1>2, <1>3, <1>4

\* A sync, its question, the merge and the marker leave all documents alone.
LEMMA AsideStep ==
  ASSUME WorkflowInv, NEW u \in Roster,
         \/ \E fixed, asks \in BOOLEAN : preflightUnitSync(u, fixed, asks)
         \/ \E resolved \in BOOLEAN : EndMerge(u, resolved)
         \/ AnswerSync(u) \/ MainClashes(u) \/ CommitEscalation(u) \/ SpoilMarker(u)
  PROVE  WorkflowInv'
<1>1. PICK o \in UnitRecord : o = unit[u]
  BY UnitKnown
<1>2. o.marker \in MarkerStates /\ o.filed \in FiledStates /\ o.merge \in MergeStates /\ o.sync \in BOOLEAN
  BY DEF UnitRecord
<1>. DEFINE Moved == \E m \in MarkerStates, f \in FiledStates, g \in MergeStates, y \in BOOLEAN :
                      unit' = [unit EXCEPT ![u] = Aside(o, m, f, g, y)]
<1>3. Moved
  <2>1. ASSUME NEW fixed \in BOOLEAN, NEW asks \in BOOLEAN, preflightUnitSync(u, fixed, asks) PROVE Moved
    <3>. DEFINE m == IF fixed THEN "none" ELSE o.marker
                g == IF o.merge = "clash" THEN "stopped" ELSE o.merge
                y == IF o.merge = "clash" THEN o.sync ELSE asks
    <3>1. m \in MarkerStates /\ g \in MergeStates /\ y \in BOOLEAN
      BY <1>2 DEF MarkerStates, MergeStates
    <3>2. unit' = [unit EXCEPT ![u] = [o EXCEPT !.marker = m, !.merge = g, !.sync = y]]
      BY <1>1, <2>1 DEF preflightUnitSync
    <3>. HIDE DEF m, g, y
    <3>3. [o EXCEPT !.marker = m, !.merge = g, !.sync = y] = Aside(o, m, o.filed, g, y)
      BY DEF UnitRecord, Aside
    <3>. QED  BY <1>2, <3>1, <3>2, <3>3
  <2>2. ASSUME NEW resolved \in BOOLEAN, EndMerge(u, resolved) PROVE Moved
    <3>. DEFINE g == IF resolved THEN "clean" ELSE "clash"
    <3>1. g \in MergeStates
      BY DEF MergeStates
    <3>2. unit' = [unit EXCEPT ![u] = [o EXCEPT !.merge = g]]
      BY <1>1, <2>2 DEF EndMerge
    <3>. HIDE DEF g
    <3>3. [o EXCEPT !.merge = g] = Aside(o, o.marker, o.filed, g, o.sync)
      BY DEF UnitRecord, Aside
    <3>. QED  BY <1>2, <3>1, <3>2, <3>3
  <2>3. ASSUME AnswerSync(u) PROVE Moved
    <3>1. unit' = [unit EXCEPT ![u] = [o EXCEPT !.sync = FALSE]]
      BY <1>1, <2>3 DEF AnswerSync
    <3>2. [o EXCEPT !.sync = FALSE] = Aside(o, o.marker, o.filed, o.merge, FALSE)
      BY DEF UnitRecord, Aside
    <3>. QED  BY <1>2, <3>1, <3>2
  <2>4. ASSUME MainClashes(u) PROVE Moved
    <3>1. unit' = [unit EXCEPT ![u] = [o EXCEPT !.merge = "clash"]] /\ "clash" \in MergeStates
      BY <1>1, <2>4 DEF MainClashes, MergeStates
    <3>2. [o EXCEPT !.merge = "clash"] = Aside(o, o.marker, o.filed, "clash", o.sync)
      BY DEF UnitRecord, Aside
    <3>. QED  BY <1>2, <3>1, <3>2
  <2>5. ASSUME CommitEscalation(u) PROVE Moved
    <3>. DEFINE held == IF o.marker = "renewed" THEN "pending" ELSE o.marker
    <3>1. held \in MarkerStates /\ held \in FiledStates
      BY <1>2 DEF MarkerStates, FiledStates
    <3>2. unit' = [unit EXCEPT ![u] = [o EXCEPT !.marker = held, !.filed = held]]
      BY <1>1, <2>5 DEF CommitEscalation
    <3>. HIDE DEF held
    <3>3. [o EXCEPT !.marker = held, !.filed = held] = Aside(o, held, held, o.merge, o.sync)
      BY DEF UnitRecord, Aside
    <3>. QED  BY <1>2, <3>1, <3>2, <3>3
  <2>6. ASSUME SpoilMarker(u) PROVE Moved
    <3>1. unit' = [unit EXCEPT ![u] = [o EXCEPT !.marker = "corrupt"]] /\ "corrupt" \in MarkerStates
      BY <1>1, <2>6 DEF SpoilMarker, MarkerStates
    <3>2. [o EXCEPT !.marker = "corrupt"] = Aside(o, "corrupt", o.filed, o.merge, o.sync)
      BY DEF UnitRecord, Aside
    <3>. QED  BY <1>2, <3>1, <3>2
  <2>. QED  BY <2>1, <2>2, <2>3, <2>4, <2>5, <2>6
<1>4. PICK m \in MarkerStates, f \in FiledStates, g \in MergeStates, y \in BOOLEAN :
        unit' = [unit EXCEPT ![u] = Aside(o, m, f, g, y)]
  BY <1>3
<1>5. UNCHANGED <<at, project, wanted>>
  BY DEF preflightUnitSync, EndMerge, AnswerSync, MainClashes, CommitEscalation, SpoilMarker
<1>. DEFINE r == Aside(o, m, f, g, y)
<1>6. /\ r \in UnitRecord /\ StateFilesAgree(r) /\ r.branch = unit[u].branch
      /\ r.change.text = unit[u].change.text /\ r.redesign.text = unit[u].redesign.text
  BY <1>1, AsideIsApart
<1>7. unit' = [unit EXCEPT ![u] = r]
  BY <1>4
<1>. HIDE DEF r
<1>. QED  BY <1>5, <1>6, <1>7, UnitStep

LEMMA ChangeIsAnswered ==
  ASSUME WorkflowInv, NEW u \in Roster, AnswerChange(u)
  PROVE  WorkflowInv'
<1>1. PICK o \in UnitRecord : o = unit[u] /\ StateFilesAgree(o)
  BY UnitKnown
<1>2. /\ [o.change EXCEPT !.answers = "all"] \in QuestionFile /\ o.change.answers # "no file"
      /\ [o.change EXCEPT !.answers = "all"].text = o.change.text
  BY <1>1 DEF AnswerChange, UnitRecord, QuestionFile
<1>. DEFINE r == [o EXCEPT !.change = [o.change EXCEPT !.answers = "all"]]
<1>3. unit' = [unit EXCEPT ![u] = r] /\ UNCHANGED <<at, project, wanted>>
  BY <1>1 DEF AnswerChange
<1>4. r \in UnitRecord
  BY <1>2 DEF UnitRecord
<1>5. /\ r.change = [o.change EXCEPT !.answers = "all"] /\ r.inputs = o.inputs /\ r.inception = o.inception /\ r.flat = o.flat
      /\ r.root = o.root /\ r.designed = o.designed /\ r.istate = o.istate /\ r.cstate = o.cstate
      /\ r.completed = o.completed /\ r.redesign = o.redesign /\ r.branch = o.branch
  BY DEF UnitRecord
<1>. HIDE DEF r
<1>6. StateFilesAgree(r)
  BY <1>1, <1>2, <1>5 DEF StateFilesAgree, Begun, SkippedBy
<1>. QED  BY <1>1, <1>2, <1>3, <1>4, <1>5, <1>6, UnitStep

LEMMA RedesignIsAnswered ==
  ASSUME WorkflowInv, NEW u \in Roster, NEW how \in {"last only", "all"}, AnswerRedesign(u, how)
  PROVE  WorkflowInv'
<1>1. PICK o \in UnitRecord : o = unit[u] /\ StateFilesAgree(o)
  BY UnitKnown
<1>2. /\ [o.redesign EXCEPT !.answers = how] \in QuestionFile
      /\ [o.redesign EXCEPT !.answers = how].text = o.redesign.text
  BY <1>1 DEF UnitRecord, QuestionFile
<1>. DEFINE r == [o EXCEPT !.redesign = [o.redesign EXCEPT !.answers = how]]
<1>3. unit' = [unit EXCEPT ![u] = r] /\ UNCHANGED <<at, project, wanted>>
  BY <1>1 DEF AnswerRedesign
<1>4. r \in UnitRecord
  BY <1>2 DEF UnitRecord
<1>5. /\ r.redesign = [o.redesign EXCEPT !.answers = how] /\ r.inputs = o.inputs /\ r.inception = o.inception /\ r.flat = o.flat
      /\ r.root = o.root /\ r.designed = o.designed /\ r.istate = o.istate /\ r.cstate = o.cstate
      /\ r.completed = o.completed /\ r.change = o.change /\ r.branch = o.branch
  BY DEF UnitRecord
<1>. HIDE DEF r
<1>6. StateFilesAgree(r)
  BY <1>1, <1>2, <1>5 DEF StateFilesAgree, Begun, SkippedBy
<1>. QED  BY <1>1, <1>2, <1>3, <1>4, <1>5, <1>6, UnitStep

LEMMA InceptionIsApproved ==
  ASSUME WorkflowInv, NEW u \in Roster, NEW where \in {"flat", "root"}, NEW plan \in Plans, NEW kept \in BOOLEAN,
         ApproveInception(u, where, plan, kept)
  PROVE  WorkflowInv'
<1>1. PICK o \in UnitRecord : o = unit[u] /\ StateFilesAgree(o)
  BY UnitKnown
<1>. DEFINE i == IF kept THEN [o.istate EXCEPT !.envelope = "none"] ELSE Nothing
            f == IF where = "flat" THEN plan ELSE o.flat
            g == IF where = "root" THEN plan ELSE o.root
<1>2. /\ i \in State \cup {Nothing} /\ f \in Plans \cup {Nothing} /\ g \in Plans /\ "inception" \in Stages13
      /\ "inception" # Nothing /\ EnvelopeOf(i) = "none" /\ SkippedBy(o) = {}
      /\ i # Nothing => o.inputs /\ i.cluster = "planner"
      /\ o.cstate # Nothing /\ o.cstate.cluster = "coder" => DesignDirs \subseteq o.designed
  <2>1. o.istate \in State /\ o.istate # Nothing /\ EnvelopeOf(o.istate) = "gate"
    BY <1>1, NothingIsNoOther DEF ApproveInception, UnitRecord
  <2>2. ~o.inception /\ o.flat = Nothing /\ o.root = {} /\ o.inputs /\ o.istate.cluster = "planner"
    BY <1>1, <2>1 DEF StateFilesAgree
  <2>3. SkippedBy(o) = {} /\ f \in Plans \cup {Nothing} /\ g \in Plans
    BY <2>2, NothingIsNoOther DEF SkippedBy
  <2>4. DesignDirs \ SkippedBy(o) = DesignDirs
    BY <2>3
  <2>5. o.cstate # Nothing /\ o.cstate.cluster = "coder" => DesignDirs \subseteq o.designed
    BY <1>1, <2>4 DEF StateFilesAgree
  <2>6. "inception" \in Stages13 /\ "inception" # Nothing
    BY NothingIsNoOther DEF Stages13
  <2>. DEFINE k == [o.istate EXCEPT !.envelope = "none"]
  <2>7. k \in State /\ k.cluster = "planner" /\ k.envelope = "none"
    BY <2>1, <2>2 DEF State, Envelopes
  <2>8. i = k \/ i = Nothing
    OBVIOUS
  <2>. HIDE DEF i, f, g, k
  <2>9. i \in State \cup {Nothing} /\ EnvelopeOf(i) = "none" /\ (i # Nothing => i.cluster = "planner")
    BY <2>7, <2>8, NothingIsNoOther
  <2>. QED  BY <2>2, <2>3, <2>5, <2>6, <2>9
<1>. DEFINE r == [o EXCEPT !.istate = i, !.inception = TRUE, !.completed = "inception", !.flat = f, !.root = g]
<1>3. unit' = [unit EXCEPT ![u] = r] /\ UNCHANGED <<at, project, wanted>>
  BY <1>1 DEF ApproveInception
<1>4. r \in UnitRecord
  BY <1>2 DEF UnitRecord
<1>5. /\ r.istate = i /\ r.inception = TRUE /\ r.completed = "inception" /\ r.flat = f
      /\ r.root = g /\ r.inputs = o.inputs /\ r.designed = o.designed /\ r.cstate = o.cstate
      /\ r.change = o.change /\ r.redesign = o.redesign /\ r.branch = o.branch
  BY DEF UnitRecord
<1>. HIDE DEF r, i, f, g
<1>6. StateFilesAgree(r)
  BY <1>1, <1>2, <1>5 DEF StateFilesAgree, Begun, SkippedBy
<1>. QED  BY <1>1, <1>2, <1>3, <1>4, <1>5, <1>6, UnitStep

LEMMA StageIsApproved ==
  ASSUME WorkflowInv, NEW u \in Roster, ApproveStage(u), unit[u].cstate.cluster # "coder"
  PROVE  WorkflowInv'
<1>1. PICK o \in UnitRecord : o = unit[u] /\ StateFilesAgree(o)
  BY UnitKnown
<1>. DEFINE first == o.cstate.cluster = "functional-designer"
            more == o.designed \cup ((IF first THEN {"functional-design"} ELSE DesignDirs \ {"functional-design"}) \ getSkippedStages(u))
            s == IF first THEN StateFor("systems-designer", "design", "gate") ELSE StateFor("systems-designer", "design", "none")
<1>2. /\ more \in SUBSET DesignDirs /\ s \in State /\ s.cluster = "systems-designer" /\ s # Nothing
      /\ "design" \in Stages13 /\ "design" # Nothing
  <2>1. o.designed \in SUBSET DesignDirs
    BY DEF UnitRecord
  <2>2. more \in SUBSET DesignDirs
    BY <2>1 DEF DesignDirs
  <2>3. s \in State /\ s.cluster = "systems-designer" /\ "design" \in Stages13
    BY NothingIsNoOther DEF Clusters, Stages13, Envelopes
  <2>. QED  BY <2>2, <2>3, NothingIsNoOther
<1>. DEFINE r == [o EXCEPT !.designed = more, !.completed = "design", !.cstate = s]
<1>3. unit' = [unit EXCEPT ![u] = r] /\ UNCHANGED <<at, project, wanted>>
  BY <1>1 DEF ApproveStage
<1>4. r \in UnitRecord
  BY <1>2 DEF UnitRecord
<1>5. /\ r.designed = more /\ r.completed = "design" /\ r.cstate = s /\ r.inputs = o.inputs
      /\ r.inception = o.inception /\ r.flat = o.flat /\ r.root = o.root /\ r.istate = o.istate
      /\ r.change = o.change /\ r.redesign = o.redesign /\ r.branch = o.branch
  BY DEF UnitRecord
<1>. HIDE DEF r, first, more, s
<1>6. StateFilesAgree(r)
  BY <1>1, <1>2, <1>5 DEF StateFilesAgree, Begun, SkippedBy
<1>. QED  BY <1>1, <1>2, <1>3, <1>4, <1>5, <1>6, UnitStep

LEMMA CodeIsApproved ==
  ASSUME WorkflowInv, NEW u \in Roster, ApproveStage(u), unit[u].cstate.cluster = "coder"
  PROVE  WorkflowInv'
<1>1. PICK o \in UnitRecord : o = unit[u] /\ StateFilesAgree(o)
  BY UnitKnown
<1>. DEFINE s == [o.cstate EXCEPT !.envelope = "awaiting-build-test"]
<1>2. /\ s \in State /\ s.cluster = "coder" /\ s # Nothing /\ o.cstate # Nothing /\ o.cstate.cluster = "coder"
  <2>1. o.cstate # Nothing /\ o.cstate \in State
    BY <1>1, NothingIsNoOther DEF ApproveStage, UnitRecord
  <2>2. s \in State /\ s.cluster = "coder"
    BY <1>1, <2>1 DEF State, Envelopes
  <2>. QED  BY <1>1, <2>1, <2>2, NothingIsNoOther
<1>. DEFINE r == [o EXCEPT !.cstate = s, !.script = TRUE]
<1>3. unit' = [unit EXCEPT ![u] = r] /\ UNCHANGED <<at, project, wanted>>
  BY <1>1 DEF ApproveStage
<1>4. r \in UnitRecord
  BY <1>2 DEF UnitRecord
<1>5. /\ r.cstate = s /\ r.inputs = o.inputs /\ r.inception = o.inception /\ r.flat = o.flat
      /\ r.root = o.root /\ r.designed = o.designed /\ r.istate = o.istate /\ r.completed = o.completed
      /\ r.change = o.change /\ r.redesign = o.redesign /\ r.branch = o.branch
  BY DEF UnitRecord
<1>. HIDE DEF r, s
<1>6. StateFilesAgree(r)
  BY <1>1, <1>2, <1>5 DEF StateFilesAgree, Begun, SkippedBy
<1>. QED  BY <1>1, <1>2, <1>3, <1>4, <1>5, <1>6, UnitStep

LEMMA BuildPasses ==
  ASSUME WorkflowInv, NEW u \in Roster, runBuildAndTest(u, TRUE), unit[u].script
  PROVE  WorkflowInv'
<1>1. PICK o \in UnitRecord : o = unit[u] /\ StateFilesAgree(o)
  BY UnitKnown
<1>2. "code" \in Stages13 /\ "code" # Nothing
  BY <1>1, NothingIsNoOther DEF Stages13
<1>. DEFINE r == [o EXCEPT !.cstate = Nothing, !.built = TRUE, !.completed = "code"]
<1>3. unit' = [unit EXCEPT ![u] = r] /\ UNCHANGED <<at, project, wanted>>
  BY <1>1 DEF runBuildAndTest
<1>4. r \in UnitRecord
  BY <1>2 DEF UnitRecord
<1>5. /\ r.cstate = Nothing /\ r.completed = "code" /\ r.inputs = o.inputs /\ r.inception = o.inception
      /\ r.flat = o.flat /\ r.root = o.root /\ r.designed = o.designed /\ r.istate = o.istate
      /\ r.change = o.change /\ r.redesign = o.redesign /\ r.branch = o.branch
  BY DEF UnitRecord
<1>. HIDE DEF r
<1>6. StateFilesAgree(r)
  BY <1>1, <1>2, <1>5 DEF StateFilesAgree, Begun, SkippedBy
<1>. QED  BY <1>1, <1>2, <1>3, <1>4, <1>5, <1>6, UnitStep

\* A description that is wanted anew, or not, and the file that holds it.
KeptBy(file, text, of, missed) ==
  /\ file \in QuestionFile /\ text \in Descriptions \cup {Nothing} /\ missed \in SUBSET {"change", "redesign"}
  /\ file.text = text \/ (file.text = Nothing /\ of \in missed)

LEMMA DescriptionIsKept ==
  ASSUME NEW file, NEW d \in Descriptions \cup {Nothing}, NEW open, NEW through,
         NEW text, NEW of \in {"change", "redesign"}, NEW missed, KeptBy(file, text, of, missed)
  PROVE  /\ KeptBy(Persisted(file, d, open, through), Remembered(text, d, through), of,
                   CutBy(missed, of, d, open, through))
         /\ \A x \in missed : x # of => x \in CutBy(missed, of, d, open, through)
<1>1. CASE d = Nothing \/ (open /\ ~through)
  BY <1>1 DEF KeptBy, Persisted, Remembered, CutBy
<1>2. CASE d # Nothing /\ through
  BY <1>2 DEF KeptBy, Persisted, Remembered, CutBy, QuestionFile
<1>3. CASE d # Nothing /\ ~through /\ ~open
  BY <1>3 DEF KeptBy, Persisted, Remembered, CutBy, QuestionFile
<1>. QED  BY <1>1, <1>2, <1>3

LEMMA ChangeIsPersisted ==
  ASSUME WorkflowInv, NEW u \in Roster, NEW d \in Descriptions \cup {Nothing}, NEW through \in BOOLEAN,
         NEW m \in MarkerStates, preflightChangeRequest(u), UNCHANGED <<at, project>>,
         unit' = [unit EXCEPT ![u] = [unit[u] EXCEPT !.change = changeRequestFile(u, d, through), !.marker = m]],
         wanted' = [wanted EXCEPT ![u] = ChangeWanted(u, d, through)]
  PROVE  WorkflowInv'
<1>1. PICK o \in UnitRecord : o = unit[u] /\ StateFilesAgree(o)
  BY UnitKnown
<1>2. PICK w \in Wants : w = wanted[u] /\ Recovered(o, w)
  BY <1>1, UnitKnown
<1>. DEFINE open == OpenChange(u)
            q == changeRequestFile(u, d, through)
            k == Remembered(w.change, d, through)
            c == CutBy(w.cut, "change", d, open, through)
            r == [o EXCEPT !.change = q, !.marker = m]
            v == [w EXCEPT !.change = k, !.cut = c]
<1>3. /\ q \in QuestionFile /\ k \in Descriptions \cup {Nothing} /\ c \in SUBSET {"change", "redesign"}
      /\ "redesign" \in w.cut => "redesign" \in c
      /\ q.text = k \/ (q.text = Nothing /\ "change" \in c)
  <2>1. KeptBy(o.change, w.change, "change", w.cut)
    BY <1>2 DEF UnitRecord, Wants, Recovered, KeptBy
  <2>2. /\ KeptBy(Persisted(o.change, d, OpenChange(u), through), k, "change", c)
        /\ \A x \in w.cut : x # "change" => x \in c
    BY <2>1, DescriptionIsKept
  <2>3. q = Persisted(o.change, d, OpenChange(u), through)
    BY <1>1 DEF changeRequestFile
  <2>. HIDE DEF q, k, c
  <2>. QED  BY <2>2, <2>3 DEF KeptBy
<1>4. unit' = [unit EXCEPT ![u] = r] /\ wanted' = [wanted EXCEPT ![u] = v]
  BY <1>1, <1>2 DEF ChangeWanted
<1>. HIDE DEF q, k, c
<1>5. r \in UnitRecord
  BY <1>3 DEF UnitRecord
<1>6. /\ r.change = q /\ r.inputs = o.inputs /\ r.inception = o.inception /\ r.flat = o.flat
      /\ r.root = o.root /\ r.designed = o.designed /\ r.istate = o.istate /\ r.cstate = o.cstate
      /\ r.completed = o.completed /\ r.redesign = o.redesign /\ r.branch = o.branch
  BY DEF UnitRecord
<1>7. v \in Wants /\ v.change = k /\ v.redesign = w.redesign /\ v.cut = c
  BY <1>3 DEF Wants
<1>. HIDE DEF r, v
<1>8. Begun(o)
  BY <1>1 DEF preflightChangeRequest, deriveActiveGateFromAudit, Begun
<1>9. StateFilesAgree(r)
  BY <1>1, <1>6, <1>8 DEF StateFilesAgree, Begun, SkippedBy
<1>10. Recovered(r, v)
  BY <1>2, <1>3, <1>6, <1>7 DEF Recovered
<1>11. /\ at' \in Roster \cup {0} /\ (at' # 0 \/ r.branch = "live" => project.units)
       /\ at' # 0 => IF at' = u THEN r.branch = "live" ELSE unit[at'].branch = "live"
  BY <1>1, <1>6, UnitKnown
<1>. QED  BY <1>4, <1>5, <1>7, <1>9, <1>10, <1>11, UnitMoves

LEMMA RedesignIsPersisted ==
  ASSUME WorkflowInv, NEW u \in Roster, NEW d \in Descriptions \cup {Nothing}, NEW through \in BOOLEAN,
         persistUnitRedesignDescription(u, d, through)
  PROVE  WorkflowInv'
<1>1. PICK o \in UnitRecord : o = unit[u] /\ StateFilesAgree(o)
  BY UnitKnown
<1>2. PICK w \in Wants : w = wanted[u] /\ Recovered(o, w)
  BY <1>1, UnitKnown
<1>. DEFINE open == OpenRedesign(u)
            q == redesignFile(u, d, through)
            k == Remembered(w.redesign, d, through)
            c == CutBy(w.cut, "redesign", d, open, through)
            r == [o EXCEPT !.redesign = q]
            v == [w EXCEPT !.redesign = k, !.cut = c]
<1>3. /\ q \in QuestionFile /\ k \in Descriptions \cup {Nothing} /\ c \in SUBSET {"change", "redesign"}
      /\ "change" \in w.cut => "change" \in c
      /\ q.text = k \/ (q.text = Nothing /\ "redesign" \in c)
  <2>1. KeptBy(o.redesign, w.redesign, "redesign", w.cut)
    BY <1>2 DEF UnitRecord, Wants, Recovered, KeptBy
  <2>2. /\ KeptBy(Persisted(o.redesign, d, OpenRedesign(u), through), k, "redesign", c)
        /\ \A x \in w.cut : x # "redesign" => x \in c
    BY <2>1, DescriptionIsKept
  <2>3. q = Persisted(o.redesign, d, OpenRedesign(u), through)
    BY <1>1 DEF redesignFile
  <2>. HIDE DEF q, k, c
  <2>. QED  BY <2>2, <2>3 DEF KeptBy
<1>4. unit' = [unit EXCEPT ![u] = r] /\ wanted' = [wanted EXCEPT ![u] = v] /\ UNCHANGED <<at, project>>
  BY <1>1, <1>2 DEF persistUnitRedesignDescription, RedesignWanted
<1>. HIDE DEF q, k, c
<1>5. r \in UnitRecord
  BY <1>3 DEF UnitRecord
<1>6. /\ r.redesign = q /\ r.inputs = o.inputs /\ r.inception = o.inception /\ r.flat = o.flat
      /\ r.root = o.root /\ r.designed = o.designed /\ r.istate = o.istate /\ r.cstate = o.cstate
      /\ r.completed = o.completed /\ r.change = o.change /\ r.branch = o.branch
  BY DEF UnitRecord
<1>7. v \in Wants /\ v.redesign = k /\ v.change = w.change /\ v.cut = c
  BY <1>3 DEF Wants
<1>. HIDE DEF r, v
<1>8. StateFilesAgree(r)
  BY <1>1, <1>6 DEF StateFilesAgree, Begun, SkippedBy
<1>9. Recovered(r, v)
  BY <1>2, <1>3, <1>6, <1>7 DEF Recovered
<1>10. /\ at' \in Roster \cup {0} /\ (at' # 0 \/ r.branch = "live" => project.units)
       /\ at' # 0 => IF at' = u THEN r.branch = "live" ELSE unit[at'].branch = "live"
  BY <1>1, <1>4, <1>6, UnitKnown
<1>. QED  BY <1>4, <1>5, <1>7, <1>8, <1>9, <1>10, UnitMoves

\* A branch is made, or left and archived.
LEMMA BranchMoves ==
  ASSUME WorkflowInv, NEW u \in Roster, CreateBranch(u) \/ Release(u)
  PROVE  WorkflowInv'
<1>1. PICK o \in UnitRecord : /\ o \in {unit[u], BranchLeft(u)} /\ StateFilesAgree(o) /\ Recovered(o, wanted[u])
                              /\ \E b \in {"live", "archived"} :
                                   /\ unit' = [unit EXCEPT ![u] = [o EXCEPT !.branch = b]]
                                   /\ b = "live" => project.units /\ at' = u
                                   /\ b = "archived" => at' = 0
  <2>1. CASE CreateBranch(u)
    <3>1. unit[u] \in UnitRecord /\ StateFilesAgree(unit[u]) /\ Recovered(unit[u], wanted[u])
      BY UnitKnown
    <3>2. unit' = [unit EXCEPT ![u] = [unit[u] EXCEPT !.branch = "live"]] /\ project.units /\ at' = u
      BY <2>1 DEF CreateBranch
    <3>. QED  BY <3>1, <3>2
  <2>2. CASE Release(u)
    <3>1. unit[u].filed \in FiledStates /\ unit[u].merge \in MergeStates /\ unit[u].sync \in BOOLEAN
      BY UnitKnown DEF UnitRecord
    <3>2. PICK m \in MarkerStates : BranchLeft(u) = Aside(unit[u], m, unit[u].filed, unit[u].merge, unit[u].sync)
      BY MarkerLeft
    <3>3. BranchLeft(u) \in UnitRecord /\ StateFilesAgree(BranchLeft(u)) /\ Recovered(BranchLeft(u), wanted[u])
      BY <3>1, <3>2, AsideIsApart
    <3>4. unit' = [unit EXCEPT ![u] = [BranchLeft(u) EXCEPT !.branch = "archived"]] /\ at' = 0
      BY <2>2 DEF Release
    <3>. QED  BY <3>3, <3>4
  <2>. QED  BY <2>1, <2>2
<1>2. PICK b \in {"live", "archived"} : /\ unit' = [unit EXCEPT ![u] = [o EXCEPT !.branch = b]]
                                        /\ b = "live" => project.units /\ at' = u
                                        /\ b = "archived" => at' = 0
  BY <1>1
<1>. DEFINE r == [o EXCEPT !.branch = b]
<1>3. unit' = [unit EXCEPT ![u] = r] /\ UNCHANGED <<project, wanted>>
  BY <1>2 DEF CreateBranch, Release
<1>4. r \in UnitRecord
  BY DEF UnitRecord
<1>5. /\ r.inputs = o.inputs /\ r.inception = o.inception /\ r.flat = o.flat /\ r.root = o.root
      /\ r.designed = o.designed /\ r.istate = o.istate /\ r.cstate = o.cstate /\ r.completed = o.completed
      /\ r.change = o.change /\ r.redesign = o.redesign /\ r.branch = b
  BY DEF UnitRecord
<1>. HIDE DEF r
<1>6. StateFilesAgree(r)
  BY <1>1, <1>5 DEF StateFilesAgree, Begun, SkippedBy
<1>7. /\ at' \in Roster \cup {0} /\ (at' # 0 \/ r.branch = "live" => project.units)
      /\ at' # 0 => IF at' = u THEN r.branch = "live" ELSE unit[at'].branch = "live"
  BY <1>2, <1>5
<1>8. Recovered(r, wanted[u])
  BY <1>1, <1>5 DEF Recovered
<1>9. wanted[u] \in Wants /\ wanted' = [wanted EXCEPT ![u] = wanted[u]]
  BY <1>3, UnitKnown
<1>. QED  BY <1>3, <1>4, <1>6, <1>7, <1>8, <1>9, UnitMoves

\* A branch is left for another; main is left with nothing changed.
LEMMA BranchIsLeft ==
  ASSUME WorkflowInv, NEW b \in Roster \cup {0}, Checkout(b)
  PROVE  WorkflowInv'
<1>1. /\ at \in Roster \cup {0} /\ at' = b /\ UNCHANGED <<project, wanted>> /\ b # at
      /\ b # 0 => unit[b].branch = "live" /\ project.units
  BY NothingIsNoOther DEF Checkout, WorkflowInv, WorkflowTypes, ProjectFirst
<1>2. CASE at = 0
  <2>2. unit' = unit
    BY <1>2 DEF Checkout
  <2>3. WorkflowTypes'
    BY <1>1, <2>2 DEF WorkflowInv, WorkflowTypes
  <2>4. ProjectFirst'
    BY <1>1, <2>2 DEF WorkflowInv, ProjectFirst
  <2>. QED  BY <1>1, <2>2, <2>3, <2>4 DEF WorkflowInv
<1>3. CASE at # 0
  <2>1. PICK u \in Roster : u = at
    BY <1>1, <1>3
  <2>2. unit[u].filed \in FiledStates /\ unit[u].merge \in MergeStates /\ unit[u].sync \in BOOLEAN
    BY UnitKnown DEF UnitRecord
  <2>3. PICK m \in MarkerStates : BranchLeft(u) = Aside(unit[u], m, unit[u].filed, unit[u].merge, unit[u].sync)
    BY MarkerLeft
  <2>4. PICK r : r = BranchLeft(u)
    OBVIOUS
  <2>5. r \in UnitRecord /\ StateFilesAgree(r) /\ Recovered(r, wanted[u]) /\ r.branch = unit[u].branch
    BY <2>2, <2>3, <2>4, AsideIsApart
  <2>6. unit' = [unit EXCEPT ![u] = r]
    BY <1>3, <2>1, <2>4 DEF Checkout
  <2>7. /\ at' \in Roster \cup {0} /\ (at' # 0 \/ r.branch = "live" => project.units)
        /\ at' # 0 => IF at' = u THEN r.branch = "live" ELSE unit[at'].branch = "live"
    BY <1>1, <2>1, <2>5, UnitKnown
  <2>8. wanted[u] \in Wants /\ wanted' = [wanted EXCEPT ![u] = wanted[u]]
    BY <1>1, UnitKnown
  <2>. QED  BY <1>1, <2>5, <2>6, <2>7, <2>8, UnitMoves
<1>. QED  BY <1>2, <1>3

\* A step on main.
LEMMA ProjectMoves ==
  ASSUME WorkflowInv,
         \/ \E skip \in BOOLEAN : ProjectInception(skip)
         \/ newMilestone
  PROVE  WorkflowInv'
<1>1. UNCHANGED <<at, unit, wanted>>
  BY DEF ProjectInception, newMilestone
<1>2. /\ at \in Roster \cup {0} /\ project \in Projects
      /\ (at # 0 => project.units /\ unit[at].branch = "live")
      /\ (project.units => project.stories \/ project.skipped)
      /\ \A u \in Roster : unit[u].branch = "live" => project.units
  BY DEF WorkflowInv, WorkflowTypes, ProjectFirst
<1>3. /\ project' \in Projects /\ (project.units => project'.units)
      /\ (project'.units => project'.stories \/ project'.skipped)
  <2>1. CASE \E skip \in BOOLEAN : ProjectInception(skip)
    <3>1. PICK skip \in BOOLEAN : ProjectInception(skip)
      BY <2>1
    <3>. QED  BY <1>2, <3>1 DEF ProjectInception, Projects
  <2>2. CASE newMilestone
    BY <1>2, <2>2 DEF newMilestone, Projects
  <2>. QED  BY <2>1, <2>2
<1>. QED  BY <1>1, <1>2, <1>3 DEF WorkflowInv, WorkflowTypes, ProjectFirst

LEMMA WorkflowSteps == WorkflowInv /\ [WorkflowNext]_workflowVars => WorkflowInv'
<1>. SUFFICES ASSUME WorkflowInv, [WorkflowNext]_workflowVars PROVE WorkflowInv'
  OBVIOUS
<1>1. CASE UNCHANGED workflowVars
  BY <1>1 DEF workflowVars, WorkflowInv, WorkflowTypes, ProjectFirst
<1>2. ASSUME NEW u \in Roster, UnitCommand(u) PROVE WorkflowInv'
  <2>1. ASSUME NEW passes \in BOOLEAN, runBuildAndTest(u, passes) PROVE WorkflowInv'
    <3>1. CASE unit[u].script /\ passes
      <4>1. passes = TRUE
        BY <3>1
      <4>. QED  BY <2>1, <3>1, <4>1, BuildPasses
    <3>2. CASE ~(unit[u].script /\ passes)
      BY <2>1, <3>2 DEF runBuildAndTest, WorkflowInv, WorkflowTypes, ProjectFirst
    <3>. QED  BY <3>1, <3>2
  <2>2. ASSUME NEW d \in Descriptions \cup {Nothing}, NEW through \in BOOLEAN,
               persistChangeRequestDescription(u, d, through)
        PROVE  WorkflowInv'
    <3>1. PICK o \in UnitRecord : o = unit[u]
      BY UnitKnown
    <3>2. o.marker \in MarkerStates
      BY DEF UnitRecord
    <3>. DEFINE q == changeRequestFile(u, d, through)
    <3>3. [o EXCEPT !.change = q] = [o EXCEPT !.change = q, !.marker = o.marker]
      <4>. HIDE DEF q
      <4>. QED  BY DEF UnitRecord
    <3>4. unit' = [unit EXCEPT ![u] = [unit[u] EXCEPT !.change = q, !.marker = o.marker]]
      BY <2>2, <3>1, <3>3 DEF persistChangeRequestDescription
    <3>5. /\ preflightChangeRequest(u) /\ UNCHANGED <<at, project>>
          /\ wanted' = [wanted EXCEPT ![u] = ChangeWanted(u, d, through)]
      BY <2>2 DEF persistChangeRequestDescription
    <3>. QED  BY <3>2, <3>4, <3>5, ChangeIsPersisted
  <2>3. ASSUME NEW d \in Descriptions \cup {Nothing}, NEW written \in BOOLEAN,
               preflightChangeRequestEscalate(u, d, written)
        PROVE  WorkflowInv'
    <3>. DEFINE m == Escalated(u, written)
    <3>1. m \in MarkerStates
      BY DEF Escalated, MarkerStates
    <3>2. /\ preflightChangeRequest(u) /\ UNCHANGED <<at, project>>
          /\ wanted' = [wanted EXCEPT ![u] = ChangeWanted(u, d, TRUE)]
          /\ unit' = [unit EXCEPT ![u] = [unit[u] EXCEPT !.change = changeRequestFile(u, d, TRUE), !.marker = m]]
      BY <2>3 DEF preflightChangeRequestEscalate
    <3>. HIDE DEF m
    <3>. QED  BY <3>1, <3>2, ChangeIsPersisted
  <2>4. CASE \E d \in Descriptions \cup {Nothing}, through \in BOOLEAN :
               \/ persistChangeRequestDescription(u, d, through)
               \/ preflightChangeRequestEscalate(u, d, through)
               \/ persistUnitRedesignDescription(u, d, through)
    BY <2>2, <2>3, <2>4, RedesignIsPersisted
  <2>5. CASE \E fixed, asks \in BOOLEAN : preflightUnitSync(u, fixed, asks)
    BY <2>5, AsideStep
  <2>. QED  BY <1>2, <2>1, <2>4, <2>5, InceptionBegins, DesignBegins, ConstructionBegins, BranchMoves
            DEF UnitCommand
<1>3. ASSUME NEW u \in Roster, AgentStep(u) PROVE WorkflowInv'
  BY <1>3, InceptionIsApproved, InputsAreAuthored, StageIsApproved, CodeIsApproved, ConstructionRewinds,
     ChangeIsAnswered, RedesignIsAnswered, AsideStep DEF AgentStep
<1>4. ASSUME NEW u \in Roster, CreateBranch(u) PROVE WorkflowInv'
  BY <1>4, BranchMoves
<1>. QED  BY <1>1, <1>2, <1>3, <1>4, ProjectMoves, BranchIsLeft DEF WorkflowNext

\* Re-run without a description, a command acts on the last one it accepted, or
\* finds none when its file was cut off before its description; whatever was
\* asked anew or answered in between, for any units.
THEOREM DescriptionsRecovered == WorkflowSpec => []DescriptionsAreRecovered
<1>1. WorkflowInv => DescriptionsAreRecovered
  BY DEF WorkflowInv, Recovered, DescriptionsAreRecovered, changeRequestDescriptionFallback, redesignDescriptionFallback
<1>. QED  BY <1>1, WorkflowStarts, WorkflowSteps, PTL DEF WorkflowSpec

\* The commands of the advice, each by what led to it.
LEMMA AdviceByCause ==
  ASSUME NEW u, NEW escalated, NEW life
  PROVE  LET c == synthesizeRecommendation(u, escalated, life).command
             s == readBootstrapState(u)
         IN \/ escalated /\ c = "/aidlc-escalate-fix"
            \/ c \in {"investigate", "continue"}
            \/ \E n \in DOMAIN AskKinds : Pending(u, AskKinds[n]) /\ c = resolveTier2Command(AskKinds[n])
            \/ EnvelopeOf(s) # "none" /\ c = resolveTier3Command(s)
            \/ life.inception /\ ~life.design /\ c = "/aidlc-unit-design"
            \/ life.inception /\ life.design /\ c = "/aidlc-unit-construct"
<1>. DEFINE pending == findPendingQuestionFiles(u)
<1>1. ASSUME pending # {} PROVE Min(pending) \in DOMAIN AskKinds /\ Pending(u, AskKinds[Min(pending)])
  <2>1. pending \in SUBSET Nat /\ pending \subseteq DOMAIN AskKinds
    BY DEF findPendingQuestionFiles, AskKinds
  <2>2. \A n \in pending : Pending(u, AskKinds[n])
    BY DEF findPendingQuestionFiles
  <2>. HIDE DEF pending
  <2>3. \E m \in pending : \A k \in pending : m <= k
    BY <1>1, <2>1, NatLeast
  <2>4. Min(pending) \in pending
    BY <2>3 DEF Min
  <2>. QED  BY <2>1, <2>2, <2>4
<1>. QED  BY <1>1 DEF synthesizeRecommendation, Advice

\* What the state files say of a unit whose branch is checked out is what the
\* preflights ask for.
LEMMA AdviceAccepted ==
  ASSUME WorkflowInv, NEW u \in Roster, at = u
  PROVE  LET advice == resumeFromUnitBranch(u)
         IN \/ Accepts(advice.command, u)
            \/ advice.command = "/aidlc-unit-redesign" /\ unit[u].cstate = Nothing
            \/ /\ advice.command = "/aidlc-escalate-fix"
               /\ \/ unit[u].marker = "corrupt" \/ unit[u].marker # unit[u].filed
                  \/ unit[u].merge = "stopped"
            \/ advice.command = "/aidlc-unit-sync" /\ unit[u].merge # "clean"
<1>1. PICK o \in UnitRecord : o = unit[u] /\ StateFilesAgree(o)
  BY UnitKnown
<1>2. OnUnit(u) /\ (isUserStoriesSkipped \/ project.stories) /\ unit[u].branch = "live"
  BY NothingIsNoOther DEF WorkflowInv, ProjectFirst, OnUnit, isUserStoriesSkipped
<1>. DEFINE c == resumeFromUnitBranch(u).command
            s == readBootstrapState(u)
            excused == \/ c = "/aidlc-unit-redesign" /\ unit[u].cstate = Nothing
                       \/ /\ c = "/aidlc-escalate-fix"
                          /\ \/ unit[u].marker = "corrupt" \/ unit[u].marker # unit[u].filed
                             \/ unit[u].merge = "stopped"
                       \/ c = "/aidlc-unit-sync" /\ unit[u].merge # "clean"
<1>3. c \in {"investigate", "continue"} => Accepts(c, u)
  BY DEF Accepts
<1>10. ASSUME unit[u].marker # "none", c = "/aidlc-escalate-fix" PROVE Accepts(c, u) \/ excused
  <2>1. o.filed \in {"none", "pending", "corrupt"}
    BY DEF UnitRecord, FiledStates, MarkerStates
  <2>2. SUFFICES ASSUME ~excused PROVE Accepts("/aidlc-escalate-fix", u)
    BY <1>10
  <2>3. unit[u].marker = unit[u].filed /\ unit[u].marker # "corrupt" /\ unit[u].merge # "stopped"
    BY <1>10, <2>2
  <2>4. unit[u].filed = "pending" /\ BranchMayBeLeft(u)
    BY <1>1, <1>10, <2>1, <2>3 DEF BranchMayBeLeft
  <2>. QED  BY <1>2, <2>4 DEF Accepts, OnUnit
<1>4. ASSUME c = "/aidlc-unit-design" PROVE Accepts(c, u)
  BY <1>2, <1>4 DEF Accepts, preflightUnitDesign
<1>5. ASSUME NEW n \in DOMAIN AskKinds, Pending(u, AskKinds[n]), c = resolveTier2Command(AskKinds[n])
      PROVE  Accepts(c, u) \/ excused
  <2>1. AskKinds[n] \in Range(AskKinds) /\ AskKinds[n] \in {"change-requests", "redesign", "sync"}
    BY DEF AskKinds, Range
  <2>2. CASE AskKinds[n] = "change-requests"
    <3>1. c = "/aidlc-change-request"
      BY <1>5, <2>1, <2>2 DEF resolveTier2Command, QUESTION_DIR_TO_COMMAND
    <3>2. o.change.answers = "none"
      BY <1>1, <1>5, <2>2 DEF Pending
    <3>3. preflightChangeRequest(u)
      BY <1>1, <1>2, <3>2 DEF StateFilesAgree, Begun, preflightChangeRequest, deriveActiveGateFromAudit
    <3>. QED  BY <3>1, <3>3 DEF Accepts
  <2>3. CASE AskKinds[n] = "redesign"
    <3>1. c = "/aidlc-unit-redesign"
      BY <1>5, <2>1, <2>3 DEF resolveTier2Command, QUESTION_DIR_TO_COMMAND
    <3>2. o.cstate # Nothing => o.cstate.cluster # "planner"
      BY <1>1 DEF StateFilesAgree
    <3>. QED  BY <1>1, <1>2, <3>1, <3>2 DEF Accepts
  <2>4. CASE AskKinds[n] = "sync"
    <3>1. c = "/aidlc-unit-sync"
      BY <1>5, <2>1, <2>4 DEF resolveTier2Command, QUESTION_DIR_TO_COMMAND
    <3>. QED  BY <1>2, <3>1 DEF Accepts
  <2>. QED  BY <2>1, <2>2, <2>3, <2>4
<1>6. ASSUME EnvelopeOf(s) # "none", c = resolveTier3Command(s) PROVE Accepts(c, u)
  <2>1. s = IF o.cstate # Nothing THEN o.cstate ELSE o.istate
    BY <1>1 DEF readBootstrapState
  <2>2. s \in State /\ s # Nothing
    BY <1>6, <2>1, NothingIsNoOther DEF UnitRecord
  <2>3. s.cluster \in Clusters
    BY <2>2, NothingIsNoOther
  <2>4. CASE s.cluster = "planner"
    <3>1. c = "/aidlc-unit-inception"
      BY <1>6, <2>3, <2>4 DEF resolveTier3Command, CLUSTER_TO_COMMAND
    <3>2. s = o.istate /\ o.istate # Nothing
      BY <1>1, <2>1, <2>2, <2>4 DEF StateFilesAgree
    <3>3. preflightUnitInception(u)
      BY <1>1, <1>2, <3>2 DEF StateFilesAgree, preflightUnitInception
    <3>. QED  BY <3>1, <3>3 DEF Accepts
  <2>5. CASE s.cluster = "coder"
    <3>1. c = "/aidlc-unit-construct"
      BY <1>6, <2>3, <2>5 DEF resolveTier3Command, CLUSTER_TO_COMMAND
    <3>2. o.cstate # Nothing /\ o.cstate.cluster = "coder"
      BY <1>1, <2>1, <2>2, <2>5 DEF StateFilesAgree
    <3>3. preflightUnitConstruct(u)
      BY <1>1, <1>2, <3>2 DEF StateFilesAgree, SkippedBy, preflightUnitConstruct, getSkippedStages
    <3>. QED  BY <3>1, <3>3 DEF Accepts
  <2>6. CASE s.cluster \notin {"planner", "coder"}
    <3>1. c = "/aidlc-unit-design"
      BY <1>6, <2>3, <2>6 DEF resolveTier3Command, CLUSTER_TO_COMMAND
    <3>. QED  BY <1>4, <3>1
  <2>. QED  BY <2>4, <2>5, <2>6
<1>7. ~probeLifecycle(u).design
  BY DEF probeLifecycle, DocumentDirs
<1>8. \/ unit[u].marker # "none" /\ c = "/aidlc-escalate-fix"
      \/ c \in {"investigate", "continue"}
      \/ \E n \in DOMAIN AskKinds : Pending(u, AskKinds[n]) /\ c = resolveTier2Command(AskKinds[n])
      \/ EnvelopeOf(s) # "none" /\ c = resolveTier3Command(s)
      \/ c = "/aidlc-unit-design"
  <2>1. PICK life : life = probeLifecycle(u) /\ ~life.design
    BY <1>7
  <2>2. PICK escalated \in BOOLEAN : escalated = (unit[u].marker # "none")
    OBVIOUS
  <2>3. c = synthesizeRecommendation(u, escalated, life).command
    BY <2>1, <2>2 DEF resumeFromUnitBranch
  <2>. HIDE DEF c, s
  <2>. QED  BY <2>1, <2>2, <2>3, AdviceByCause DEF s
<1>. HIDE DEF c, s, excused
<1>9. Accepts(c, u) \/ excused
  BY <1>3, <1>4, <1>5, <1>6, <1>8, <1>10
<1>. QED  BY <1>9 DEF c, excused

\* The command resume recommends on a unit's branch is one its preflight
\* accepts, but for the causes named in AdviceIsAccepted; for any units, and
\* wherever the plan of a unit was written.
THEOREM AdviceIsSound == WorkflowSpec => []AdviceIsAccepted
<1>1. WorkflowInv => AdviceIsAccepted
  BY AdviceAccepted DEF AdviceIsAccepted
<1>. QED  BY <1>1, WorkflowStarts, WorkflowSteps, PTL DEF WorkflowSpec

LEMMA AdviceTiers ==
  ASSUME NEW u, NEW escalated, NEW life
  PROVE  synthesizeRecommendation(u, escalated, life).tier \in 1..5
BY DEF synthesizeRecommendation, Advice

\* The loop over the reports, each better than what came before it or not.
LEMMA TopIsTop ==
  ASSUME NEW reports, Len(reports) \in Nat, \A i \in 1..Len(reports) : reports[i].advice.tier \in 1..5
  PROVE  \A i \in 1..Len(reports) : reports[i].status = "live" =>
           resumeFromMain(reports).advice.tier <= reports[i].advice.tier
<1>0. PICK N \in Nat : N = Len(reports)
  OBVIOUS
<1>. DEFINE quiet == [unit |-> 0, status |-> "main", advice |-> Advice(5, "continue")]
            base == [quiet EXCEPT !.advice.tier = 6]
            Better(r, best) == IF r.status = "live" /\ r.advice.tier < best.advice.tier THEN r ELSE best
            V == {base} \cup {reports[i] : i \in 1..N}
            Rec(h) == [n \in 0..N |-> IF n = 0 THEN base
                                      ELSE IF reports[n].status = "live" /\ reports[n].advice.tier < h[n - 1].advice.tier
                                           THEN reports[n] ELSE h[n - 1]]
            top == CHOOSE h : h = Rec(h)
<1>1. base.advice.tier = 6
  BY DEF Advice
<1>. HIDE DEF base
<1>2. \E f : f = Rec(f)
  <2>. DEFINE F == [z \in (1..N) \X V |-> Better(reports[z[1]], z[2])]
  <2>1. F \in [(1..N) \X V -> V] /\ base \in V
    OBVIOUS
  <2>2. \A n \in 1..N, v \in V : F[<<n, v>>] = Better(reports[n], v)
    OBVIOUS
  <2>. HIDE DEF F, V
  <2>3. PICK f \in [0..N -> V] : Iterates(f, N, base, F)
    BY <2>1, Iteration
  <2>4. ASSUME NEW n \in 0..N PROVE f[n] = Rec(f)[n]
    <3>1. CASE n = 0
      BY <2>3, <3>1 DEF Iterates
    <3>2. CASE n \in 1..N
      <4>1. n - 1 \in 0..N /\ f[n - 1] \in V
        BY <2>3, <3>2
      <4>. QED  BY <2>2, <2>3, <3>2, <4>1 DEF Iterates
    <3>. QED  BY <3>1, <3>2
  <2>5. f = Rec(f)
    <3>1. f = [n \in 0..N |-> f[n]]
      BY <2>3
    <3>. QED  BY <2>4, <3>1
  <2>. QED  BY <2>5
<1>3. top = Rec(top)
  BY <1>2
<1>4. resumeFromMain(reports).advice.tier = top[N].advice.tier \/ ~(top[N].advice.tier < 6)
  BY <1>0 DEF resumeFromMain, base
<1>. HIDE DEF top
<1>5. top[0] = base /\ \A n \in 1..N : top[n] = Better(reports[n], top[n - 1])
  BY <1>3
<1>. DEFINE Least(n) == /\ top[n].advice.tier \in 1..6
                        /\ \A i \in 1..n : reports[i].status = "live" => top[n].advice.tier <= reports[i].advice.tier
            T == {n \in Nat : n <= N => Least(n)}
<1>6. 0 \in T
  BY <1>1, <1>5
<1>7. ASSUME NEW n \in Nat, n \in T PROVE n + 1 \in T
  <2>. SUFFICES ASSUME n + 1 <= N PROVE Least(n + 1)
    OBVIOUS
  <2>0. Least(n)
    <3>. HIDE DEF Least
    <3>. QED  BY <1>7
  <2>1. PICK t \in 1..6 : t = top[n].advice.tier /\ \A i \in 1..n : reports[i].status = "live" => t <= reports[i].advice.tier
    BY <2>0
  <2>2. n + 1 \in 1..N /\ (n + 1) - 1 = n
    OBVIOUS
  <2>3. top[n + 1] = Better(reports[n + 1], top[n])
    BY <1>5, <2>2
  <2>4. PICK k \in 1..5 : k = reports[n + 1].advice.tier
    BY <1>0, <2>2
  <2>5. \A i \in 1..n : i \in 1..N /\ reports[i].advice.tier \in 1..5
    BY <1>0
  <2>6. CASE reports[n + 1].status = "live" /\ k < t
    <3>1. top[n + 1].advice.tier = k
      BY <2>1, <2>3, <2>4, <2>6
    <3>2. ASSUME NEW i \in 1..n + 1, reports[i].status = "live" PROVE k <= reports[i].advice.tier
      <4>1. CASE i = n + 1
        BY <2>4, <4>1
      <4>2. CASE i \in 1..n
        BY <2>1, <2>5, <2>6, <3>2, <4>2
      <4>. QED  BY <4>1, <4>2
    <3>. QED  BY <3>1, <3>2
  <2>7. CASE ~(reports[n + 1].status = "live" /\ k < t)
    <3>1. top[n + 1].advice.tier = t
      BY <2>1, <2>3, <2>4, <2>7
    <3>2. ASSUME NEW i \in 1..n + 1, reports[i].status = "live" PROVE t <= reports[i].advice.tier
      <4>1. CASE i = n + 1
        BY <2>4, <2>7, <3>2, <4>1
      <4>2. CASE i \in 1..n
        BY <2>1, <3>2, <4>2
      <4>. QED  BY <4>1, <4>2
    <3>. QED  BY <3>1, <3>2
  <2>. QED  BY <2>6, <2>7
<1>8. Least(N)
  <2>. HIDE DEF Least
  <2>1. N \in T
    <3>. HIDE DEF T
    <3>. QED  BY <1>6, <1>7, NatInductive
  <2>. QED  BY <2>1
<1>9. ASSUME NEW i \in 1..N, reports[i].status = "live"
      PROVE  resumeFromMain(reports).advice.tier <= reports[i].advice.tier
  <2>1. top[N].advice.tier <= reports[i].advice.tier /\ reports[i].advice.tier \in 1..5 /\ top[N].advice.tier \in 1..6
    BY <1>0, <1>8, <1>9
  <2>. QED  BY <1>4, <2>1
<1>. QED  BY <1>0, <1>9

\* Main's report names the most pressing need of the live units, wherever the
\* unit stands in the list; for any number of units, in any state.
THEOREM MainNamesTheMostPressingNeed == WorkflowSpec => []MainNamesTheMostPressing
<1>1. MainNamesTheMostPressing
  <2>. SUFFICES ASSUME NEW other \in Neighbours, NEW reports,
                       reports \in {[u \in Roster |-> reportOf(u)] \o <<other>>, <<other>> \o [u \in Roster |-> reportOf(u)]},
                       NEW i \in DOMAIN reports, reports[i].status = "live"
                PROVE  resumeFromMain(reports).advice.tier <= reports[i].advice.tier
    BY DEF MainNamesTheMostPressing
  <2>. DEFINE Report == Neighbours \cup {reportOf(u) : u \in Roster}
              mine == [u \in Roster |-> reportOf(u)]
  <2>1. \A r \in Report : r.advice.tier \in 1..5
    <3>1. \A r \in Neighbours : r.advice.tier \in 1..5
      BY DEF Neighbours, Advice
    <3>2. \A u \in Roster : reportOf(u).advice.tier \in 1..5
      BY AdviceTiers DEF reportOf
    <3>. QED  BY <3>1, <3>2
  <2>2. mine \in Seq(Report)
    BY WorkflowAssumption DEF Roster
  <2>3. other \in Report
    OBVIOUS
  <2>. HIDE DEF Report, mine
  <2>4. reports \in Seq(Report)
    <3>1. reports \in {mine \o <<other>>, <<other>> \o mine}
      BY DEF mine
    <3>2. PICK one \in Seq(Report) : one = <<other>>
      <4>1. <<other>> \in Seq(Report)
        BY <2>3
      <4>. QED  BY <4>1
    <3>3. PICK m \in Seq(Report) : m = mine
      BY <2>2
    <3>4. m \o one \in Seq(Report) /\ one \o m \in Seq(Report)
      OBVIOUS
    <3>. QED  BY <3>1, <3>2, <3>3, <3>4
  <2>5. Len(reports) \in Nat /\ DOMAIN reports = 1..Len(reports) /\ \A k \in 1..Len(reports) : reports[k] \in Report
    BY <2>4
  <2>. QED  BY <2>1, <2>5, TopIsTop
<1>. QED  BY <1>1, PTL
-----------------------------------------------------------------------------
FileRecord == [branch: {"none", "live", "archived"}, inception: BOOLEAN,
               construction: StageNames \cup {"none", "CORRUPT", "COMPLETE"}]

ProgressTypes ==
  /\ blockedBy \in [Described -> SUBSET Described]
  /\ files \in [Described -> FileRecord]

LEMMA UnitStates ==
  ASSUME ProgressTypes, NEW u \in Described
  PROVE  readUnitState(u) \in StageNames \cup {"NO_BRANCH", "RELEASED", "NO_STATE", "CORRUPT", "COMPLETE"}
<1>1. files[u] \in FileRecord
  BY DEF ProgressTypes
<1>. QED  BY <1>1 DEF FileRecord, readUnitState, StageNames

LEMMA ProgressIsTyped == ProgressSpec => []ProgressTypes
<1>1. ProgressInit => ProgressTypes
  <2>. SUFFICES ASSUME ProgressInit PROVE ProgressTypes
    OBVIOUS
  <2>1. PICK document \in Documents : blockedBy = parseDependencies(document)
    BY DEF ProgressInit
  <2>2. document.form \in {"none", "matrix", "both", "prose"}
    BY DEF Documents
  <2>3. parseDependencies(document) \in [Described -> SUBSET Described]
    BY <2>2 DEF parseDependencies, parseMatrixTableDependencies, parseEnglishProseDependencies
  <2>. QED  BY <2>1, <2>3 DEF ProgressInit, ProgressTypes, FileRecord, Nowhere
<1>2. ProgressTypes /\ [ProgressNext]_progressVars => ProgressTypes'
  <2>. SUFFICES ASSUME ProgressTypes, [ProgressNext]_progressVars PROVE ProgressTypes'
    OBVIOUS
  <2>1. CASE UNCHANGED progressVars
    BY <2>1 DEF progressVars, ProgressTypes
  <2>2. ASSUME NEW u \in Described, NEW f \in FileRecord, files' = [files EXCEPT ![u] = f], UNCHANGED blockedBy
        PROVE  ProgressTypes'
    BY <2>2 DEF ProgressTypes
  <2>3. ASSUME NEW u \in Described,
               \/ BranchAppears(u) \/ BeginInception(u) \/ ClearState(u) \/ Corrupt(u) \/ ReleaseUnit(u)
               \/ \E next \in StageNames \cup {"COMPLETE"} : Advance(u, next)
        PROVE  ProgressTypes'
    <3>1. PICK o \in FileRecord : o = files[u]
      BY DEF ProgressTypes
    <3>2. /\ \A b \in {"live", "archived"} : [Nowhere EXCEPT !.branch = b] \in FileRecord
          /\ [o EXCEPT !.inception = TRUE] \in FileRecord
          /\ [o EXCEPT !.construction = "CORRUPT"] \in FileRecord
          /\ [o EXCEPT !.construction = "none", !.inception = FALSE] \in FileRecord
          /\ \A next \in StageNames \cup {"COMPLETE"} : [o EXCEPT !.construction = next] \in FileRecord
      BY DEF FileRecord, Nowhere
    <3>3. CASE BranchAppears(u)
      BY <2>2, <3>2, <3>3 DEF BranchAppears
    <3>4. CASE BeginInception(u)
      BY <2>2, <3>1, <3>2, <3>4 DEF BeginInception
    <3>5. CASE ClearState(u)
      BY <2>2, <3>1, <3>2, <3>5 DEF ClearState
    <3>6. CASE Corrupt(u)
      BY <2>2, <3>1, <3>2, <3>6 DEF Corrupt
    <3>7. CASE ReleaseUnit(u)
      BY <2>2, <3>2, <3>7 DEF ReleaseUnit
    <3>8. ASSUME NEW next \in StageNames \cup {"COMPLETE"}, Advance(u, next) PROVE ProgressTypes'
      BY <2>2, <3>1, <3>2, <3>8 DEF Advance
    <3>. QED  BY <2>3, <3>3, <3>4, <3>5, <3>6, <3>7, <3>8
  <2>. QED  BY <2>1, <2>3 DEF ProgressNext
<1>. QED  BY <1>1, <1>2, PTL DEF ProgressSpec

\* p[n] holds the units placed in the first n waves.
Places(p) ==
  /\ p \in [0..Rounds -> SUBSET Described]
  /\ p[0] = {}
  /\ \A n \in 1..Rounds : p[n] = p[n - 1] \cup {u \in Described : blockedBy[u] \subseteq p[n - 1]}

LEMMA RoundsAreEnough == Cardinality(Described) \in Nat /\ Rounds \in Nat /\ Cardinality(Described) < Rounds
BY ProgressAssumption, FS_CardinalityType DEF Rounds

LEMMA WavesArePlaced ==
  \E p : /\ Places(p)
         /\ computeBatches.waves = [n \in 1..Rounds |-> p[n] \ p[n - 1]]
         /\ computeBatches.cycleBroken = Described \ p[Rounds]
<1>. DEFINE Wave(before) == before \cup {u \in Described : blockedBy[u] \subseteq before}
            Rec(h) == [n \in 0..Rounds |-> IF n = 0 THEN {} ELSE Wave(h[n - 1])]
            p == CHOOSE h : h = Rec(h)
<1>1. \E f \in [0..Rounds -> SUBSET Described] : f = Rec(f)
  <2>. DEFINE V == SUBSET Described
              F == [z \in (1..Rounds) \X V |-> Wave(z[2])]
  <2>1. F \in [(1..Rounds) \X V -> V] /\ {} \in V /\ \A n \in 1..Rounds, v \in V : F[<<n, v>>] = Wave(v)
    OBVIOUS
  <2>. HIDE DEF F, V, Wave
  <2>2. PICK f \in [0..Rounds -> V] : Iterates(f, Rounds, {}, F)
    BY <2>1, RoundsAreEnough, Iteration
  <2>3. ASSUME NEW n \in 0..Rounds PROVE f[n] = Rec(f)[n]
    <3>1. CASE n = 0
      BY <2>2, <3>1 DEF Iterates
    <3>2. CASE n \in 1..Rounds
      <4>1. n - 1 \in 0..Rounds /\ f[n - 1] \in V
        BY <2>2, <3>2, RoundsAreEnough
      <4>. QED  BY <2>1, <2>2, <3>2, <4>1 DEF Iterates
    <3>. QED  BY <3>1, <3>2, RoundsAreEnough
  <2>4. f = [n \in 0..Rounds |-> f[n]]
    OBVIOUS
  <2>. QED  BY <2>3, <2>4 DEF V
<1>2. p = Rec(p)
  <2>. HIDE DEF Rec
  <2>. QED  BY <1>1
<1>3. /\ computeBatches.waves = [n \in 1..Rounds |-> p[n] \ p[n - 1]]
      /\ computeBatches.cycleBroken = Described \ p[Rounds]
  BY DEF computeBatches
<1>. HIDE DEF p
<1>4. p[0] = {} /\ \A n \in 1..Rounds : p[n] = Wave(p[n - 1])
  <2>. HIDE DEF Wave
  <2>1. \A n \in 0..Rounds : p[n] = Rec(p)[n]
    <3>. HIDE DEF Rec
    <3>. QED  BY <1>2
  <2>2. 0 \in 0..Rounds /\ \A n \in 1..Rounds : n \in 0..Rounds /\ n # 0
    BY RoundsAreEnough
  <2>. QED  BY <2>1, <2>2
<1>5. p \in [0..Rounds -> SUBSET Described]
  <2>. DEFINE T == {n \in Nat : n <= Rounds => p[n] \in SUBSET Described}
  <2>1. 0 \in T
    BY <1>4
  <2>2. ASSUME NEW n \in Nat, n \in T PROVE n + 1 \in T
    <3>. SUFFICES ASSUME n + 1 <= Rounds PROVE p[n + 1] \in SUBSET Described
      OBVIOUS
    <3>1. n + 1 \in 1..Rounds /\ (n + 1) - 1 = n /\ p[n] \in SUBSET Described
      BY <2>2, RoundsAreEnough
    <3>. QED  BY <1>4, <3>1
  <2>. HIDE DEF T
  <2>3. Nat \subseteq T
    BY <2>1, <2>2, NatInductive
  <2>4. \A n \in 0..Rounds : p[n] \in SUBSET Described
    BY <2>3, RoundsAreEnough DEF T
  <2>5. p = [n \in 0..Rounds |-> p[n]]
    BY <1>2
  <2>. QED  BY <2>4, <2>5
<1>. QED  BY <1>3, <1>4, <1>5 DEF Places

\* The places only grow.
LEMMA PlacesGrow ==
  ASSUME NEW p, Places(p), NEW n \in 1..Rounds
  PROVE  /\ n - 1 \in 0..Rounds /\ n \in 0..Rounds /\ p[n - 1] \in SUBSET Described /\ p[n] \in SUBSET Described
         /\ p[n - 1] \subseteq p[n]
         /\ \A u \in p[n] \ p[n - 1] : u \in Described /\ blockedBy[u] \subseteq p[n - 1]
         /\ \A u \in Described : blockedBy[u] \subseteq p[n - 1] => u \in p[n]
BY RoundsAreEnough DEF Places

\* What is placed was placed in one of the waves.
LEMMA PlacedInAWave ==
  ASSUME NEW p, Places(p), NEW n \in 0..Rounds, NEW b \in p[n]
  PROVE  \E k \in 1..n : b \in p[k] \ p[k - 1]
<1>. DEFINE S == {m \in 0..n : b \in p[m]}
<1>1. n \in Nat /\ S \in SUBSET Nat /\ n \in S
  BY RoundsAreEnough
<1>2. PICK k \in S : \A m \in S : k <= m
  BY <1>1, NatLeast
<1>3. k # 0
  BY DEF Places
<1>4. k \in 1..n /\ k - 1 \in 0..n /\ k - 1 \notin S
  BY <1>1, <1>2, <1>3
<1>. QED  BY <1>4

LEMMA EarliestWaves == ProgressTypes => WavesAreEarliest
<1>. SUFFICES ASSUME ProgressTypes PROVE WavesAreEarliest
  OBVIOUS
<1>1. PICK p : /\ Places(p)
               /\ computeBatches.waves = [n \in 1..Rounds |-> p[n] \ p[n - 1]]
  BY WavesArePlaced
<1>. DEFINE waves == computeBatches.waves
<1>2. DOMAIN waves = 1..Rounds /\ \A n \in 1..Rounds : waves[n] = p[n] \ p[n - 1]
  BY <1>1
<1>. HIDE DEF waves
<1>3. ASSUME NEW n \in 1..Rounds, NEW u \in waves[n]
      PROVE  /\ \A b \in blockedBy[u] : \E k \in 1..(n - 1) : b \in waves[k]
             /\ n > 1 => blockedBy[u] \cap waves[n - 1] # {}
  <2>1. u \in p[n] \ p[n - 1]
    BY <1>2
  <2>2. u \in Described /\ blockedBy[u] \subseteq p[n - 1] /\ n - 1 \in 0..Rounds /\ u \notin p[n - 1]
    BY <1>1, <2>1, PlacesGrow
  <2>3. ASSUME NEW b \in blockedBy[u] PROVE \E k \in 1..(n - 1) : b \in waves[k]
    <3>1. PICK k \in 1..(n - 1) : b \in p[k] \ p[k - 1]
      BY <1>1, <2>2, PlacedInAWave
    <3>2. k \in 1..Rounds
      BY RoundsAreEnough
    <3>. QED  BY <1>2, <3>1, <3>2
  <2>4. ASSUME n > 1 PROVE blockedBy[u] \cap waves[n - 1] # {}
    <3>1. PICK m \in 1..Rounds : m = n - 1
      BY <2>4, RoundsAreEnough
    <3>2. ~(blockedBy[u] \subseteq p[m - 1])
      BY <1>1, <2>2, <3>1, PlacesGrow
    <3>3. PICK b \in blockedBy[u] : b \notin p[m - 1]
      BY <3>2
    <3>4. b \in p[m] \ p[m - 1]
      BY <2>2, <3>1, <3>3
    <3>. QED  BY <1>2, <3>1, <3>4
  <2>. QED  BY <2>3, <2>4
<1>. QED  BY <1>2, <1>3 DEF WavesAreEarliest, waves

\* In each wave each unit waits for all that block it, and for no longer; for
\* any units and any document.
THEOREM WavesEarliest == ProgressSpec => []WavesAreEarliest
BY EarliestWaves, ProgressIsTyped, PTL

\* No unit can be placed that is not.
Closed(S) == {u \in Described : blockedBy[u] \subseteq S} \subseteq S

\* A round places a unit at least, or there is none left to place.
LEMMA RoundsSuffice ==
  ASSUME NEW p, Places(p)
  PROVE  Closed(p[Rounds])
<1>. DEFINE Enough(n) == n <= Cardinality(p[n]) \/ Closed(p[n])
            T == {n \in Nat : n <= Rounds => Enough(n)}
<1>1. \A n \in 0..Rounds : p[n] \in SUBSET Described /\ IsFiniteSet(p[n]) /\ Cardinality(p[n]) \in Nat
                           /\ Cardinality(p[n]) <= Cardinality(Described)
  <2>1. \A n \in 0..Rounds : p[n] \in SUBSET Described
    BY DEF Places
  <2>. QED  BY <2>1, ProgressAssumption, FS_Subset, FS_CardinalityType
<1>2. 0 \in T
  BY <1>1, RoundsAreEnough
<1>3. ASSUME NEW n \in Nat, n \in T PROVE n + 1 \in T
  <2>. SUFFICES ASSUME n + 1 <= Rounds PROVE Enough(n + 1)
    OBVIOUS
  <2>1. PICK m \in 1..Rounds : m = n + 1 /\ m - 1 = n
    BY RoundsAreEnough
  <2>2. n \in 0..Rounds /\ m \in 0..Rounds /\ p[n] \subseteq p[m]
    BY <2>1, PlacesGrow
  <2>3. Enough(n)
    <3>. HIDE DEF Enough
    <3>. QED  BY <1>3, <2>2, RoundsAreEnough
  <2>4. CASE Closed(p[n])
    <3>1. \A u \in p[m] \ p[n] : u \in Described /\ blockedBy[u] \subseteq p[n]
      BY <2>1, PlacesGrow
    <3>2. p[m] = p[n]
      BY <2>2, <2>4, <3>1 DEF Closed
    <3>. QED  BY <2>1, <2>4, <3>2
  <2>5. CASE ~Closed(p[n])
    <3>1. PICK u \in Described : blockedBy[u] \subseteq p[n] /\ u \notin p[n]
      BY <2>5 DEF Closed
    <3>2. u \in p[m]
      BY <2>1, <3>1, PlacesGrow
    <3>3. p[n] \cup {u} \in SUBSET p[m]
      BY <2>2, <3>2
    <3>4. IsFiniteSet(p[n]) /\ IsFiniteSet(p[m])
      BY <1>1, <2>2
    <3>5. Cardinality(p[n] \cup {u}) = Cardinality(p[n]) + 1
      BY <3>1, <3>4, FS_AddElement
    <3>6. Cardinality(p[n] \cup {u}) <= Cardinality(p[m])
      BY <3>3, <3>4, FS_Subset
    <3>. QED  BY <1>1, <2>1, <2>2, <2>3, <2>5, <3>5, <3>6
  <2>. QED  BY <2>4, <2>5
<1>4. Nat \subseteq T
  <2>. HIDE DEF T
  <2>. QED  BY <1>2, <1>3, NatInductive
<1>5. Enough(Rounds)
  <2>. HIDE DEF Enough
  <2>. QED  BY <1>4, RoundsAreEnough
<1>. QED  BY <1>1, <1>5, RoundsAreEnough

\* Units each of which is blocked by another of them.
Entangled(C) == \A u \in C : blockedBy[u] \cap C # {}

\* They are not placed in any round; and what no round places is such a set.
LEMMA UnplacedAreEntangled ==
  ASSUME ProgressTypes
  PROVE  /\ Entangled(computeBatches.cycleBroken) /\ computeBatches.cycleBroken \in SUBSET Described
         /\ \A C \in SUBSET Described : Entangled(C) => C \subseteq computeBatches.cycleBroken
<1>1. PICK p : Places(p) /\ computeBatches.cycleBroken = Described \ p[Rounds]
  BY WavesArePlaced
<1>. DEFINE rest == computeBatches.cycleBroken
<1>2. rest = Described \ p[Rounds]
  BY <1>1
<1>. HIDE DEF rest
<1>3. Entangled(rest)
  <2>. SUFFICES ASSUME NEW u \in rest PROVE blockedBy[u] \cap rest # {}
    BY DEF Entangled
  <2>1. ~(blockedBy[u] \subseteq p[Rounds])
    BY <1>1, <1>2, RoundsSuffice DEF Closed
  <2>2. blockedBy[u] \subseteq Described
    BY <1>2 DEF ProgressTypes
  <2>. QED  BY <1>2, <2>1, <2>2
<1>4. ASSUME NEW C \in SUBSET Described, Entangled(C) PROVE C \subseteq rest
  <2>. DEFINE T == {n \in Nat : n <= Rounds => p[n] \cap C = {}}
  <2>1. 0 \in T
    BY <1>1 DEF Places
  <2>2. ASSUME NEW n \in Nat, n \in T PROVE n + 1 \in T
    <3>. SUFFICES ASSUME n + 1 <= Rounds PROVE p[n + 1] \cap C = {}
      OBVIOUS
    <3>1. PICK m \in 1..Rounds : m = n + 1 /\ m - 1 = n
      BY RoundsAreEnough
    <3>2. p[n] \cap C = {}
      BY <2>2, RoundsAreEnough
    <3>3. \A u \in p[m] \ p[n] : blockedBy[u] \subseteq p[n]
      BY <1>1, <3>1, PlacesGrow
    <3>4. \A u \in C : u \notin p[m]
      BY <1>4, <3>2, <3>3 DEF Entangled
    <3>. QED  BY <3>1, <3>4
  <2>3. Nat \subseteq T
    <3>. HIDE DEF T
    <3>. QED  BY <2>1, <2>2, NatInductive
  <2>4. p[Rounds] \cap C = {}
    BY <2>3, RoundsAreEnough
  <2>. QED  BY <1>2, <2>4
<1>5. rest \in SUBSET Described
  BY <1>2
<1>. QED  BY <1>3, <1>4, <1>5 DEF rest

\* The units named as "Cycle-broken" are those on a cycle or behind one: the
\* cap on the rounds is never what leaves a unit out; for any units.
THEOREM CyclesNamed == ProgressSpec => []CyclesAreNamed
<1>1. ProgressTypes => CyclesAreNamed
  <2>. SUFFICES ASSUME ProgressTypes PROVE CyclesAreNamed
    OBVIOUS
  <2>. DEFINE rest == computeBatches.cycleBroken
              Sets == {C \in SUBSET Described : \A u \in C : blockedBy[u] \cap C # {}}
  <2>1. rest \in Sets /\ \A C \in Sets : C \subseteq rest
    <3>1. Sets = {C \in SUBSET Described : Entangled(C)}
      BY DEF Entangled
    <3>. HIDE DEF Sets
    <3>. QED  BY <3>1, UnplacedAreEntangled
  <2>. HIDE DEF rest, Sets
  <2>2. rest = UNION Sets
    BY <2>1
  <2>. QED  BY <2>2 DEF CyclesAreNamed, rest, Sets
<1>. QED  BY <1>1, ProgressIsTyped, PTL

\* What the report says of a unit, by how far it got.
LEMMA UnitsClassified ==
  ASSUME ProgressTypes, NEW u \in Described
  PROVE  LET t == classification[u] IN
         /\ readUnitState(u) = "RELEASED" => Done(classification, u)
         /\ \A f \in {"design", "code", "test"} : t[f] \in {"-", "?", "wip", "done"}
         /\ \/ Done(classification, u)
            \/ t.test # "done" /\ (t.design = "wip" \/ t.code = "wip" \/ t.test = "wip")
            \/ t \in {Triple("-", "-", "-"), Triple("?", "?", "?")}
<1>1. readUnitState(u) \in StageNames \cup {"NO_BRANCH", "RELEASED", "NO_STATE", "CORRUPT", "COMPLETE"}
  BY UnitStates
<1>2. classification[u] = classifyStage(readUnitState(u))
  BY DEF classification
<1>3. PICK s : s = readUnitState(u)
  OBVIOUS
<1>4. CASE s \in StageNames
  <2>1. classification[u] = STAGE_TO_TRIPLE[s]
    BY <1>2, <1>3, <1>4 DEF classifyStage, StageNames
  <2>2. STAGE_TO_TRIPLE[s] \in {Triple("-", "-", "-"), Triple("done", "wip", "-"), Triple("done", "done", "wip"), Triple("wip", "-", "-")}
    BY <1>4 DEF STAGE_TO_TRIPLE, StageNames
  <2>3. s # "RELEASED"
    BY <1>4 DEF StageNames
  <2>. QED  BY <1>3, <2>1, <2>2, <2>3 DEF Triple
<1>5. CASE s \in {"RELEASED", "COMPLETE"}
  BY <1>2, <1>3, <1>5 DEF classifyStage, Done, Triple
<1>6. CASE s \in {"NO_BRANCH", "NO_STATE", "CORRUPT"}
  BY <1>2, <1>3, <1>6 DEF classifyStage, Triple
<1>. QED  BY <1>1, <1>3, <1>4, <1>5, <1>6

\* Sets that share nothing have together as many elements as each in turn.
LEMMA DisjointUnion ==
  ASSUME NEW A, NEW B, IsFiniteSet(A), IsFiniteSet(B), A \cap B = {}
  PROVE  IsFiniteSet(A \cup B) /\ Cardinality(A \cup B) = Cardinality(A) + Cardinality(B)
<1>1. IsFiniteSet(A \cup B) /\ Cardinality(A \cup B) = Cardinality(A) + Cardinality(B) - Cardinality(A \cap B)
  BY FS_Union
<1>2. Cardinality(A \cap B) = 0 /\ Cardinality(A) \in Nat /\ Cardinality(B) \in Nat
  BY FS_EmptySet, FS_CardinalityType
<1>. QED  BY <1>1, <1>2

LEMMA ThreeDisjoint ==
  ASSUME NEW A, NEW B, NEW C, IsFiniteSet(A), IsFiniteSet(B), IsFiniteSet(C), A \cap B = {}, (A \cup B) \cap C = {}
  PROVE  Cardinality(A) + Cardinality(B) + Cardinality(C) = Cardinality(A \cup B \cup C)
<1>. DEFINE AB == A \cup B
<1>1. IsFiniteSet(AB) /\ Cardinality(AB) = Cardinality(A) + Cardinality(B)
  BY DisjointUnion
<1>2. AB \cap C = {}
  OBVIOUS
<1>. HIDE DEF AB
<1>3. Cardinality(AB \cup C) = Cardinality(AB) + Cardinality(C)
  BY <1>1, <1>2, DisjointUnion
<1>. QED  BY <1>1, <1>3 DEF AB

LEMMA CountsAgree == ProgressTypes => CountsAgreeWithTable
<1>. SUFFICES ASSUME ProgressTypes PROVE CountsAgreeWithTable
  OBVIOUS
<1>. DEFINE cs == classification
            finished == {u \in Described : Done(cs, u)}
            wip == {u \in Described \ finished : \E i \in DOMAIN Phases : cs[u][Phases[i]] = "wip"}
            released == {u \in Described : readUnitState(u) = "RELEASED"}
            table == bucketByPhase(cs)
<1>1. \A u \in Described : Done(cs, u) => cs[u].design = "done" /\ cs[u].code = "done" /\ cs[u].test = "done"
  BY DEF Done, Triple
<1>2. \A u \in Described : (\E i \in DOMAIN Phases : cs[u][Phases[i]] = "wip") <=>
                             cs[u].design = "wip" \/ cs[u].code = "wip" \/ cs[u].test = "wip"
  <2>1. DOMAIN Phases = 1..3 /\ Phases[1] = "design" /\ Phases[2] = "code" /\ Phases[3] = "test"
    BY DEF Phases
  <2>. HIDE DEF cs
  <2>. QED  BY <2>1
<1>3. \A u \in Described : /\ readUnitState(u) = "RELEASED" => Done(cs, u)
                           /\ \/ Done(cs, u)
                              \/ cs[u].test # "done" /\ (cs[u].design = "wip" \/ cs[u].code = "wip" \/ cs[u].test = "wip")
                              \/ cs[u] \in {Triple("-", "-", "-"), Triple("?", "?", "?")}
  BY UnitsClassified
<1>4. /\ table["Released"] = released
      /\ table["Pending"] = Described \ (finished \cup wip)
      /\ table["Design"] \cap table["Code"] = {} /\ (table["Design"] \cup table["Code"]) \cap table["Test"] = {}
      /\ table["Design"] \cup table["Code"] \cup table["Test"] = (finished \cup wip) \ released
  <2>. DEFINE BucketOf(u) == IF readUnitState(u) = "RELEASED" THEN "Released"
                             ELSE IF cs[u]["test"] \in {"wip", "done"} THEN "Test"
                             ELSE IF cs[u]["code"] \in {"wip", "done"} THEN "Code"
                             ELSE IF cs[u]["design"] \in {"wip", "done"} THEN "Design" ELSE "Pending"
  <2>1. \A b \in {"Design", "Code", "Test", "Released", "Pending"} : table[b] = {u \in Described : BucketOf(u) = b}
    BY DEF bucketByPhase
  <2>. HIDE DEF cs, table
  <2>2. \A u \in Described : BucketOf(u) = "Pending" <=> u \notin finished \cup wip
    BY <1>1, <1>2, <1>3 DEF Triple
  <2>3. \A u \in Described : BucketOf(u) \in {"Design", "Code", "Test", "Released", "Pending"}
    OBVIOUS
  <2>4. \A u \in Described : (BucketOf(u) = "Released" <=> u \in released) /\ (u \in released => u \in finished)
    BY <1>3
  <2>. HIDE DEF BucketOf, finished, wip, released
  <2>5. finished \subseteq Described /\ wip \subseteq Described /\ released \subseteq Described
    BY DEF finished, wip, released
  <2>. QED  BY <2>1, <2>2, <2>3, <2>4, <2>5
<1>5. released \subseteq finished /\ finished \cap wip = {} /\ finished \subseteq Described /\ wip \subseteq Described
  BY <1>3
<1>6. aggregateCounts(cs) = [ done |-> Cardinality(finished), wip |-> Cardinality(wip),
                              remaining |-> Cardinality(Described \ (finished \cup wip)), released |-> Cardinality(released) ]
  BY DEF aggregateCounts
<1>. HIDE DEF cs, finished, wip, released, table
<1>7. IsFiniteSet(finished) /\ IsFiniteSet(wip) /\ IsFiniteSet(released)
  BY <1>5, ProgressAssumption, FS_Subset
<1>8. IsFiniteSet(table["Design"]) /\ IsFiniteSet(table["Code"]) /\ IsFiniteSet(table["Test"])
  BY <1>4, <1>5, ProgressAssumption, FS_Subset
<1>9. Cardinality(table["Design"]) + Cardinality(table["Code"]) + Cardinality(table["Test"])
        = Cardinality((finished \cup wip) \ released)
  BY <1>4, <1>8, ThreeDisjoint
<1>10. Cardinality((finished \cup wip) \ released) = Cardinality(wip) + Cardinality(finished) - Cardinality(released)
  <2>. DEFINE begun == finished \cup wip
  <2>1. IsFiniteSet(begun) /\ Cardinality(begun) = Cardinality(finished) + Cardinality(wip)
    BY <1>5, <1>7, DisjointUnion
  <2>2. released \subseteq begun
    BY <1>5
  <2>. HIDE DEF begun
  <2>3. Cardinality(begun \ released) = Cardinality(begun) - Cardinality(begun \cap released)
    BY <2>1, FS_Difference
  <2>4. begun \cap released = released
    BY <2>2
  <2>5. Cardinality(finished) \in Nat /\ Cardinality(wip) \in Nat /\ Cardinality(released) \in Nat
    BY <1>7, FS_CardinalityType
  <2>. QED  BY <2>1, <2>3, <2>4, <2>5 DEF begun
<1>. QED  BY <1>4, <1>6, <1>9, <1>10 DEF CountsAgreeWithTable, cs, table

\* The counts in the head of the report agree with its table; for any units.
THEOREM CountsAgreeAlways == ProgressSpec => []CountsAgreeWithTable
BY CountsAgree, ProgressIsTyped, PTL

\* If every blocker of a phase were blocked itself, they would block each other.
LEMMA BlockedLeadsOut == ProgressTypes => BlockedPhasesHaveAWayOut
<1>. SUFFICES ASSUME ProgressTypes, NEW i \in DOMAIN Phases
              PROVE  LET phase == derivePhaseStatus(classification, Phases[i])
                         Row(u) == renderDashboardRow(classification, Phases[i], u)
                     IN /\ phase.status = "BLOCKED" <=> \E u \in Described : Row(u) # {}
                        /\ phase.status = "BLOCKED" /\ computeBatches.cycleBroken = {}
                             => \E b \in phase.blockers : Row(b) = {}
  BY DEF BlockedPhasesHaveAWayOut
<1>. DEFINE cs == classification
            f == Phases[i]
            phase == derivePhaseStatus(cs, f)
            Row(u) == renderDashboardRow(cs, f, u)
            blockers == {b \in Described : cs[b][f] # "done" /\ \E u \in Described : cs[u][f] = "-" /\ b \in blockedBy[u]}
            column == {cs[u][f] : u \in Described}
<1>1. phase.blockers = blockers /\ phase.status = CASE Described # {} /\ column = {"done"} -> "DONE"
                                                    [] blockers # {} -> "BLOCKED"
                                                    [] blockers = {} /\ column \cap {"done", "wip"} # {} -> "PARTIAL"
                                                    [] OTHER -> "READY"
  BY DEF derivePhaseStatus
<1>2. \A u \in Described : Row(u) = IF cs[u][f] # "-" THEN {} ELSE {b \in blockedBy[u] : cs[b][f] # "done"}
  BY DEF renderDashboardRow
<1>3. \A u \in Described : blockedBy[u] \subseteq Described
  BY DEF ProgressTypes
<1>. HIDE DEF cs, f, Row, phase
<1>4. column = {"done"} => blockers = {}
  <2>1. column = {"done"} => \A u \in Described : cs[u][f] = "done"
    OBVIOUS
  <2>. HIDE DEF column
  <2>. QED  BY <2>1
<1>5. phase.status = "BLOCKED" <=> blockers # {}
  <2>. HIDE DEF blockers, column
  <2>. QED  BY <1>1, <1>4
<1>6. blockers # {} <=> \E u \in Described : Row(u) # {}
  BY <1>2, <1>3
<1>7. ASSUME blockers # {}, \A b \in blockers : Row(b) # {}
      PROVE  computeBatches.cycleBroken # {}
  <2>1. Entangled(blockers)
    <3>. SUFFICES ASSUME NEW u \in blockers PROVE blockedBy[u] \cap blockers # {}
      BY DEF Entangled
    <3>1. u \in Described /\ cs[u][f] = "-"
      BY <1>2, <1>7
    <3>2. PICK b \in blockedBy[u] : cs[b][f] # "done"
      BY <1>2, <1>7, <3>1
    <3>. QED  BY <1>3, <3>1, <3>2
  <2>2. blockers \in SUBSET Described
    OBVIOUS
  <2>. HIDE DEF blockers
  <2>. QED  BY <1>7, <2>1, <2>2, UnplacedAreEntangled
<1>8. phase.status = "BLOCKED" /\ computeBatches.cycleBroken = {} => \E b \in phase.blockers : Row(b) = {}
  <2>. HIDE DEF blockers, column
  <2>. QED  BY <1>1, <1>5, <1>7
<1>. QED  BY <1>5, <1>6, <1>8 DEF phase, Row, cs, f

\* A phase is reported BLOCKED exactly when a row of its table is; without a
\* dependency cycle one of the blockers named is free to go on; for any units.
THEOREM BlockedPhasesLeadOut == ProgressSpec => []BlockedPhasesHaveAWayOut
BY BlockedLeadsOut, ProgressIsTyped, PTL
===============================================================================
