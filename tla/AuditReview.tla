------------------------------ MODULE AuditReview ------------------------------
(***************************************************************************)
(* /aidlc-audit-review: a collect bundles what the audit files and         *)
(* question files of main and of the units hold since the last review, an  *)
(* agent (not part of the code) writes the review's log, a finalize checks *)
(* the log and removes the bundle.  The name of the latest log is where    *)
(* the next review begins.  Reviews may overlap, be left or be repeated.   *)
(***************************************************************************)
EXTENDS Naturals, FiniteSets

CONSTANTS
  MaxItems,   \* bound: entries of the audit and question files
  MaxClock    \* bound: moments at which something is collected

ASSUME AuditAssumption == MaxItems \in Nat /\ MaxClock \in Nat \ {0}

VARIABLES
  clock,      \* now; a moment names one review at the most
  items,      \* the entries, each with the moment it was written and the one it landed
  reviews,    \* history: the collects so far: their window, what they bundled and missed
  logs,       \* the logs written: the moment of their review, and whether they are empty
  staging,    \* the moments whose staging directory is there
  told        \* the moments whose finalize answered FINALIZE_OK, or lost their bundle to age

auditVars == <<clock, items, reviews, logs, staging, told>>

Moments == 1..MaxClock
Uncommitted == MaxClock + 1    \* written, not yet committed to its branch

\* Blocks of an audit file, blocks that carry no timestamp, question files.
EntryKinds == {"block", "untimed", "question"}
Item == [nr: 1..MaxItems, kind: EntryKinds, unit: BOOLEAN, written: Moments, landed: 1..Uncommitted]

AuditInit ==
  /\ clock = 1 /\ items = {} /\ reviews = {} /\ logs = {} /\ staging = {}
  /\ told = [ok |-> {}, aged |-> {}]

-----------------------------------------------------------------------------
\* 0 is the full history.
findPriorAuditLog ==
  LET named == {l.moment : l \in logs}
  IN IF named = {} THEN 0 ELSE CHOOSE m \in named : \A n \in named : n <= m

\* Mutant: what was written at the very moment of the last review is left out.
sliceAuditByTimestamp_After(since) ==
  {i \in items : i.kind = "untimed" \/ (i.kind = "block" /\ i.written > since)}

sliceAuditByTimestamp(since) ==
  {i \in items : i.kind = "untimed" \/ (i.kind = "block" /\ i.written >= since)}

\* git show knows no time of change: every question file of a unit counts.
enumerateQuestionFilesCrossBranch == {i \in items : i.kind = "question" /\ i.unit}
enumerateProjectRootEscalateQuestionFiles(since) ==
  {i \in items : i.kind = "question" /\ ~i.unit /\ i.written >= since}

Landed == {i \in items : i.landed <= clock}

\* The staging directories a day old go.
cleanStaleStaging(aged) == staging \ aged

\* What a collect looks for.
Window(since) == Landed \cap (sliceAuditByTimestamp(since)
                              \cup enumerateQuestionFilesCrossBranch
                              \cup enumerateProjectRootEscalateQuestionFiles(since))

\* A file that cannot be read is passed over, at most with a line in the bundle:
\* the project's audit.md is one file, a unit's files are read from its branch
\* by calls of git that fail, or end at a time limit or at 1 MiB.
Unreadable(window) ==
  {missed \in SUBSET window :
     \A i, j \in window : /\ i.kind # "question" /\ ~i.unit
                          /\ j.kind # "question" /\ ~j.unit => (i \in missed <=> j \in missed)}

\* COLLECT_OK, whatever was missed.
auditReviewCollect(aged, missed) ==
  /\ \A r \in reviews : r.moment # clock
  /\ LET since == findPriorAuditLog
     IN /\ missed \in Unreadable(Window(since))
        /\ reviews' = reviews \cup {[moment |-> clock, since |-> since,
                                     bundle |-> Window(since) \ missed, missed |-> missed]}
  /\ staging' = cleanStaleStaging(aged) \cup {clock}
  /\ told' = [told EXCEPT !.aged = @ \cup aged]
  /\ UNCHANGED <<clock, items, logs>>

\* The agent reads the bundle and writes the log of its moment, or dies over it.
WriteLog(m, empty) ==
  /\ m \in staging /\ \A l \in logs : l.moment # m
  /\ logs' = logs \cup {[moment |-> m, empty |-> empty]}
  /\ UNCHANGED <<clock, items, reviews, staging, told>>

\* Mutant: the log is not looked for.
auditReviewFinalize_Blind(m) ==
  /\ \E r \in reviews : r.moment = m
  /\ staging' = staging \ {m} /\ told' = [told EXCEPT !.ok = @ \cup {m}]
  /\ UNCHANGED <<clock, items, reviews, logs>>

\* A directory that is gone is a success; one whose log is missing or empty stays.
auditReviewFinalize(m) ==
  /\ \E r \in reviews : r.moment = m
  /\ m \in staging => \E l \in logs : l.moment = m /\ ~l.empty
  /\ staging' = staging \ {m} /\ told' = [told EXCEPT !.ok = @ \cup {m}]
  /\ UNCHANGED <<clock, items, reviews, logs>>

-----------------------------------------------------------------------------
\* On main an entry is read from the working tree, on a unit once it is committed.
Write(kind, ofUnit) ==
  /\ Cardinality(items) < MaxItems
  /\ items' = items \cup {[nr |-> Cardinality(items) + 1, kind |-> kind, unit |-> ofUnit,
                           written |-> clock, landed |-> IF ofUnit THEN Uncommitted ELSE clock]}
  /\ UNCHANGED <<clock, reviews, logs, staging, told>>

Land(i) ==
  /\ i.landed = Uncommitted
  /\ items' = (items \ {i}) \cup {[i EXCEPT !.landed = clock]}
  /\ UNCHANGED <<clock, reviews, logs, staging, told>>

ClockTicks ==
  /\ clock < MaxClock /\ clock' = clock + 1
  /\ UNCHANGED <<items, reviews, logs, staging, told>>

AuditNext ==
  \/ \E aged \in SUBSET staging, missed \in SUBSET Landed : auditReviewCollect(aged, missed)
  \/ \E m \in Moments, empty \in BOOLEAN : WriteLog(m, empty)
  \/ \E m \in Moments : auditReviewFinalize(m)
  \/ \E kind \in EntryKinds, ofUnit \in BOOLEAN : Write(kind, ofUnit)
  \/ (\E i \in items : Land(i)) \/ ClockTicks

AuditSpec == AuditInit /\ [][AuditNext]_auditVars

-----------------------------------------------------------------------------
\* Whether a review that has a log bundled the entry, as it stands or before it landed.
Reviewed(i) == \E r \in reviews, l \in logs :
                 l.moment = r.moment /\ ~l.empty /\ \E b \in r.bundle : b.nr = i.nr

\* An entry that no later review will look at any more.
Past(i) == i.landed <= clock /\ i.kind = "block" /\ i.written < findPriorAuditLog

\* A block of an audit file goes unreviewed only if it was committed after a
\* review younger than its timestamp, or the agent left that review's log
\* empty, or its file could not be read by a review that looked for it: with
\* overlapping, left and repeated reviews the windows of the logs leave no gap.
NoGapBetweenReviews ==
  \A i \in items : Past(i) /\ ~Reviewed(i) =>
    \E l \in logs : /\ l.moment > i.written
                    /\ \/ l.empty \/ i.landed >= l.moment
                       \/ \E r \in reviews : r.moment = l.moment /\ i \in r.missed

\* A review reported as finalized has a log that is not empty, unless its
\* bundle was removed for its age.
FinalizedHasItsLog ==
  \A m \in told.ok \ told.aged : \E l \in logs : l.moment = m /\ ~l.empty

=============================================================================
