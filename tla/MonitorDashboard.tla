--------------------------- MODULE MonitorDashboard ---------------------------
(***************************************************************************)
(* One browser tab of the monitoring dashboard: the operations view polls  *)
(* the services while it is open and pushes what it sees change to the     *)
(* store of notifications, which other tabs share through local storage    *)
(* and read when they are loaded.                                          *)
(***************************************************************************)
EXTENDS Naturals, SequencesExt

CONSTANTS
  Watched,   \* the units polled, as a sequence in the order of the roster
  MAX_KEPT,   \* the notifications kept
  DedupWindow, KeepFor, MaxClock   \* 30 s, 24 h; bound: the clock

ASSUME DashboardAssumption ==
  /\ Watched \in Seq(Range(Watched))
  /\ MAX_KEPT \in Nat /\ MAX_KEPT >= Len(Watched) /\ DedupWindow <= KeepFor

VARIABLES
  clock,
  items,      \* the tab's notifications, youngest first
  stored,     \* those in local storage
  view,       \* the view that is open; only "operations" polls
  last,       \* lastStateRef: the state of each service in the poll before
  owed        \* history: the changes to DOWN or DEGRADED seen and not taken away since

dashboardVars == <<clock, items, stored, view, last, owed>>

WatchedUnits == Range(Watched)
States == {"OK", "DEGRADED", "DOWN", "UNKNOWN"}
NotSeen == [u \in WatchedUnits |-> "none"]

DashboardInit ==
  /\ clock = 1 /\ items = <<>> /\ stored = <<>> /\ view = "operations"
  /\ last = NotSeen /\ owed = {}

Key(source, title) == [source |-> source, title |-> title]

-----------------------------------------------------------------------------
\* Polling.

\* What a probe of one service comes to.
pollOne(probe) == CASE probe = "2xx" -> "OK" [] probe = "other" -> "DEGRADED" [] probe = "failed" -> "DOWN"
Direct == {[u \in WatchedUnits |-> pollOne(probes[u])] : probes \in [WatchedUnits -> {"2xx", "other", "failed"}]}

\* The aggregator's snapshot; when it cannot be had every service is DOWN.
pollViaAggregator == [WatchedUnits -> States] \cup {[u \in WatchedUnits |-> "DOWN"]}

pollAllServices(direct) == IF direct THEN Direct ELSE pollViaAggregator

-----------------------------------------------------------------------------
\* The store.

\* Mutant: a notification repeats any other of its source.
Duplicate_Source(list, key) ==
  \E i \in DOMAIN list : list[i].key.source = key.source /\ clock - list[i].ts < DedupWindow

Duplicate(list, key) == \E i \in DOMAIN list : list[i].key = key /\ clock - list[i].ts < DedupWindow

pushNotification(list, key) ==
  IF Duplicate(list, key) THEN list
  ELSE LET next == <<[key |-> key, ts |-> clock]>> \o list
       IN SubSeq(next, 1, IF Len(next) <= MAX_KEPT THEN Len(next) ELSE MAX_KEPT)

\* Notifications older than a day are not read back.
loadFromStorage ==
  LET kept[n \in 0..Len(stored)] ==
        IF n = 0 THEN <<>>
        ELSE IF clock - stored[n].ts <= KeepFor THEN Append(kept[n - 1], stored[n]) ELSE kept[n - 1]
  IN kept[Len(stored)]

KeysOf(list) == {list[i].key : i \in DOMAIN list}

\* The tab's list becomes list and is written to storage; what it loses by
\* its length or by the user's will is no longer owed.
Keep(list, seen) ==
  /\ items' = list /\ stored' = list
  /\ owed' = (owed \cup seen) \ (KeysOf(items) \ KeysOf(list))

-----------------------------------------------------------------------------
\* A service against its state in the poll before; the first poll has none.
Changed(u, next) == last[u] # "none" /\ last[u] # next[u] /\ next[u] \in {"DOWN", "DEGRADED"}

\* The list when every service of a poll has been looked at in turn.
Polled(next) ==
  LET list[n \in 0..Len(Watched)] ==
        IF n = 0 THEN items
        ELSE IF Changed(Watched[n], next) THEN pushNotification(list[n - 1], Key(Watched[n], next[Watched[n]]))
        ELSE list[n - 1]
  IN list[Len(Watched)]

\* One poll of the operations view.
RefreshTick(next) ==
  /\ view = "operations"
  /\ LET list == Polled(next)
         seen == {Key(u, next[u]) : u \in {v \in WatchedUnits : Changed(v, next)}}
     IN IF list # items THEN Keep(list, seen)
        ELSE owed' = owed \cup seen /\ UNCHANGED <<items, stored>>
  /\ last' = next
  /\ UNCHANGED <<clock, view>>

\* Leaving the view unmounts it and forgets the states; returning begins anew.
SetView(v) ==
  /\ v # view /\ view' = v /\ last' = NotSeen
  /\ UNCHANGED <<clock, items, stored, owed>>

\* A failed upload, from the view that shows it.
UploadFails ==
  /\ LET list == pushNotification(items, Key("upload", "failed"))
     IN IF list # items THEN Keep(list, {}) ELSE UNCHANGED <<items, stored, owed>>
  /\ UNCHANGED <<clock, view, last>>

dismiss(i) == Keep(RemoveAt(items, i), {}) /\ UNCHANGED <<clock, view, last>>
clearAll == Keep(<<>>, {}) /\ UNCHANGED <<clock, view, last>>

\* The marks are left out, what marking writes to storage is not.
markAllRead == Keep(items, {}) /\ UNCHANGED <<clock, view, last>>

\* Another tab writes its own list over this tab's.
OtherTabPersists(list) ==
  /\ stored' = list
  /\ UNCHANGED <<clock, items, view, last, owed>>

Reload ==
  /\ items' = loadFromStorage /\ last' = NotSeen /\ owed' = {}
  /\ UNCHANGED <<clock, stored, view>>

TimePasses == clock < MaxClock /\ clock' = clock + 1 /\ UNCHANGED <<items, stored, view, last, owed>>

DashboardNext ==
  \/ \E direct \in BOOLEAN : \E next \in pollAllServices(direct) : RefreshTick(next)
  \/ \E v \in {"operations", "upload"} : SetView(v)
  \/ UploadFails \/ clearAll \/ markAllRead \/ Reload \/ TimePasses
  \/ \E i \in DOMAIN items : dismiss(i)
  \/ \E list \in {<<>>} \cup {<<[key |-> Key(u, "DOWN"), ts |-> clock]>> : u \in WatchedUnits} : OtherTabPersists(list)

DashboardSpec == DashboardInit /\ [][DashboardNext]_dashboardVars

-----------------------------------------------------------------------------
\* Every change of a service to DOWN or DEGRADED that the view saw is in the
\* list of notifications, by its own name and severity, until the user takes it
\* away, younger ones push it out or the page is reloaded: what the store drops
\* as a repetition repeats one that is listed.
OutagesAreListed == \A key \in owed : \E i \in DOMAIN items : items[i].key = key
=============================================================================
