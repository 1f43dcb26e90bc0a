\* Two streams over two replicas with two updates; two clients of the monitor;
\* one dashboard tab that watches two services and keeps two notifications;
\* two files uploaded; two audit events over a midnight; one workspace with three calls.
CONSTANTS
  NoReplica = NoReplica
  Services = {v1, v2}
  Clients = {c1, c2}
  Capacity = 2
  MaxTicks = 3
  Replicas = {r1, r2}
  Streams = {s1, s2}
  Updates = {u1, u2}
  Room = 1
  w1 = w1
  w2 = w2
  Watched <- MCWatched
  MAX_KEPT = 2
  DedupWindow = 1
  KeepFor = 1
  MaxClock = 3
  Docs = {d1, d2}
  Events = {e1, e2}
  Drainers = {a1, a2}
  MaxAuditReceive = 2
  MaxDay = 2
  NoEvent = NoEvent
  Workspaces = {ws1}
  WorkspaceCalls = {p1, p2, p3}
  SettingValues = {Default, other}
  Unset = Unset
  Default = Default
  NoWorkspace = NoWorkspace
SPECIFICATION MCSpec
INVARIANTS
  RowsReachLocalStreams
  NoLeakedSubscription
  NoSendOnClosedChannel
  SnapshotsAreWhole
  StreamMovesForward
  OutagesAreListed
  CardsAreCoherent
  ArchivedOnce
  SettingsAreUndoneOnlyByOverlap
PROPERTIES
  TickCompletes
CHECK_DEADLOCK FALSE
