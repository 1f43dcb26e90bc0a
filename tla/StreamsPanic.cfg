\* One stream leaves while an update is fanned out.
CONSTANTS
  NoReplica = NoReplica
  Services = {v1, v2}
  Clients = {c1, c2}
  Capacity = 1
  MaxTicks = 2
  Replicas = {r1}
  Streams = {s1}
  Updates = {u1, u2}
  Room = 1
  w1 = w1
  w2 = w2
  Watched <- MCWatched
  MAX_KEPT = 3
  DedupWindow = 2
  KeepFor = 2
  MaxClock = 4
  Docs = {d1, d2}
  Events = {e1, e2}
  Drainers = {a1, a2}
  MaxAuditReceive = 2
  MaxDay = 2
  NoEvent = NoEvent
  Workspaces = {ws1}
  WorkspaceCalls = {p1, p2, p3}
  SettingValues = {Default, other}
  Unset = Unset
  Default = Default
  NoWorkspace = NoWorkspace
SPECIFICATION MCSpec
INVARIANTS
  ReplicasSurviveSubscribers
CHECK_DEADLOCK FALSE
