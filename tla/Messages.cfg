\* Two documents share the lambda's keys; handling fails again and again.
CONSTANTS
  d1 = d1
  d2 = d2
  b1 = b1
  b2 = b2
  k1 = k1
  k2 = k2
  u1 = u1
  x1 = x1
  x2 = x2
  c1 = c1
  c2 = c2
  c3 = c3
  NoDoc = NoDoc
  NoRequest = NoRequest
  NoNote = NoNote
  NoRun = NoRun
  Docs = {d1, d2}
  Batches = {b1, b2}
  CreateKeys = {k1, k2}
  UpdateKeys = {u1}
  Stages = {"", "queued", "classifying"}
  Calls = {}
  CreateRequests <- MCCreateRequests
  UpdateRequests <- MCNoUpdateRequests
  Concurrency = 1
  Faults = FALSE
  Runs = {x1, x2}
  Executions = {x1, x2}
  Workers = {w1, w2}
  MaxReceive = 2
  LambdaFaults = TRUE
  Handlers = {}
  MaxUploads = 1
  MaxDeliveries = 1
  HandlerFaults = FALSE
  Script <- MCOneMessage
SPECIFICATION StartedSpec
INVARIANTS
  AckedWasApplied
PROPERTIES
  NotesSettle
CHECK_DEADLOCK FALSE
