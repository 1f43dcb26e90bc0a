\* The three writers on one document, with failing invocations.
CONSTANTS
  d1 = d1
  d2 = d2
  b1 = b1
  b2 = b2
  k1 = k1
  k2 = k2
  u1 = u1
  x1 = x1
  x2 = x2
  c1 = c1
  c2 = c2
  c3 = c3
  NoDoc = NoDoc
  NoRequest = NoRequest
  NoNote = NoNote
  NoRun = NoRun
  Docs = {d1}
  Batches = {b1, b2}
  CreateKeys = {k1, k2}
  UpdateKeys = {u1}
  Stages = {"", "queued", "classifying"}
  Calls = {c1, c2, c3}
  CreateRequests <- MCCreateRequests
  UpdateRequests <- MCUpdateRequests
  Concurrency = 2
  Faults = FALSE
  Runs = {x1}
  Executions = {x1}
  Workers = {w1}
  MaxReceive = 1
  LambdaFaults = TRUE
  Handlers = {h1}
  MaxUploads = 2
  MaxDeliveries = 1
  HandlerFaults = TRUE
  Script <- MCOneMessage
SPECIFICATION Spec
INVARIANTS
  TypeOK
  RowsKeepTheirBatch
  RegressionNeedsStaleReadOrUnguardedWriter
  MalwareFlagLostOnlyToStaleRead
  RepliesAreTrue
  UpdatesAnnounced
CHECK_DEADLOCK FALSE
SYMMETRY CallSymmetry
