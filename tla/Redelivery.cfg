\* A message delivered once more repeats its transition.
CONSTANTS
  d1 = d1
  d2 = d2
  b1 = b1
  b2 = b2
  k1 = k1
  k2 = k2
  u1 = u1
  x1 = x1
  x2 = x2
  c1 = c1
  c2 = c2
  c3 = c3
  NoDoc = NoDoc
  NoRequest = NoRequest
  NoNote = NoNote
  NoRun = NoRun
  Docs = {d1}
  Batches = {b1, b2}
  CreateKeys = {k1, k2}
  UpdateKeys = {u1}
  Stages = {"", "queued", "classifying"}
  Calls = {c1}
  CreateRequests <- MCCreateRequests
  UpdateRequests <- MCNoUpdateRequests
  Concurrency = 2
  Faults = FALSE
  Runs = {x1}
  Executions = {x1}
  Workers = {w1, w2}
  MaxReceive = 2
  LambdaFaults = FALSE
  Handlers = {}
  MaxUploads = 1
  MaxDeliveries = 1
  HandlerFaults = FALSE
  Script <- MCScript
SPECIFICATION Spec
INVARIANTS
  NoDuplicateTransition
CHECK_DEADLOCK FALSE
