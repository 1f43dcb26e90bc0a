\* One call at a time: the legalTransition guard is enough.
CONSTANTS
  d1 = d1
  d2 = d2
  b1 = b1
  b2 = b2
  k1 = k1
  u1 = u1
  u2 = u2
  NoDoc = NoDoc
  NoRequest = NoRequest
  Batches = {b1, b2}
  CreateKeys = {k1}
  UpdateKeys = {u1, u2}
  Stages = {"", "s"}
  CreateRequests <- MCCreateRequests
  UpdateRequests <- MCUpdateRequests
  Docs = {d1, d2}
  Calls = {c1, c2, c3, c4}
  Concurrency = 1
  Faults = TRUE
SPECIFICATION ResolverSpec
PROPERTIES
  SerialMachine
CHECK_DEADLOCK FALSE
