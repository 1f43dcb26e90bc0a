\* A repeated createDocument outruns the index.
CONSTANTS
  d1 = d1
  d2 = d2
  b1 = b1
  b2 = b2
  k1 = k1
  u1 = u1
  u2 = u2
  NoDoc = NoDoc
  NoRequest = NoRequest
  Batches = {b1, b2}
  CreateKeys = {k1}
  UpdateKeys = {u1, u2}
  Stages = {"", "s"}
  CreateRequests <- MCCreateRequests
  UpdateRequests <- MCUpdateRequests
  Docs = {d1, d2}
  Calls = {c1, c2}
  Concurrency = 1
  Faults = FALSE
SPECIFICATION ResolverSpec
INVARIANTS
  OneDocumentPerKey
CHECK_DEADLOCK FALSE
