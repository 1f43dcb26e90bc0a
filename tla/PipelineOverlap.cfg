\* Overlapping deliveries: two pods, a mail, an archive and a document that is neither.
CONSTANTS
  r1 = r1
  NoMessage = NoMessage
  Executions = {x1}
  Inputs <- MCOverlapInputs
  Pods = {p1, p2}
  Roots = {r1}
  Entries = 1
  EntryKind = "other"
  MaxReceive = 2
  MaxFaults = 1
SPECIFICATION PipelineSpec
SYMMETRY Symmetry
INVARIANTS
  AckedWasHandedOn
  MessagesNameObjects
  DuplicatesNeedRedelivery
CHECK_DEADLOCK FALSE
