\* The input the upload handler starts an execution with, and no faults.
CONSTANTS
  r1 = r1
  NoMessage = NoMessage
  Executions = {x1}
  Inputs <- MCDeployedInputs
  Pods = {p1}
  Roots = {r1}
  Entries = 1
  EntryKind = "other"
  MaxReceive = 2
  MaxFaults = 0
SPECIFICATION PipelineSpec
INVARIANTS
  FailureIsAnnounced
CHECK_DEADLOCK FALSE
