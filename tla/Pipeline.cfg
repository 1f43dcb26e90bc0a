\* One document of every kind, handled by one pod.
CONSTANTS
  r1 = r1
  NoMessage = NoMessage
  Executions = {x1}
  Inputs <- MCInputs
  Pods = {p1}
  Roots = {r1}
  Entries = 1
  EntryKind = "other"
  MaxReceive = 2
  MaxFaults = 1
SPECIFICATION PipelineFairSpec
INVARIANTS
  DispatchesNameTheirDocument
  RoutesAgree
PROPERTIES
  MailIsDelivered
  MailSettles
CHECK_DEADLOCK FALSE
