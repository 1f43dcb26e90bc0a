------------------------ MODULE DocumentEventHandler ------------------------
(***************************************************************************)
(* units/document-event-handler-lambda: one invocation per delivery of a   *)
(* GuardDuty scan result by EventBridge, which delivers at least once.     *)
(* "Object Created" events reach the same handler and change nothing.      *)
(***************************************************************************)
EXTENDS DocumentsTable

CONSTANTS
  Handlers,       \* invocations that run at the same time
  Executions,     \* names of the executions that can be started
  MaxUploads,     \* bound: objects uploaded with one presigned URL
  MaxDeliveries,  \* bound: deliveries of one scan result
  HandlerFaults,  \* whether an invocation may fail between two calls
  NoRun

VARIABLES
  findings,       \* [doc, nth, verdict, n]: scan results and their delivery counts
  runs,           \* [Executions -> Run \cup {NoRun}]
  handler         \* [Handlers -> HandlerState]

handlerVars == <<findings, runs, handler>>

Verdicts == {"NO_THREATS_FOUND", "THREATS_FOUND", "UNSUPPORTED"}

Finding == [doc: Docs, nth: Nat, verdict: Verdicts, n: Nat]

\* An execution: its document, and how many notifications it has sent.
Run == [doc: Docs, nth: Nat, sent: Nat]

HandlerState == [pc: {"idle", "get", "put"}, doc: Docs \cup {NoDoc}, base: Nat]

ASSUME HandlerAssumption ==
  /\ MaxUploads \in Nat
  /\ MaxDeliveries \in Nat
  /\ HandlerFaults \in BOOLEAN
  /\ NoRun \notin Run

HandlerInit ==
  /\ findings = {}
  /\ runs = [x \in Executions |-> NoRun]
  /\ handler = [h \in Handlers |-> [pc |-> "idle", doc |-> NoDoc, base |-> 0]]

Uploads(d) == {f.nth : f \in {g \in findings : g.doc = d}}
-----------------------------------------------------------------------------
\* Mutant: the row is built anew from the finding, which does not name the batch.
ThreatPut_NewRow(h) ==
  /\ handler[h].pc = "put"
  /\ \E batch \in Batches :
       LET d == handler[h].doc
           b == handler[h].base IN
         Put(d, [log[d][b] EXCEPT !.batch = batch, !.status = "FAILED", !.malware = TRUE,
                                  !.by = "handler", !.base = b])
  /\ handler' = [handler EXCEPT ![h].pc = "idle"]
  /\ UNCHANGED <<indexed, findings, runs>>
-----------------------------------------------------------------------------
\* A client PUTs an object under the document's key; the staging bucket is
\* scanned, and the finding names the document through the key
\* <tenant>/<batch>/<document> (extractDocumentID).
Upload(d) ==
  /\ Exists(d)
  /\ \E nth \in 1..MaxUploads, v \in Verdicts :
       /\ Uploads(d) = 1..nth-1
       /\ findings' = findings \cup {[doc |-> d, nth |-> nth, verdict |-> v, n |-> 0]}
  /\ UNCHANGED <<tableVars, runs, handler>>

\* EventBridge delivers a finding, for the first time or once more.
Deliver(f) ==
  /\ f \in findings
  /\ f.n < MaxDeliveries
  /\ findings' = (findings \ {f}) \cup {[f EXCEPT !.n = @ + 1]}

\* handleGuardDuty on NO_THREATS_FOUND: the execution's name carries
\* time.Now().UnixNano(), so every delivery starts another execution.
StartExecution ==
  /\ \E f \in findings, x \in Executions :
       /\ f.verdict = "NO_THREATS_FOUND"
       /\ Deliver(f)
       /\ runs[x] = NoRun
       /\ runs' = [runs EXCEPT ![x] = [doc |-> f.doc, nth |-> f.nth, sent |-> 0]]
  /\ UNCHANGED <<tableVars, handler>>

\* The other results, and a StartExecution call that fails.
Ignore ==
  /\ \E f \in findings :
       /\ f.verdict = "UNSUPPORTED" \/ (f.verdict = "NO_THREATS_FOUND" /\ HandlerFaults)
       /\ Deliver(f)
  /\ UNCHANGED <<tableVars, runs, handler>>

\* handleGuardDuty on THREATS_FOUND: Get, then Put with no legalTransition
\* check, no new key and no fanout.
BeginThreat(h) ==
  /\ handler[h].pc = "idle"
  /\ \E f \in findings :
       /\ f.verdict = "THREATS_FOUND"
       /\ Deliver(f)
       /\ handler' = [handler EXCEPT ![h].pc = "get", ![h].doc = f.doc]
  /\ UNCHANGED <<tableVars, runs>>

ThreatGet(h) ==
  /\ handler[h].pc = "get"
  /\ Exists(handler[h].doc)
  /\ handler' = [handler EXCEPT ![h].pc = "put", ![h].base = Current(handler[h].doc)]
  /\ UNCHANGED <<tableVars, findings, runs>>

ThreatPut(h) ==
  /\ handler[h].pc = "put"
  /\ LET d == handler[h].doc
         b == handler[h].base IN
       Put(d, [log[d][b] EXCEPT !.status = "FAILED", !.malware = TRUE,
                                !.by = "handler", !.base = b])
  /\ handler' = [handler EXCEPT ![h].pc = "idle"]
  /\ UNCHANGED <<indexed, findings, runs>>

\* Get or Put returns an error, or the invocation dies.
HandlerFail(h) ==
  /\ HandlerFaults
  /\ handler[h].pc # "idle"
  /\ handler' = [handler EXCEPT ![h].pc = "idle"]
  /\ UNCHANGED <<tableVars, findings, runs>>

HandlerStep(h) == BeginThreat(h) \/ ThreatGet(h) \/ ThreatPut(h) \/ HandlerFail(h)

HandlerNext == StartExecution \/ Ignore \/ \E h \in Handlers : HandlerStep(h)
-----------------------------------------------------------------------------
HandlerTypeOK ==
  /\ findings \subseteq Finding
  /\ runs \in [Executions -> Run \cup {NoRun}]
  /\ handler \in [Handlers -> HandlerState]
=============================================================================
