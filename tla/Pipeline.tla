------------------------------ MODULE Pipeline ------------------------------
(***************************************************************************)
(* Executions of the state machine and the worker services they send their *)
(* input to.                                                               *)
(***************************************************************************)
EXTENDS PipelineExecution, WorkerServices

\* An execution is started for an object that was uploaded.
ASSUME UploadedAssumption ==
  \A i \in Inputs : i.doc \in Roots \X {0} \X {0} /\ i.name \in Uploaded

pipelineVars == <<exec, workerVars>>

\* The uploaded objects are in the staging bucket when an execution starts.
PipelineInit ==
  /\ ExecutionsStart
  /\ mail = {} /\ acked = {} /\ dead = {}
  /\ objects = {<<exec[x].input.doc, exec[x].input.name>> : x \in Executions}
  /\ pod = [p \in Pods |-> Idle]
  /\ faults = 0

\* What an execution sends to a worker's queue arrives there.
Deliver(x) ==
  LET sent == exec'[x].sent IN
  IF Len(sent) > Len(exec[x].sent) /\ sent[Len(sent)].queue # "state_change"
    THEN mail' = Posted([ queue |-> sent[Len(sent)].queue, doc |-> exec[x].input.doc,
                          name |-> exec[x].input.name, copy |-> 0, has |-> sent[Len(sent)].has ])
    ELSE UNCHANGED mail

ExecutionProceeds(x) ==
  /\ Proceed(x)
  /\ Deliver(x)
  /\ UNCHANGED <<acked, dead, objects, pod, faults>>

ExecutionFails(x) ==
  /\ SendFails(x) /\ Fault
  /\ UNCHANGED <<mail, acked, dead, objects, pod>>

PipelineNext ==
  \/ \E x \in Executions : ExecutionProceeds(x) \/ ExecutionFails(x)
  \/ WorkersNext /\ UNCHANGED exec

PipelineSpec == PipelineInit /\ [][PipelineNext]_pipelineVars

\* Step Functions carries on an execution; a service's loop goes on after an
\* error, and a crashed pod is restarted; SQS applies its redrive policy.
PipelineFairness ==
  /\ \A x \in Executions : WF_pipelineVars(ExecutionProceeds(x))
  /\ \A p \in Pods : WF_pipelineVars(PodWorks(p) /\ UNCHANGED exec)
  /\ WF_pipelineVars(Redrive /\ UNCHANGED exec)

PipelineFairSpec == PipelineSpec /\ PipelineFairness

PipelineTypeOK == ExecutionTypeOK /\ WorkersTypeOK
-----------------------------------------------------------------------------
\* The queues that choose a document's conversion.
Conversions == {RouteQueue(r) : r \in Route}

\* The state machine and the classification service send a route to the same
\* queue, and COMPLETED is announced only after the input went there
\* (RouteChoice, DispatchConvert, ROUTE_QUEUE_URLS).
RoutesAgree ==
  \A x \in Executions :
    LET chosen == {exec[x].sent[i].queue : i \in DOMAIN exec[x].sent} \cap Conversions
        right  == {RouteQueue(exec[x].input.route)} IN
    /\ chosen \subseteq right
    /\ "COMPLETED" \in Announced(x) => chosen = right

\* The queues and the services keep the promise of an SQS queue and its
\* consumer: no message is deleted before it was received and its document was
\* handed on, none is given up before its receives are used up, and neither
\* comes back, whatever is delivered twice or late.
Mail == INSTANCE AtLeastOnce WITH
  Limit <- MaxReceive, queue <- mail, deleted <- {e.msg : e \in acked},
  buried <- {e.msg : e \in dead}, worked <- {m \in Ever : Served(m)}
MailIsDelivered == Mail!Spec

\* Every message ends deleted by a service or dead-lettered, children's too.
MailSettles == <>[](mail = {})
=============================================================================
