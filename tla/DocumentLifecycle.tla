------------------------- MODULE DocumentLifecycle -------------------------
(***************************************************************************)
(* The life of documents: document-resolver, update-document-state-lambda  *)
(* and document-event-handler-lambda on one table, with the clients that   *)
(* call the resolver and upload objects, and the executions that announce  *)
(* their progress on the state-change queue.                               *)
(***************************************************************************)
EXTENDS DocumentResolver, UpdateStateLambda, DocumentEventHandler

CONSTANT Script   \* the state-change messages of an execution, in the order it sends them

\* No two Notify states of the state machine send the same message.
ASSUME ScriptAssumption ==
  /\ Script \in Seq([toState: Status, phase: Stages])
  /\ \A i, j \in DOMAIN Script : Script[i] = Script[j] => i = j
  /\ Executions = Runs

vars == <<tableVars, resolverVars, lambdaVars, handlerVars>>

Init == TableInit /\ ResolverInit /\ LambdaInit /\ HandlerInit
-----------------------------------------------------------------------------
\* A client uploads to the URL it was given; a replayed createDocument gives none.
ClientUpload(d) ==
  /\ \E r \in replies : r.doc = d /\ r.url
  /\ Upload(d)
  /\ UNCHANGED <<resolverVars, lambdaVars>>

\* An execution enters its next Notify state: aws-sdk:sqs:sendMessage.
Notify(x) ==
  /\ runs[x] # NoRun
  /\ runs[x].sent < Len(Script)
  /\ LET next == Script[runs[x].sent + 1] IN
       queue' = queue \cup {[ note |-> [ run |-> x, doc |-> runs[x].doc,
                                        toState |-> next.toState, phase |-> next.phase ],
                              n |-> 0 ]}
  /\ runs' = [runs EXCEPT ![x].sent = @ + 1]
  /\ UNCHANGED <<tableVars, resolverVars, acked, dead, work, findings, handler>>

Next ==
  \/ \E c \in Calls : ResolverStep(c) /\ UNCHANGED <<lambdaVars, handlerVars>>
  \/ LambdaNext /\ UNCHANGED <<resolverVars, handlerVars>>
  \/ HandlerNext /\ UNCHANGED <<resolverVars, lambdaVars>>
  \/ \E d \in Docs : Replicate(d) /\ UNCHANGED <<resolverVars, lambdaVars, handlerVars>>
  \/ \E d \in Docs : ClientUpload(d)
  \/ \E x \in Executions : Notify(x)

Spec == Init /\ [][Next]_vars

\* Lambda polls the queue and every invocation ends, by an answer or by its
\* timeout; SQS applies the redrive policy.
Fairness ==
  /\ \A w \in Workers : WF_vars(WorkerStep(w) /\ UNCHANGED <<resolverVars, handlerVars>>)
  /\ WF_vars(Redrive /\ UNCHANGED <<resolverVars, handlerVars>>)

FairSpec == Spec /\ Fairness

TypeOK == TableTypeOK /\ ResolverTypeOK /\ LambdaTypeOK /\ HandlerTypeOK
-----------------------------------------------------------------------------
\* The notes the executions can send.
Notes == {[run |-> x, doc |-> d, toState |-> m.toState, phase |-> m.phase]
            : x \in Executions, d \in Docs, m \in {Script[i] : i \in DOMAIN Script}}

\* No message is handed out for ever: whatever fails, each one ends deleted
\* after a success or on the dead-letter queue (handleOne, sqs.tf redrive_policy).
NotesSettle ==
  \A n \in Notes : n \in {m.note : m \in queue} ~> n \in acked \cup dead

\* The state-change queue and the lambda keep the promise of an SQS queue and
\* its consumer: a message is deleted only after it was received and its document
\* was in the state it announces, is given up only with its receives used up,
\* and does not come back.
NotesQueue == INSTANCE AtLeastOnce WITH
  Limit <- MaxReceive, queue <- {[msg |-> m.note, n |-> m.n] : m \in queue},
  deleted <- acked, buried <- dead,
  worked <- {n \in Note : \E i \in DOMAIN log[n.doc] :
                            log[n.doc][i].status = n.toState /\ log[n.doc][i].stage = n.phase}
NotesAreDelivered == NotesQueue!Spec
=============================================================================
