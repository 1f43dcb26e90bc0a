------------------------- MODULE UpdateStateLambda -------------------------
(***************************************************************************)
(* units/update-document-state-lambda and its queue, the standard SQS      *)
(* queue docuploader-state-change-notification-queue.  Delivery is at      *)
(* least once, in no order; a message received MaxReceive times without    *)
(* being deleted goes to the dead-letter queue.  The lambda writes the     *)
(* documents table itself: it does not call document-resolver.             *)
(***************************************************************************)
EXTENDS DocumentsTable, FiniteSets

CONSTANTS
  Runs,        \* executions of the pipeline state machine
  Workers,     \* messages the lambda handles at the same time
  MaxReceive,  \* maxReceiveCount of the queue (10 in sqs.tf)
  LambdaFaults,\* whether an invocation may fail or time out between two calls
  NoNote

VARIABLES
  queue,       \* [note, n]: the messages on the queue, with their receive count
  acked,       \* the notes whose message was deleted after a success
  dead,        \* the notes on the dead-letter queue
  work         \* [Workers -> WorkState]

lambdaVars == <<queue, acked, dead, work>>

\* The run tells two messages with equal bodies apart; the body has no run in it.
Note == [run: Runs, doc: Docs, toState: Status, phase: Stages]

ASSUME LambdaAssumption ==
  /\ MaxReceive \in Nat \ {0}
  /\ LambdaFaults \in BOOLEAN
  /\ NoNote \notin Note

WorkState == [pc: {"idle", "find", "get", "put", "ack"}, note: Note \cup {NoNote}, base: Nat]

NoteKey(n) == DeriveUpdateStatusKey("", n.toState, n.phase)

LambdaInit ==
  /\ queue = {}
  /\ acked = {}
  /\ dead = {}
  /\ work = [w \in Workers |-> [pc |-> "idle", note |-> NoNote, base |-> 0]]
-----------------------------------------------------------------------------
\* Mutants: the queue has no maxReceiveCount; a hit on any document is taken
\* for a replay; the processing error is not carried over.
Receive_Uncounted(w) ==
  /\ work[w].pc = "idle"
  /\ \E m \in queue : work' = [work EXCEPT ![w].pc = "find", ![w].note = m.note]
  /\ UNCHANGED <<tableVars, queue, acked, dead>>

LambdaFindHit_AnyDocument(w) ==
  /\ work[w].pc = "find"
  /\ FindByIdempotencyKey(NoteKey(work[w].note)) # {}
  /\ work' = [work EXCEPT ![w].pc = "ack"]
  /\ UNCHANGED <<tableVars, queue, acked, dead>>

LambdaPut_ClearsError(w) ==
  /\ work[w].pc = "put"
  /\ LET n == work[w].note
         b == work[w].base IN
       Put(n.doc, [log[n.doc][b] EXCEPT !.status = n.toState, !.stage = n.phase,
                                        !.key = NoteKey(n), !.malware = FALSE,
                                        !.by = "lambda", !.base = b])
  /\ work' = [work EXCEPT ![w].pc = "ack"]
  /\ UNCHANGED <<indexed, queue, acked, dead>>
-----------------------------------------------------------------------------
\* SQS hands a message to an invocation; a visibility timeout that runs out
\* hands it to another one while the first still works on it.
Receive(w) ==
  /\ work[w].pc = "idle"
  /\ \E m \in queue :
       /\ m.n < MaxReceive
       /\ queue' = (queue \ {m}) \cup {[m EXCEPT !.n = @ + 1]}
       /\ work' = [work EXCEPT ![w].pc = "find", ![w].note = m.note]
  /\ UNCHANGED <<tableVars, acked, dead>>

\* handleOne: the key is in the index for this document, nothing is written.
LambdaFindHit(w) ==
  /\ work[w].pc = "find"
  /\ work[w].note.doc \in FindByIdempotencyKey(NoteKey(work[w].note))
  /\ work' = [work EXCEPT ![w].pc = "ack"]
  /\ UNCHANGED <<tableVars, queue, acked, dead>>

\* No hit, a hit on another document (all documents share these keys), or an error.
LambdaFindMiss(w) ==
  /\ work[w].pc = "find"
  /\ LET found == FindByIdempotencyKey(NoteKey(work[w].note)) IN
       LambdaFaults \/ found = {} \/ found \ {work[w].note.doc} # {}
  /\ work' = [work EXCEPT ![w].pc = "get"]
  /\ UNCHANGED <<tableVars, queue, acked, dead>>

LambdaGet(w) ==
  /\ work[w].pc = "get"
  /\ LET d == work[w].note.doc IN
       work' = [work EXCEPT ![w] = IF Exists(d) THEN [@ EXCEPT !.pc = "put", !.base = Current(d)]
                                                ELSE [@ EXCEPT !.pc = "idle"]]
  /\ UNCHANGED <<tableVars, queue, acked, dead>>

\* Status, stage and key are set with no legalTransition check, nothing is fanned out.
LambdaPut(w) ==
  /\ work[w].pc = "put"
  /\ LET n == work[w].note
         b == work[w].base IN
       Put(n.doc, [log[n.doc][b] EXCEPT !.status = n.toState, !.stage = n.phase,
                                        !.key = NoteKey(n), !.by = "lambda", !.base = b])
  /\ work' = [work EXCEPT ![w].pc = "ack"]
  /\ UNCHANGED <<indexed, queue, acked, dead>>

\* The message is not among BatchItemFailures: it is deleted, unless it is gone.
LambdaAck(w) ==
  /\ work[w].pc = "ack"
  /\ LET mine == {m \in queue : m.note = work[w].note} IN
       queue' = queue \ mine /\ acked' = acked \cup {m.note : m \in mine}
  /\ work' = [work EXCEPT ![w].pc = "idle"]
  /\ UNCHANGED <<tableVars, dead>>

\* An error puts the message among BatchItemFailures, a timeout or a crash
\* says nothing about it: either way it stays on the queue.
LambdaFail(w) ==
  /\ LambdaFaults
  /\ work[w].pc # "idle"
  /\ work' = [work EXCEPT ![w].pc = "idle"]
  /\ UNCHANGED <<tableVars, queue, acked, dead>>

\* The redrive policy of the queue.
Redrive ==
  /\ \E m \in queue : /\ m.n = MaxReceive
                      /\ dead' = dead \cup {m.note}
                      /\ queue' = queue \ {m}
  /\ UNCHANGED <<tableVars, acked, work>>

WorkerStep(w) ==
  \/ Receive(w) \/ LambdaFindHit(w) \/ LambdaFindMiss(w) \/ LambdaGet(w)
  \/ LambdaPut(w) \/ LambdaAck(w) \/ LambdaFail(w)

LambdaNext == Redrive \/ \E w \in Workers : WorkerStep(w)
-----------------------------------------------------------------------------
LambdaTypeOK ==
  /\ queue \subseteq [note: Note, n: Nat]
  /\ acked \subseteq Note
  /\ dead \subseteq Note
  /\ work \in [Workers -> WorkState]

\* A message is deleted only after its document was in the state it announces:
\* a worker that skips the write because of the index skips no transition
\* (handleOne lines 55-58; all documents and executions share the keys).
AckedWasApplied ==
  \A n \in acked : \E i \in DOMAIN log[n.doc] :
    log[n.doc][i].status = n.toState /\ log[n.doc][i].stage = n.phase

\* application-design.md line 214: a repeated key makes no duplicate state
\* transition, so no two rows of a document are the lambda's work for the
\* same key (one execution per document).
NoDuplicateTransition ==
  \A d \in Docs : \A i, j \in DOMAIN log[d] :
    /\ log[d][i].by = "lambda" /\ log[d][j].by = "lambda"
    /\ log[d][i].key = log[d][j].key
    => i = j
=============================================================================
