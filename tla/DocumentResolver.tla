-------------------------- MODULE DocumentResolver --------------------------
(***************************************************************************)
(* units/document-resolver/internal/handler/handler.go: the gRPC handlers  *)
(* createDocument and updateStatus.  Each call is a goroutine of one of    *)
(* three replicas; between its calls to DynamoDB any other call may run.   *)
(***************************************************************************)
EXTENDS DocumentsTable, FiniteSets

CONSTANTS
  Calls,           \* the RPCs of a behaviour, each served once
  CreateRequests,  \* the CreateDocument requests clients send
  UpdateRequests,  \* the UpdateDocumentStatus requests clients send
  Concurrency,     \* bound: RPCs served at the same time
  Faults,          \* whether a call may be cut short, or a store call fail
  NoRequest

VARIABLES
  call,            \* [Calls -> CallState]
  replies,         \* the successful responses that reached a client
  announced        \* [Docs -> Seq(Nat)]: row numbers fanned out to subscribers

resolverVars == <<call, replies, announced>>

\* toStatus is a string off the wire: it need not be a status the code knows.
CreateRequestType == [op: {"create"}, key: CreateKeys, batch: Batches]
UpdateRequestType == [op: {"update"}, doc: Docs, to: Status \cup {"WAT"},
                      stage: Stages, key: UpdateKeys]

ASSUME ResolverAssumption ==
  /\ CreateRequests \subseteq CreateRequestType
  /\ UpdateRequests \subseteq UpdateRequestType
  /\ Concurrency \in Nat \ {0}
  /\ Faults \in BOOLEAN

CallState == [ pc: {"idle", "find", "get", "put", "finish", "done"},
               req: CreateRequests \cup UpdateRequests \cup {NoRequest},
               doc: Docs \cup {NoDoc},
               base: Nat ]

Reply == [ req: CreateRequests \cup UpdateRequests, doc: Docs, url: BOOLEAN ]

Active == {c \in Calls : call[c].pc \notin {"idle", "done"}}

At(c, op, pc) == call[c].pc = pc /\ call[c].req.op = op

Goto(c, pc) == call' = [call EXCEPT ![c].pc = pc]

\* The response reaches the client; only a fresh document has an upload URL.
Answer(c, d, url) ==
  /\ replies' = replies \cup {[req |-> call[c].req, doc |-> d, url |-> url]}
  /\ Goto(c, "done")

ResolverInit ==
  /\ call = [c \in Calls |-> [pc |-> "idle", req |-> NoRequest, doc |-> NoDoc, base |-> 0]]
  /\ replies = {}
  /\ announced = [d \in Docs |-> <<>>]
-----------------------------------------------------------------------------
\* Mutants: createDocument loses the id it made; updateStatus returns the
\* row instead of its error, does not call legalTransition, fans out the row
\* it read.
CreatePut_LosesId(c) ==
  /\ At(c, "create", "put")
  /\ \E d \in Docs :
       /\ ~Exists(d)
       /\ Put(d, [ batch |-> call[c].req.batch, status |-> "UPLOADED", stage |-> "",
                   key |-> call[c].req.key, malware |-> FALSE,
                   by |-> "resolver", base |-> 0 ])
  /\ Goto(c, "finish")
  /\ UNCHANGED <<indexed, replies, announced>>

UpdateReject_Accepts(c) ==
  /\ At(c, "update", "get")
  /\ LET d == call[c].req.doc IN
       /\ Exists(d) => ~legalTransition(log[d][Current(d)].status, call[c].req.to)
       /\ Answer(c, d, FALSE)
  /\ UNCHANGED <<tableVars, announced>>

UpdateGet_Unguarded(c) ==
  /\ At(c, "update", "get")
  /\ LET d == call[c].req.doc IN
       /\ Exists(d)
       /\ call' = [call EXCEPT ![c].pc = "put", ![c].doc = d, ![c].base = Current(d)]
  /\ UNCHANGED <<tableVars, replies, announced>>

UpdatePut_KeepsOld(c) ==
  /\ At(c, "update", "put")
  /\ LET d == call[c].doc
         b == call[c].base IN
       Put(d, [log[d][b] EXCEPT !.status = call[c].req.to, !.stage = call[c].req.stage,
                                !.key = call[c].req.key, !.by = "resolver", !.base = b])
  /\ Goto(c, "finish")
  /\ UNCHANGED <<indexed, replies, announced>>
-----------------------------------------------------------------------------
\* CreateDocument or UpdateDocumentStatus passes its argument checks.
Begin(c) ==
  /\ call[c].pc = "idle"
  /\ Cardinality(Active) < Concurrency
  /\ \E r \in CreateRequests \cup UpdateRequests :
       call' = [call EXCEPT ![c].pc = "find", ![c].req = r]
  /\ UNCHANGED <<tableVars, replies, announced>>

\* createDocument: the key is in the index, the existing row is returned with
\* no presigned URL.
CreateFindHit(c) ==
  /\ At(c, "create", "find")
  /\ \E d \in FindByIdempotencyKey(call[c].req.key) : Answer(c, d, FALSE)
  /\ UNCHANGED <<tableVars, announced>>

\* The lookup finds nothing; an error of the lookup counts as nothing found.
CreateFindMiss(c) ==
  /\ At(c, "create", "find")
  /\ FindByIdempotencyKey(call[c].req.key) = {} \/ Faults
  /\ Goto(c, "put")
  /\ UNCHANGED <<tableVars, replies, announced>>

CreatePut(c) ==
  /\ At(c, "create", "put")
  /\ \E d \in Docs :
       /\ ~Exists(d)
       /\ Put(d, [ batch |-> call[c].req.batch, status |-> "UPLOADED", stage |-> "",
                   key |-> call[c].req.key, malware |-> FALSE,
                   by |-> "resolver", base |-> 0 ])
       /\ call' = [call EXCEPT ![c].pc = "finish", ![c].doc = d]
  /\ UNCHANGED <<indexed, replies, announced>>

CreateReturn(c) ==
  /\ At(c, "create", "finish")
  /\ Answer(c, call[c].doc, TRUE)
  /\ UNCHANGED <<tableVars, announced>>
-----------------------------------------------------------------------------
\* updateStatus: only a hit on the same document in the requested status is a
\* replay.
UpdateFindHit(c) ==
  /\ At(c, "update", "find")
  /\ LET d == call[c].req.doc IN
       /\ d \in FindByIdempotencyKey(call[c].req.key)
       /\ log[d][indexed[d]].status = call[c].req.to
       /\ Answer(c, d, FALSE)
  /\ UNCHANGED <<tableVars, announced>>

UpdateFindMiss(c) ==
  /\ At(c, "update", "find")
  /\ \/ Faults
     \/ FindByIdempotencyKey(call[c].req.key) = {}
     \/ \E d \in FindByIdempotencyKey(call[c].req.key) :
          d # call[c].req.doc \/ log[d][indexed[d]].status # call[c].req.to
  /\ Goto(c, "get")
  /\ UNCHANGED <<tableVars, replies, announced>>

UpdateGet(c) ==
  /\ At(c, "update", "get")
  /\ LET d == call[c].req.doc IN
       /\ Exists(d)
       /\ legalTransition(log[d][Current(d)].status, call[c].req.to)
       /\ call' = [call EXCEPT ![c].pc = "put", ![c].doc = d, ![c].base = Current(d)]
  /\ UNCHANGED <<tableVars, replies, announced>>

\* ErrNotFound, or ErrIllegalTransition as FailedPrecondition.
UpdateReject(c) ==
  /\ At(c, "update", "get")
  /\ LET d == call[c].req.doc IN
       Exists(d) => ~legalTransition(log[d][Current(d)].status, call[c].req.to)
  /\ Goto(c, "done")
  /\ UNCHANGED <<tableVars, replies, announced>>

UpdatePut(c) ==
  /\ At(c, "update", "put")
  /\ LET d == call[c].doc
         b == call[c].base IN
       Put(d, [log[d][b] EXCEPT !.status = call[c].req.to, !.stage = call[c].req.stage,
                                !.key = call[c].req.key, !.by = "resolver", !.base = b])
  /\ call' = [call EXCEPT ![c].pc = "finish", ![c].base = Current(call[c].doc) + 1]
  /\ UNCHANGED <<indexed, replies, announced>>

\* fanout of the row just put, then the response.
UpdateReturn(c) ==
  /\ At(c, "update", "finish")
  /\ announced' = [announced EXCEPT ![call[c].doc] = Append(@, call[c].base)]
  /\ Answer(c, call[c].doc, FALSE)
  /\ UNCHANGED tableVars

\* The replica dies, the caller goes away, or a call to S3 or DynamoDB fails:
\* what was put stays put, the client gets no answer.
Abandon(c) ==
  /\ Faults
  /\ c \in Active
  /\ Goto(c, "done")
  /\ UNCHANGED <<tableVars, replies, announced>>

ResolverStep(c) ==
  \/ Begin(c)
  \/ CreateFindHit(c) \/ CreateFindMiss(c) \/ CreatePut(c) \/ CreateReturn(c)
  \/ UpdateFindHit(c) \/ UpdateFindMiss(c) \/ UpdateGet(c) \/ UpdateReject(c)
  \/ UpdatePut(c) \/ UpdateReturn(c)
  \/ Abandon(c)
-----------------------------------------------------------------------------
\* The resolver and its table, with no other writer.
ResolverStart == TableInit /\ ResolverInit

ResolverNext ==
  \/ \E c \in Calls : ResolverStep(c)
  \/ \E d \in Docs : Replicate(d) /\ UNCHANGED resolverVars

ResolverSpec == ResolverStart /\ [][ResolverNext]_<<tableVars, resolverVars>>

ResolverTypeOK ==
  /\ call \in [Calls -> CallState]
  /\ replies \subseteq Reply
  /\ announced \in [Docs -> Seq(Nat)]

\* A client told "created" holds a document that a call with its key created,
\* and one told "updated" a document that was in the requested status under
\* its key, although a replay is recognised from an index that lags behind the
\* table (createDocument, updateStatus).
RepliesAreTrue ==
  \A r \in replies :
    IF r.req.op = "create"
      THEN Exists(r.doc) /\ log[r.doc][1].key = r.req.key
      ELSE /\ r.doc = r.req.doc
           /\ \E i \in DOMAIN log[r.doc] : /\ log[r.doc][i].key = r.req.key
                                           /\ log[r.doc][i].status = r.req.to

\* document.go lines 3-4: the index enforces de-duplication, so a key names
\* one document.
OneDocumentPerKey ==
  \A d, e \in Docs :
    Exists(d) /\ Exists(e) /\ log[d][1].key = log[e][1].key => d = e

\* Unless a replica dies, every row updateStatus puts is fanned out, once and
\* under its own number, whatever the other writers put in between: the row is
\* on the channels or its call has not returned from Put yet (updateStatus,
\* fanout).
UpdatesAnnounced ==
  ~Faults => \A d \in Docs : \A i \in 2..Len(log[d]) :
    log[d][i].by = "resolver" =>
      \/ Cardinality({j \in DOMAIN announced[d] : announced[d][j] = i}) = 1
      \/ \E c \in Calls : At(c, "update", "finish") /\ call[c].doc = d /\ call[c].base = i
-----------------------------------------------------------------------------
\* One call at a time, a document's status is the abstract machine its tests
\* describe (handler_test.go lines 9-12 and 46-66), abandoned calls, a lagging
\* index and replayed keys included: the guard of updateStatus is enough.
Machine == INSTANCE StatusMachine WITH
  status <- [d \in Docs |-> IF Exists(d) THEN log[d][Current(d)].status ELSE "none"]
SerialMachine == Machine!Spec
=============================================================================
