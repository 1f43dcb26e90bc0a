--------------------------- MODULE DocumentsTable ---------------------------
(***************************************************************************)
(* The DynamoDB table docuploader-api-documents and its idempotency-index, *)
(* through the three operations of libs/data-access/go/documents.  Three   *)
(* programs write the table with whole-row PutItem calls that carry no     *)
(* condition: each reads a row, changes some fields and puts it back.      *)
(*                                                                         *)
(* The table keeps one row per document.  Here it keeps every row ever     *)
(* put: log[d] is the sequence of them, the last one is the row a          *)
(* consistent Get returns, and a writer that holds a row it read holds     *)
(* that row's number.  The index is a prefix of the same sequence:         *)
(* DynamoDB copies each write to it later, in order.                       *)
(***************************************************************************)
EXTENDS StatusTransitions, Sequences

CONSTANTS
  Docs,         \* document ids (uuid.NewString)
  Batches,      \* batch ids, standing for the (tenant, workspace, batch) a row carries
  CreateKeys,   \* idempotency keys of createDocument, chosen by the caller
  UpdateKeys,   \* idempotency keys of updateDocumentStatus, chosen by the caller
  Stages,       \* values of pipelineStage
  NoDoc

VARIABLES
  log,          \* [Docs -> Seq(Version)]: the rows put, oldest first
  indexed       \* [Docs -> Nat]: how many of them the index has caught up with

tableVars == <<log, indexed>>

Writers == {"resolver", "lambda", "handler"}

\* idempotency.DeriveUpdateStatusKey hashes its length-prefixed arguments, so
\* two keys are equal only if the three arguments are.
DeriveUpdateStatusKey(executionId, toState, phase) == <<executionId, toState, phase>>

\* The pipeline's messages have no executionId: the lambda hashes "" instead.
StateKeys == {DeriveUpdateStatusKey("", s, p) : s \in Status, p \in Stages}
Keys == CreateKeys \cup UpdateKeys \cup StateKeys

\* CreateKeys are uuids, UpdateKeys hash an execution id that is not empty.
ASSUME KeysAssumption ==
  /\ CreateKeys \cap UpdateKeys = {}
  /\ CreateKeys \cap StateKeys = {}
  /\ UpdateKeys \cap StateKeys = {}

ASSUME DocsAssumption == NoDoc \notin Docs

ASSUME StagesAssumption == "" \in Stages

(***************************************************************************)
(* A row, and two auxiliary fields the program does not have: `by`, the    *)
(* program that put it, and `base`, the number of the row it had read (0   *)
(* for a row createDocument made).  No guard reads them.                   *)
(***************************************************************************)
Version == [ batch: Batches, status: Status, stage: Stages, key: Keys,
             malware: BOOLEAN, by: Writers, base: Nat ]

Exists(d)      == log[d] # <<>>
Current(d)     == Len(log[d])            \* the row number a consistent Get returns
IndexHas(d, k) == indexed[d] > 0 /\ log[d][indexed[d]].key = k

\* FindByIdempotencyKey(k) returns one of these (Limit 1), or ErrNotFound.
FindByIdempotencyKey(k) == {d \in Docs : IndexHas(d, k)}

Put(d, row) == log' = [log EXCEPT ![d] = Append(@, row)]

TableInit ==
  /\ log = [d \in Docs |-> <<>>]
  /\ indexed = [d \in Docs |-> 0]

\* The global secondary index takes over the next write of a document.
Replicate(d) ==
  /\ indexed[d] < Current(d)
  /\ indexed' = [indexed EXCEPT ![d] = @ + 1]
  /\ UNCHANGED log

TableTypeOK ==
  /\ log \in [Docs -> Seq(Version)]
  /\ indexed \in [Docs -> Nat]
  /\ \A d \in Docs : indexed[d] <= Len(log[d])
-----------------------------------------------------------------------------
Legal(v, w) == legalTransition(v.status, w.status)

\* The batch a document was created in is the batch every later row carries,
\* whichever of the three programs rewrote the whole row and however stale the
\* row it started from (document.go Put, lines 92-102).
RowsKeepTheirBatch ==
  \A d \in Docs : \A i \in DOMAIN log[d] : log[d][i].batch = log[d][1].batch

\* A status moves backward, or leaves COMPLETED or FAILED, only where the row
\* was put by a program without the legalTransition guard or by a call that
\* had read an older row than the one it replaced (handler.go updateStatus).
RegressionNeedsStaleReadOrUnguardedWriter ==
  \A d \in Docs : \A i \in 1..Len(log[d]) - 1 :
    \/ Legal(log[d][i], log[d][i+1])
    \/ log[d][i+1].by # "resolver"
    \/ log[d][i+1].base < i

\* MALWARE_DETECTED, once on a row, disappears only with a row put back by a
\* program that had read the document before the flag was set.
MalwareFlagLostOnlyToStaleRead ==
  \A d \in Docs : \A i \in 1..Len(log[d]) - 1 :
    log[d][i].malware => log[d][i+1].malware \/ log[d][i+1].base < i

\* What the tests and the comments of document-resolver promise of a
\* document's status: it never goes back (handler_test.go lines 9-12).
ForwardOnly ==
  \A d \in Docs : \A i \in 1..Len(log[d]) - 1 : Legal(log[d][i], log[d][i+1])
=============================================================================
