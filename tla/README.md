# A verification of the document uploader

These modules model the document uploader in `src/document-uploader-master`: the programs
that take documents in, record what becomes of them in one DynamoDB table, and tell clients
about it; the parts of it that run in the browser; and the scaffold of commands with which
the repository's own development workflow is driven (`.ai-dlc-bootstrap/scaffold/lib`), most of
the JavaScript there is. TLC checks the models on small instances, TLAPS proves the most important
invariants for every instance. `PROJECT.json` holds the index: which definition models which
lines, which run checks which property, which mutated definition each property rejects.

Paths below are relative to `src/document-uploader-master`.

## 1. The system

```
 browser --GraphQL--> wundergraph-router --gRPC--> document-resolver x3 --+
    |                                              batch-, workspace-     |
    | PUT (pre-signed URL)                         resolver               v
    v                                                          documents table + idempotency-index
 S3 staging --> GuardDuty --> EventBridge --> document-event-handler ----^  ^
                                                    | StartExecution        |
                                                    v                       |
                                  Step Functions execution --> state-change queue --> update-document-state
                                                    |
                                                    v
                                  worker queues --> 12 worker services --> pipeline bucket
```

| part | state it keeps | operations | what is hard about it | what makes it correct |
|---|---|---|---|---|
| documents table (`libs/data-access/go/documents`) | a row per document; an eventually consistent index on the idempotency key | `Get`, `Put` (whole row, no condition), `FindByIdempotencyKey` | three writers, each a read-modify-put; the index lags | a row never mixes documents; status, malware flag and batch survive the writers |
| document-resolver, calls | none between calls (three replicas) | `createDocument`, `updateStatus`, `getDocument` | overlapping and repeated calls, calls cut short | forward-only status; one document per create key; the answer is true |
| document-resolver, streams | a list of channels per document and replica | `subscribe`, `cancel`, `fanout`, `SubscribeStatusChanged` | streams end while rows are fanned out; full channels | a row reaches every live local stream; no leak; no panic |
| update-document-state-lambda | its SQS queue and dead-letter queue | `handleOne` per message | at-least-once delivery, no order, failures between steps | no message acknowledged unapplied; no transition twice; each message settles |
| document-event-handler-lambda | none | `handleGuardDuty`, `handleS3Put` (ignored) | events delivered again; a put over a stale row | a threat is recorded and stays; one execution per document |
| pipeline state machine (ASL) | an execution's JSON input and position | 9 announcing and 12 dispatching states, two `Catch` kinds | errors replace the input; nothing waits for the workers | every failure is announced; `COMPLETED` means there is an output |
| worker services (12) | their queues; objects in the pipeline bucket | receive, handle, delete | crash between effect and delete; fan-out of archives and mail | no document dropped; retries converge |
| monitor-aggregator-service | latest snapshot, set of client channels | `tick`, `probe`, `fanOut`, `Subscribe`, `Unsubscribe`, `/api/stream` | concurrent probes; clients that leave or do not read | snapshots are whole; streams go forward; no client stops the poller |
| batch-resolver, workspace-resolver | batches and workspaces tables, KMS aliases | create, close, update | read-modify-put; partial failure before the row | no lost update; retries are idempotent |
| audit path (router hook, audit-event-storage-lambda) | hot table, cold bucket | emit, handle | one sink of two fails, redelivery | every event in both sinks |
| react-web-module, operations view and notifications | the store's list, its copy in local storage, the state each service had in the poll before | `tick`, `pushNotification`, `dismiss`, `clearAll`, `markRead`, load, leave the view | duplicates, age and limit against what was seen; other tabs | an outage seen is listed until the user takes it away |
| react-web-module, upload view | the cards, a pipeline per file | drop files, `runPipeline`, clear | pipelines run on while the list is cleared or left | a card shows one run, coherently |
| pre-token-generation-lambda | none | `Validate` | none: a pure check | the tenant claim is the workspace's |
| scaffold: escalation and release | marker files on unit branches, the log of main, the question file, stale hints | write, fix, finalize, sync, preflight, release, archive | every command may be cut off and run again; calls of git fail; two branches; hints written after commits | an open escalation is lost or released over, a release empty or stale, in the ways section 4 names and no other |
| scaffold: full restart | artifacts and their backups, rows of `aidlc-state.md`, the audit block | archive stage by stage, reset, record, dispatch | cut off half-way, repeated on another day | half a restart is not taken for a whole one |
| scaffold: commands and `resume` | branches, envelopes, state files, question files | nine preflights and what the commands leave; `resume` | preflights and `resume` read different files | `resume` advises what is accepted, but where the two read different state; a description is found again, or none is |
| scaffold: audit review | audit files of all branches, review logs, staging directories | collect, write, finalize | overlapping reviews; entries that land after they were written; files that cannot be read | the windows leave no gap |
| scaffold: progress | dependency documents, the units' state files | waves, classification, dashboard | cycles, missing and unreadable files, tables computed twice | earliest waves, cycles named, tables agree |

The scaffold shares nothing with the running system; its commands interact through the files and
branches of one git repository only, with an engineer and agents at work between two of them.

How the services interact: clients call the resolver over gRPC through the router; the resolver, the
state lambda and the event handler share the documents table and nothing else (no lock, no
condition, no transaction); executions talk to the state lambda and to the workers by SQS
messages; the workers talk to each other by SQS messages and S3 objects; streams are pushed
from the memory of the replica that served an update.

Every place where this can go wrong and a test would hardly see it is listed in
`PROJECT.json` under `hazards`, with the properties that watch it or the reason there is none.

## 2. The modules

| module | models | how its state and actions correspond to the code |
|---|---|---|
| `StatusTransitions` | the six statuses and `legalTransition` | pure operators; an unknown status is any value outside `DOMAIN order` |
| `DocumentsTable` | the table and its index | `log[d]` keeps every row ever put, the last is the row a consistent `Get` returns; `indexed[d]` says how far the index has come. `by` and `base` on a row are auxiliary: who put it, and which row it had read |
| `StatusMachine` | what document-resolver promises | the status walk of `handler_test.go`: forward with skips, `FAILED` from any state that is not terminal |
| `AtLeastOnce` | what a queue of `sqs.tf` and the program that reads it promise together | messages with their receive counts; received again until deleted, `Limit` times at most; deleted by a receiver once the work is done (`worked`), dead-lettered when the receives are used up. `Pipeline!Mail`, `AuditTrail!Letters` and `DocumentLifecycle!NotesQueue` say what that is in each of the three systems of queues |
| `DocumentResolver` | `createDocument`, `updateStatus` | a call is a goroutine with a program counter, one action per call to DynamoDB and its outcome; `replies` is what clients were told, `announced` what `fanout` was given |
| `StatusSubscriptions` | `SubscribeStatusChanged`, `subscribe`, `cancel`, `fanout` | `listed[r]` is `h.subs[documentID]` of replica `r`; a fanout copies the list in one step (under `subsMu`) and sends one channel per step (outside it) |
| `UpdateStateLambda` | `handleOne` and its queue | one action per store call; the queue counts receives, redrives at `MaxReceive`, and may hand a message to a second invocation while the first works on it |
| `DocumentEventHandler` | `handleGuardDuty`, the scan that precedes it | findings with a delivery count; a clean finding starts an execution with a fresh name, a threat is a `Get` and a `Put` |
| `DocumentLifecycle` | the composition of the three writers | adds the uploading client and the notifications of an execution; `Next` interleaves the steps of all of them |
| `MonitorPoller` | the poller and `/api/stream` | `poller.pc` is where the goroutine of `Run` is; `subs` is the map `subsMu` guards, held from `FanOutLock` to `FanOutDone` |
| `PipelineExecution` | an execution of the ASL | `exec[x].at` is the state it is in, `has` the members its JSON input still has (a `Catch` without `ResultPath` leaves `Error` only), `sent` what it has sent; `Announces`, `Dispatches`, `Follows`, `RouteChoice`, `DispatchConvert` and `CatchTarget` are the file's states |
| `WorkerServices` | the twelve services | one loop for all of them: `Receive`, `Convert` (read and write the object), `PassOn` (send), `Delete`; `Needs`, `Opens`, `Written` and `HandedOn` say, service by service, which message and object it can handle, what it writes and sends. Mails and archives go through `Unpack`, `ReadEntry`, `StoreChild`, `SendChild`, `Unpacked`; `Throw`, `Crash` and `Expire` are what can go wrong |
| `Pipeline` | executions composed with the services | `ExecutionProceeds` puts what an execution sends on the service's queue |
| `MonitorDashboard` | the operations view, `pollAllServices`, `notifications/store.ts` | one tab: `items` is the store's list and `stored` what local storage holds, which another tab overwrites; `last` is `lastStateRef`; a poll and its pushes are one action, as nothing is read before the `await` and used after it |
| `UploadView` | `UploadView.tsx` | `runs[d]` is where the coroutine of `runPipeline` sleeps, `docs[d]` the card `setDocs` keeps; clearing the list and leaving the view take the cards and not the coroutines |
| `AuditTrail` | the router's `Emit`, the audit queue, `handleOne` of audit-event-storage-lambda | `letters` is the queue, `hot` the table by event id, `archive` the bucket, whose object keys hold the day; `drain[w]` is an invocation, one action per put, and `Midnight` may fall between any two |
| `WorkspaceSettings` | `CreateWorkspace`, `UpdateWorkspace` | `wrows[w]` keeps every row put, with who put it and which row it had read, `aliases` the KMS aliases; `wcall[c]` is an RPC between its calls; a setting is one value (an empty list of forced extensions is the default one) |
| `Escalation` | markers, `escalateFix`, its finalization, sync, release | `work[u]` and `tree[u]` are the marker committed on a unit's branch and the one in the working tree, `log` the commits of main; `cmd` is the command that runs and the step it has come to, so `CutOff` may end it between any two of its effects. A call of git that fails is an argument of the action that makes it (`probed`, `answered`, `back`). `asked` is what a unit wrote last and is changed by `WriteEscalationMarker` alone; `lapses` records a marker, a hint or an answer of git that was lost |
| `FullRestart` | `runFullRestartMode` | `restart.pc` is the step it has come to; one `ArchiveNext` renames one artifact; `block` is the youngest archive block of `audit.md`, `recent` for `detectContinuationState` until a day passes |
| `UnitWorkflow` | the preflights and effects of the nine commands, `resume` | `unit[u]` holds what the branch has (its documents, its two state files, its question files); each preflight is an operator that reads them, `Accepts` their common use; `marker` is the escalation marker of the working tree and `filed` that of the last commit, `merge` says whether main merges, clashes or has stopped half-way; a description is written after its file (`Persisted`, `through`); `resumeFromUnitBranch` and `resumeFromMain` are the two reports |
| `AuditReview` | `auditReviewCollect`, `auditReviewFinalize` | an entry has the moment in its heading and the one it landed at; a review has its moment, where its window began, what it bundled and what it could not read (`Unreadable`: main's file as a whole, a unit's entries apart from one another, as every unit has a file of its own); the agent writes a log for any review, or an empty one, or none |
| `Progress` | `progress.js` | dependencies as the documents have them (table or prose); `computeBatches` is a recursive function over rounds, `derivePhaseStatus` and `aggregateCounts` the two computations behind the dashboard |
| `Inductions` | | what the proofs know of numbers, finite sets, functions that go step by step and sums |
| `DocumentLifecycleProofs`, `StreamsProofs`, `BrowserProofs`, `PipelineProofs`, `StoresProofs`, `EscalateFixProofs`, `ScaffoldProofs` | | the theorems of section 5 |
| `MCDocumentResolver`, `MCDocumentLifecycle`, `MCStreams`, `MCPipeline`, `MCScaffold` | | the instances TLC checks |

A service's data is abstracted to what the properties tell apart: uuids and keys are model
values, a digest is the tuple it hashes (it is length-prefixed, so equal digests mean equal
tuples), a probe result is the number of the poll that found it, an object is its document and
the kind of file it is, a message is its queue, its object and the set of members it has.

## 3. The runs

| run | module and cfg | what it checks | bounds, and why they are enough |
|---|---|---|---|
| `resolver_serial` | `MCDocumentResolver`, `ResolverSerial` | `DocumentResolver` implements `StatusMachine` (`SerialMachine`: the status of a document is that of its current row) | four calls one at a time, any of them cut short, two documents, index lag: three updates after a create reach every pair of statuses |
| `lifecycle` | `MCDocumentLifecycle`, `Lifecycle` | type correctness; rows keep their batch; regressions and lost malware flags have a named cause; replies are true; updates are announced | three calls, two at a time, two uploads, one message, each lambda may fail: one reader of every kind can hold a stale row while another writes |
| `messages` | `MCDocumentLifecycle`, `Messages` | `AckedWasApplied`, `NotesSettle` | two documents whose messages have equal keys, two invocations, two receives: enough for a redelivery, an overlap and a redrive |
| `streams` | `MCStreams`, `Streams` | the properties of the subscriptions and of the poller; `OutagesAreListed`; `CardsAreCoherent`; `ArchivedOnce`; `SettingsAreUndoneOnlyByOverlap` | two replicas, two streams and two updates with one-place channels (a second row is dropped); two clients, two services, three polls with two-place channels; a tab that watches two services, through duplicates, an ageing, and a limit of as many notifications as there are services, the tightest that `DashboardAssumption` allows; two files of every type; two audit events handled by two invocations, twice each, over a midnight; a workspace with three calls (one creates it, the other two overlap). The six share nothing, so `server` says which of them a behaviour is about |
| `pipeline` | `MCPipeline`, `Pipeline` | `DispatchesNameTheirDocument`, `RoutesAgree`, `MailSettles`; the worker queues and services implement `AtLeastOnce` (`MailIsDelivered`) | one document, of every kind and route and once with the input the upload handler really sends; one message handled at a time; one fault; two receives; one entry per mail or archive. Faults are independent of each other in the code, and one of them at every point is what the properties react to |
| `overlap` | `MCPipeline`, `PipelineOverlap` | `AckedWasHandedOn`, `MessagesNameObjects`, `DuplicatesNeedRedelivery` | two messages handled at a time: with `Expire` the same message by both; a mail, an archive, and a document that is neither |
| `scaffold` | `MCScaffold`, `Scaffold` | the fourteen properties of the five scaffold modules | see below |
| `resolver_race` | `MCDocumentResolver`, `ResolverRace` | expected violation of `ForwardOnly` | two overlapping updates |
| `resolver_index_lag` | `MCDocumentResolver`, `ResolverIndexLag` | expected violation of `OneDocumentPerKey` | one call at a time, no failure |
| `redelivery` | `MCDocumentLifecycle`, `Redelivery` | expected violation of `NoDuplicateTransition` | one execution, two receives, no failure |
| `subscription_panic` | `MCStreams`, `StreamsPanic` | expected violation of `ReplicasSurviveSubscribers` | one stream, one replica |
| `failure_announced` | `MCPipeline`, `FailureAnnounced` | expected violation of `FailureIsAnnounced` | no fault at all |

A behaviour of `MCScaffold` is about one of the five scaffold modules, which share nothing; `tool`
says which.

- Escalation: one unit, one description, three commits on main. A unit escalates as often as it
  likes, and a second escalation is what overwrites, sweeps or answers the first; markers are told
  apart by the commit of main they follow. A fix, a release and one more of either follow one
  another. A unit meets another only through main's log, where a commit names its unit, and the
  question file, which may be of an earlier cycle with one unit too.
- Full restart: four inception stages.
- Commands and `resume`: one unit, and for the report from main one neighbour in any state. Two
  kinds of behaviours, as the state of each is large and apart from the other's: in one about
  advice (`Advised`) markers are edited, merges clash or stop and syncs ask, while one description
  is asked for and written; in one about requests (`Requested`) there are two descriptions and every
  write may throw or be cut off, while markers stay whole and merges are clean.
- Audit review: one entry over three moments.
- Progress: three units with every dependency relation, which makes the cycles of two and three,
  and a unit behind one.

Deadlock is not checked: calls, uploads, polls and messages are bounded, and a behaviour that
has used them up stops.

**Bounds named in the modules.** `Concurrency` (calls served at once), `MaxUploads`,
`MaxDeliveries` (of one finding), `MaxReceive` (10 in `sqs.tf`), `MaxTicks`, `Room` (16 in
`subscribe`), `Capacity` (4 in `Subscribe`), `Pods` (messages handled at once), `Entries`,
`MaxFaults`, `MaxCommits` (on main), `Stages`, `MaxItems` (entries of the audit files), `MaxClock`
(moments; 24 hours and 30 seconds are a few of them), `Advised` and `Requested` (what a
behaviour of the workflow is about), `MAX_KEPT` (50 in `store.ts`), `Size` (units
of the workflow), and the sets of calls, streams, updates, units, requests and documents.
`CallSymmetry` in `lifecycle` permutes the calls, which differ in nothing but their names and
occur in no other constant; the run has no temporal property. `Symmetry` in `overlap` does the
same for the pods, and that of `MCScaffold` for descriptions, which `UnitWorkflow` compares for
equality only; neither run has a liveness property.

**Start states.** Every run but `messages` starts from the empty system. `messages` starts
with two documents that were created, indexed, uploaded and found clean; the state is written
out in `MCDocumentLifecycle!Started` and is one the other actions lead to. The pipeline's runs start when `StartExecution` has been called
for an object in the staging bucket. `Deployed` is the input of
`document-event-handler-lambda` (`documentId` and the object's key); `Routed` adds the `route` the
ASL reads and the `workspaceId` the classification service reads, which no program of the
repository supplies (section 4).

**Fairness.** `NotesSettle` assumes weak fairness of each invocation's steps and of the
redrive: Lambda polls the queue, an invocation ends by an answer or by its timeout, SQS applies
its redrive policy. A failure is one of an invocation's steps, so fairness never forces a
success. `TickCompletes` assumes weak fairness of the poller's goroutine only: its ticker fires
and each probe has a timeout. `MailSettles` assumes weak fairness of each execution, of each
service's loop (which goes on after an error, and whose pod Kubernetes restarts) and of the
redrive; faults are never forced. Nothing is assumed of clients, callers or events.

## 4. What the runs show

*Holds.* With one call at a time the guard of `updateStatus` gives exactly the machine the
tests describe. With all writers at work a document's batch is never mixed up; a status goes
backward only where a resolver call had read an older row than it replaced, or where one of the
two lambdas (which do not call `legalTransition`) wrote; the malware flag is lost only to a
program that had read the row before the flag was there. A client that is told "created" or
"updated" is told the truth, even by a replay answered from the index, and every row the
resolver puts is fanned out once. No state-change message is acknowledged without its
transition having been applied, although all documents share the lambda's keys, and every
message ends acknowledged or dead. A live stream misses a row of its own replica only by being
slow, cancelled streams leave nothing behind, and the monitor never sends on a closed channel,
never mixes two polls, and is never held up by a client. An audit event whose message was deleted
is in both stores, and in the bucket, where nothing can be deleted, once: the emitter stamps it, so
a retry after midnight puts the same object. A setting of a workspace that a call changed is undone
only by a call that had read the workspace before.
On the way through the pipeline no
service deletes a message before it has handed its document on, whatever fails and however
deliveries overlap (archives excepted, see below), and none comes back from the deleted or the dead
ones; no message names an object that is not
there; an entry of a mail or archive becomes a second document only by a second delivery; the
state machine and the classification service agree on the queue of every route; the error a
`Catch` leaves behind is never sent to a service; and every message ends deleted or in a
dead-letter queue.

In the browser, a change of a service to `DOWN` or `DEGRADED` that a poll saw is listed until the
user or the limit takes it away, duplicates notwithstanding; a card never mixes two runs and is
never brought back.
In the scaffold half a restart is not dispatched over, while one stage only was restarted; main's
report names a most pressing unit; no review is finalized without a log; waves are earliest, cycles
named, the dashboard's two computations agree and a blocked phase names a blocker that is not
itself blocked. Other things hold in the scaffold with exceptions. Each property names its own, so
that a run shows there is no further one:

- The request a unit escalated last keeps its marker until a fix answers it, and its unit is not
  released meanwhile, unless a further escalation is cut off between deleting the pending markers
  and writing its own (`preflight-change-request.js:229-230`), or the hard reset a failed sync
  advises takes a marker that was not committed (`preflight-unit-sync.js:113-121`). Neither a sync,
  with whatever `git log` answers, nor a checkout, nor a release rolled back loses one.
- A release brings work that main lacks, unless git did not answer the diff: `unitRelease`
  stops only when the diff succeeds and is empty, so one that fails or runs into its time limit leads
  on, and the audit block makes the commit succeed (`unit-release.js:109`; the comment at 107 says
  "if diff against main is empty, unit has no contributions → ALREADY_RELEASED").
- A unit fixed in place is not released on older construction, unless its hint was not written or
  question files were committed since. A hint that cannot be written is passed over, and the fix ends
  in `RESOLVED_OK` (`escalate-fix.js:799-811`); any commit below `construction/` outdates a hint, and
  the question files of change requests, redesigns and syncs lie there
  (`preflight-unit-release.js:115`, `paths.js:52`), while the comment at `escalate-fix.js:797-798` says the
  release is refused until design and construction "have been re-run since this timestamp".
- A block of an audit file is in the bundle of a review with a log, unless it was committed after a
  younger review, the agent left the log empty, or the file could not be read. A collect
  that cannot read main's audit file or a unit's passes over it and ends in `COLLECT_OK`, and the next
  window begins at this review (`audit-review.js:304-339`; its comment at 2 says "read all units'
  aidlc-docs/audit.md").
- What `resume` advises on a unit's branch is accepted, unless the two read different state: a
  redesign left unanswered past the end of construction; a marker that is corrupt or is not the one
  committed, where `/aidlc-escalate-fix` reads the commit and `resume` the working tree, and a merge
  that has stopped, from which git does not let the engineer go to main; and for `/aidlc-unit-sync`
  a merge that has stopped or a main that clashes.
- A change request or redesign repeated without a description acts on the last one accepted, or
  finds none; it never takes another's. A new question file is written before its description, and
  the second write throws for text with a line end or a control character, or is never reached; the
  newest file then has none and hides the one before (`preflight-change-request.js:148-160`,
  `preflight-unit-redesign.js:225-234`; `persisted-arg.js:4` says "Phase B with empty $ARGUMENTS recovers
  the persisted value").

*Does not hold* (`findings` in `PROJECT.json`):

1. `ForwardOnly`: two overlapping `updateDocumentStatus` calls both pass `legalTransition` on the
   row they read; the slower one puts an earlier status over a later one (`handler.go:228-239`).
2. `OneDocumentPerKey`: the index that is said to enforce de-duplication is eventually
   consistent and the put has no condition (`document.go:104-127`).
3. `NoDuplicateTransition`: a message delivered again while another row is on top, or while the
   index lags, repeats its transition (update lambda `handler.go:55-72`).
4. `ReplicasSurviveSubscribers`: `fanout` sends on a copy of the list outside the lock, `cancel`
   closes the channel: a send on a closed channel panics, and nothing recovers it
   (`handler.go:257-289`).
5. `FailureIsAnnounced`: `RouteChoice` reads `$.route`, which the handler's input does not have,
   so an execution ends there without a word; and `HandleError` reads `$.documentId` from an
   input that a `Catch` has replaced, so it fails too and `Notify_FAILED` is never reached
   (ASL lines 45, 302-310).

*Seen while modelling, without a run of its own.*

- Two overlapping updates may be fanned out in the opposite order of their puts
  (`handler.go:239-242`); a stream carries no version by which a client could tell.
- `updateStatus` overwrites the row's idempotency key, so a `createDocument` repeated after the
  first status change is not recognised, index lag or not.
- A call cut short between `Put` and `fanout` is answered from the index when repeated, and its
  row is never fanned out. `UpdatesAnnounced` is stated for behaviours without such cuts and does not
  show it; that what such a call leaves is answered truly is `RepliesAreTrue`.
- The execution name ends in the time of the delivery, so a repeated finding starts a second
  execution of the same document.
- The state lambda and the event handler write the table themselves, so what they write reaches
  no stream; a stream sees only the rows its own replica put.
- The monitor greets a client with a snapshot read after it subscribed, which may be newer than
  the first one queued: the display can go back once. `StreamMovesForward` starts after it.
- Some messages can only be dead-lettered (`Refuse` until `Redrive`), while NFR-2.3 wants none:
  the classification service needs a `workspaceId` that no execution's input has; the state
  machine sends output-assembly its own input, without `intermediateKeys`; the media service
  sends output-assembly an `mp4`, which it cannot load as a PDF.
- `DocumentProcessingError` is raised inside the services, where the loop logs it. No task of
  the ASL runs a service, so the `Catch` that names it is dead, and so is the slipsheet fallback.
- `COMPLETED` is announced when the last message has been sent; no service reports back.
- `PROCESSING` is announced before `Notify_CONVERT_QUEUED` and `Notify_OCR_QUEUED` announce `QUEUED` again.
- The archive service deletes its message when the stream has been read, not when the entries
  have been stored and sent (`index.ts:47-65`): a crash then loses entries.
- A staging key ends in a uuid, so the classification service finds no extension: HTML, mail
  and `forcedSlipsheetExtensions` never match, and those documents become slipsheets.
- Children of mails and archives get no row in the documents table.
- The operations view compares a poll with the one before it in the same mount only: a service
  that went down while another view was open, or before the page was loaded, is shown and never
  notified. Tabs overwrite each other's list in local storage (`store.ts:44`).
- The metadata file of the upload view is built from the document as it was dropped
  (`UploadView.tsx:332`), so its stages are all `PENDING`; the comment at 241 says "build outputs
  based on stages that ran". A file that can no longer be read leaves its card at the last stage.
- `resume` from main names a unit without a branch only when no unit is active
  (`resume.js:642`); with one active unit in order it reports tier 5, although the comment before
  it says "Tier-5 is only correct when every roster entry is RELEASED" (637-639).
- The probe of a unit's documents looks for the design in `aidlc-docs/design`
  (`resume.js:330-340`), but the design stages write below `aidlc-docs/construction`, where the
  construction's preflight looks for them. A unit designed in full is therefore sent to
  `/aidlc-unit-design` once more; that command's preflight accepts it.
- A restart that is continued is dispatched at once (`escalate-fix.js:459-489`): a downstream stage
  completed since is not archived, although the question it answers promises to "archive every
  COMPLETED downstream artifact" (`preflight-escalate-fix.js:155`). The block does not say which
  stage it is about, so after restarts of two different stages one may be taken for the other's:
  `HalfRestartsStayUndispatched` speaks of one stage.
- The answered question file stays for the next cycle, which then finds it answered
  (`DISPATCH_READY`, `preflight-escalate-fix.js:86-93` says so and asks the engineer to delete it).
  The next fix is dispatched with the last one's stage and mode, and its commit does not hold the
  file that 710-714 of `escalate-fix.js` says "belongs in the same commit".
- A release takes the absence of the construction state for the completion of stage 13
  (`preflight-unit-release.js:159-166`); the file is absent before the construction begins too.
- The expression that finds an answer, `/^\[Answer\]:\s*(\S*)/gm`, runs on over line ends, so the
  answer to an empty line is the next heading: `detectQuestionFilePhase` never reports a question
  as pending (`preflight-escalate-fix.js:78-112`; the comments at 82-84 and 287-289 expect it to). `escalateFix` then stops
  with `PHASE_A_HALT`, so nothing worse follows; `resume.js:107-116` has the same expression.

## 5. The theorems

`DocumentLifecycleProofs` (constants arbitrary, under the assumptions `KeysAssumption`,
`DocsAssumption`, `StagesAssumption`, `ResolverAssumption`, `LambdaAssumption`,
`HandlerAssumption` and `ScriptAssumption` that TLC evaluates in the runs):

- `TypeCorrect`: `Spec => []TypeOK`.
- `BatchesKept`, `RegressionsExplained`, `FlagLossExplained`: the three table invariants of the
  `lifecycle` run.
- `RepliesHold`, `UpdatesAreAnnounced`: `RepliesAreTrue` and `UpdatesAnnounced` of the same run.
- `AcksAreEarned`: `AckedWasApplied` of the `messages` run.
- `NotesKeepTheirPromise` (`NotesAreDelivered`): the state-change queue and the lambda implement
  `AtLeastOnce`.

None of the table invariants is inductive. The strengthening is `IndInv`: the type invariant; `LogInv`,
which says that each row but the first is derived from the earlier row its `base` names (same
batch, flag kept, and a legal transition when the resolver put it); and `CallInv`, `WorkInv`,
`HandlerInv`, which say what a program holds between its read and its put, namely the number of
a row that exists. `PutGood` is the one lemma about the table: appending a derived row keeps
`LogInv` and disturbs no earlier row. `ResolverPutGood`, `LambdaPutGood` and `ThreatPutGood` show
that each program only ever appends derived rows; `ResolverInd`, `LambdaInd`, `HandlerInd` and
`OtherInd` take the actions one by one. The invariants follow from `LogInv` by comparing a row
with the one before it instead of the one it was derived from, which is where stale reads
come in.

The other three need to know what a hit in the index proves. A hit shows some row with the key
that was looked for, nothing else, so `KeyInv` says what a key means: a create key on any row of a
document is the first row's (`CreateKeysStay`), and a document with a state lambda's key on any row
has been in the state the key names (`StateKeysTell`; not always on that row, as a threat is put
with the key of the row it was read from). Each program's put keeps it
(`CreatePutKey`, `UpdatePutKey`, `LambdaPutKey`, `ThreatPutKey`). On it rest `AckInv` (a message is
acknowledged, or about to be, only when its transition is in the table), `ReplyInv` (the same of what
clients were told and are about to be told) and `AnnounceInv` (no row is announced twice, what a call
has still to announce nobody has announced, and unless calls fail every row an update put is one or
the other).

`NotesKeepTheirPromise` has `AckInv` for the work done, and `QueueInv` for the queue: a note that is known
was the message of a number its execution has come to (`SentInv`), so the next one is new, as no two
`Notify` states of the ASL send the same (`ScriptAssumption`); a note has one entry on the queue or has
left it (`OneNote`); and what an invocation holds was received, whatever has become of it since
(`TakenInv`).

`SerialResolverIsTheMachine` is the refinement of the run `resolver_serial`: under `ResolverSpec` with
`Concurrency` at one, `Machine!Spec` holds for the status of each document's current row. `Serial`
strengthens `ResolverInv` with what one call at a time means: the row an update is about to replace is
still the newest. `SerialNext` maps every step: `CreatePut` is the machine's `Create`, `UpdatePut` an
`Advance` or a `Fail` (`LegalMoves`: `legalTransition` accepts the machine's moves and no others), and
everything else, calls cut short and the index catching up included, a stutter.

`StreamsProofs`, of the two servers with streaming clients.

- The monitor (any services, any clients, any capacity): `PollerTypeCorrect`,
  `NeverSendsOnClosedChannel`, `SnapshotsStayWhole`, `StreamsMoveForward`. The strengthening
  `PollerInv` says that a client is listed exactly while its handler runs, that what fanOut still
  has to serve is listed (it holds the lock), that a probing tick is later than the published
  one, and that what a client was shown, then what waits in its channel, then the latest snapshot
  while it is on its way are in ascending order.
- The resolver's streams (any replicas, streams, updates and room): `SubscriptionsInvariant`,
  `NoSubscriptionLeaks`, `RowsComeToTheirStreams`. `SubscriptionsInv` says that a list holds exactly
  the channels of its replica's live streams, each once (`ListsAreExact`: `cancel` removes the first
  match only), that rows are counted up (`RowsAreCounted`), and that an update which has its copy of
  the list has sent its row to each stream that was there before, or still will (`RowsComeThrough`).

`PipelineProofs` (any executions, inputs, documents, pods, entries, receives and faults, under
`InputsAssumption`, that the input of an execution has a `documentId`; `UploadedAssumption`, that
it names an uploaded root document; `WorkersAssumption`; and `EntriesAssumption`, that what an
archive holds is a kind of file that can be uploaded):

- `ErrorsReachNoQueue` (`DispatchesNameTheirDocument`): an input without `documentId` is only ever
  found in `HandleError` or after the execution has broken (`NamesDocument`, part of
  `ExecutionInv`), as every `Catch` leads there and `HandleError` fails on it.
- `MessagesNameWhatIsThere` (`MessagesNameObjects`): a message in a pod's hands outlives its copy on
  the queue, so `WorkersInv` says the same of what each pod holds and, for a pod that has written
  its object and is about to send, of the message it will send (`HandedOn`). Objects are never
  deleted (`MoreObjects`), every copy of a message names the same object (`PostedIsGood`), and
  `HandedOnIsGood` goes through the table of the services once; `WorkerSteps` takes the loop's
  actions one by one. `PipelineInv` joins both with the fact that an execution's own object is stored.
- `RoutesAreFollowed` (`RoutesAgree`): `RouteInv` ties what an execution has sent to where it is,
  before, while and after its route is acted on.
- `PipelineTypeCorrect` (`PipelineTypeOK`): the types, with the counts of receives within their
  bounds. A child's id is the least that no object and no message still to come has, so the types
  include that there are finitely many of each (`FreshChild`).
- `NothingIsDropped` (`AckedWasHandedOn`): `HandInv` says, of a pod that is about to delete its
  message, what the property says of a deleted one, and of a pod half-way through a mail that each
  attachment read so far has been sent or is still held. Nothing that was sent is ever unsent
  (`ServedStays`): a message leaves its queue for the set of deleted or of dead ones.
- `DuplicatesComeFromRedelivery` (`DuplicatesNeedRedelivery`): a count. For every root and entry, the
  documents made of the entry, and the pods that have received its container and not read the
  entry yet, are together no more than the receives of the containers (`Counted`). A receive adds
  one to the pods and one to the receives; reading the entry moves a pod's one to the documents;
  a pod that throws, crashes or expires gives its one up. Messages must be told apart for the sum
  to go up by one (`MessagesDistinct`), and `ReceivesCounts` gets the sum of the community module's
  `MapThenSumSet` from `Inductions`.
- `MailKeepsItsPromise` (`MailIsDelivered`): the refinement of `AtLeastOnce`. Its `worked` is what
  `Served` says, so `HandInv` and `ServedStays` give the work; `MessagesDistinct` makes a sent message
  new and a deleted one the only one of its kind; `HeldKnown` says that what a pod holds was
  received, though it may have been deleted by another pod or dead-lettered since, when its own
  delete is a stutter. `ReceiveStep`, `SendStep`, `DeleteStep`, `RedriveStep` and `QuietStep` map the
  steps.

`StoresProofs`, of the two programs that keep a store of their own:

- The audit trail (any events, invocations, receives and days): `EventsAreArchivedOnce`
  (`ArchivedOnce`). By `AuditInv` all that is known of an event, its messages, invocations, row and
  objects, bears one time (`OfTime`), that of its emitter, so that the object has one key however
  late it is put; an event was heard of only if it was emitted, and is then never emitted again;
  and the row is there before the object, the object before the message goes (`InOrder`).
  `LettersKeepTheirPromise` (`LettersAreDelivered`) is the refinement of `AtLeastOnce`, the work being
  `InOrder`'s two puts; it adds that an event has one message (`OneLetter`), which was received when an
  invocation holds it (`Taken`).
- The workspaces (any workspaces, calls and values): `SettingsLast`
  (`SettingsAreUndoneOnlyByOverlap`). A call under way knows its workspace, and an update a row that
  exists (`CallsInv`); `RowKeepsSetting` is the step, one more row which sets the field or copies it
  from the row that was read.

`EscalateFixProofs`, of escalation and full restart:

- Escalation (any units, any requests, any number of commits): `EscalationTypeCorrect`,
  `OpenEscalationsKept`, `ReleasesFindEscalationsFixed`, `ReleasesAreNotRepeated`,
  `ReleasesAreNotStale`, each with the exceptions of section 4, which `lapses` records where they
  happen. `asked` is written by one action, so a marker that goes in any other way makes its unit
  open without one. `OpenEscalationsKeepTheirMarker` is inductive together with the types; the
  three action properties need to know what a release under way has seen. `ReleaseIsClean` says that
  from the preflight to the commit its unit has no open escalation or has lost its marker, has work
  main lacks or a diff that was not answered, and is not stale or has lost its hint: no other command
  runs meanwhile, and what the engineer can do meanwhile changes none of the three. `HintsAreOwed`
  says that a unit fixed in place has its hint, or the command that will write it is still running,
  or a lapse says why there is none. `EscalationInv` joins them; each of the four groups of actions
  keeps it.
- Full restart (any number of stages): `RestartTypeCorrect`, `HalfRestartsUndispatched`. A
  continuation trusts the audit block, so the invariant `RestartInv` is about what a recent block
  means: while only stage `s` was ever chosen, no stage below `s` is half restarted when the block is
  recent, or when a restart is past its renames; and one that is still renaming has made all the
  backups below `s` itself, with no recent block. `detectContinuationState` gives each case.

`ScaffoldProofs`, of the rest of the scaffold:

- Audit review (any number of entries and moments): `AuditInvariant`,
  `FinalizedReviewsHaveLogs`, `ReviewsLeaveNoGap`. A window begins at the latest log there is when its
  review is collected, so `NoGapBetweenReviews` speaks of logs written later than the review it is
  about. `AuditInv` says that a window begins at a log's moment or at the start, and that what was in
  it is bundled or was missed (`WindowsAreWhole`), that every log and every staged bundle belongs to a review
  (`BundlesAreReviews`), and that a set of logs has a latest member and, after any moment, an earliest
  one (`LogsHaveEnds`).
- Commands and `resume` (any units, plans and descriptions, under `WorkflowAssumption`, that `Nothing`
  is none of the things a file can hold): `DescriptionsRecovered`, `AdviceIsSound`,
  `MainNamesTheMostPressingNeed`. Preflights and `resume` read different files of the same unit;
  `WorkflowInv` says how these files agree whatever was run: a state file of the planner is there
  only after the inputs, the construction's only after the designs its plan asks for, a question file only
  once the unit was begun (`StateFilesAgree`); the last question file has the last description, or
  has none and was made for one that did not get there (`Recovered`); and a live branch belongs to a
  project that has its units (`ProjectFirst`), which `/aidlc-escalate-fix` on main asks for. One lemma
  per command keeps it; markers, merges and sync questions are apart from all this (`AsideStep`).
  `AdviceByCause` lists what can make `resume` advise a command, `AdviceAccepted` that the invariant,
  where the property's exceptions do not apply, gives what that command's preflight asks for.
  `TopIsTop` is the loop of `resumeFromMain` over the units.
- Progress (any finite set of units, any document and state files): `WavesEarliest`, `CyclesNamed`,
  `CountsAgreeAlways`, `BlockedPhasesLeadOut`. `Places` describes the rounds of `computeBatches`, a
  unit being placed when all its blockers are. A round that places nobody leaves the set as it is for
  good, so as many rounds as there are units reach that point (`RoundsSuffice`), and the cap the
  code puts on its loop is never what leaves a unit out. The units left over are the greatest set
  whose members are blocked by one another (`UnplacedAreEntangled`), which is also why a blocked
  phase has a blocker that is not blocked.

`BrowserProofs`, of the two pages:

- The upload view (any files): `UploadInvariant`, `CardsStayCoherent`. `UploadInv` ties each card to
  its pipeline: a card that is shown is `UnderWay`, at the stage where its pipeline is, or `Settled`.
- The notifications (any roster, clock, and windows of time, under `DashboardAssumption`, that the
  store keeps at least as many notifications as there are services: 50 and the roster of
  `health.ts`): `DashboardInvariant`, `OutagesListed`. The one long step is a poll. It goes over
  the services one by one (`Polled`), and after `n` of them each change among them is listed
  among the first `n` notifications or was listed before the poll (`Looked`, kept by `OneLook`): a
  push moves the others down by one, and there are no more services than places, so a poll pushes
  out none of its own; what is dropped as a repetition repeats one of these.

`Inductions` holds what these proofs need of data: a set of naturals has a least member and holds all
of them if it has zero and each successor (`NatLeast`, from the well-foundedness the library
states); a finite set is reached one element at a time (`FiniteInductive`, `FiniteGreatest`,
`FiniteImage`); a function defined by recursion on `0..n` exists (`Iteration`), as does one by recursion
over the subsets of a finite set (`Folding`), and a sum does not depend on the order in which its
terms are chosen (`SumAnyOrder`, `Summing`). All are stated of sets and functions, not of operators, so
that they can be cited; each loop of the code that a theorem is about is a recursive function or a
fold, and its first lemma says that the function is what its recursion says.

Only model-checked: the three liveness properties (`NotesSettle`, `TickCompletes`, `MailSettles`),
which TLAPS cannot prove here, as fairness speaks of `ENABLED`. Every other property of a passing
run is a theorem. `PipelineTypeOK`, `EscalationTypeOK` and `RestartTypeOK` are proved and no longer run;
`LettersAreDelivered` and `NotesAreDelivered` are proved without a run of their own.

## 6. What is not modelled, and the plan

Done first, because everything else depends on it: the table and its three writers, then the
pushing servers, then the pipeline; then the scaffold and the browser, by their share of the code;
then the audit path and the workspaces.
Next, in this order:

1. **`UploadClient`**: the loop of `UploadDropzone` over the dropped files, its keys and its errors.
2. The page ranges of the office orchestrator (`__main__.py:82-95`) as a pure operator against its
   definition.

Not planned: batch-resolver (`CreateBatch` is one put of a fresh row, and overlapping calls of
`CloseBatch` write the same constant, so no schedule gives a state that another does not), the office container (a stateless server around a third-party library), the
router (third-party), the pre-token lambda (a pure check without state), Terraform, Helm and
scripts (resources without a protocol; the lines that decide behaviour are cited in `map`), the
harness, generated `*.pb.go`, and the pages of the web module (`PipelineView`, `TenantsView` and
the generators of `health.ts` make up demonstration data; nothing depends on it). In the scaffold
the wording and layout of reports, the assertions on a command's output (`assert-marker.js`) and
the work of the agents between two commands, of which each model takes the outcomes that the next
command can find.
