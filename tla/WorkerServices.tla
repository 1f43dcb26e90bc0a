--------------------------- MODULE WorkerServices ---------------------------
(***************************************************************************)
(* The twelve worker services of the pipeline.  Each is a loop over its    *)
(* SQS queue: receive one message, read the object it names, write the     *)
(* converted object, send the next message, delete the received one.  An   *)
(* exception or a crash before the delete leaves the message to its        *)
(* visibility timeout and, after MaxReceive receives, to the dead-letter   *)
(* queue.  The archive and mail services make a child document per entry.  *)
(***************************************************************************)
EXTENDS Naturals, Sequences, FiniteSets, FiniteSetsExt

CONSTANTS
  Pods,         \* bound: messages handled at the same time, over all services
  Roots,        \* uploaded documents
  Entries,      \* entries of an archive, attachments of a mail
  EntryKind,    \* what they are
  MaxReceive,   \* maxReceiveCount (5, and 3 for convert-office, in sqs.tf)
  MaxFaults,    \* bound: failed calls, crashes and late handlers
  NoMessage

VARIABLES
  mail,         \* [msg, n]: the messages on the queues and their receive counts
  acked,        \* [msg, n]: the messages a service deleted
  dead,         \* [msg, n]: the messages on the dead-letter queues
  objects,      \* <<document, name>>: the objects in the two buckets
  pod,          \* [Pods -> PodState]
  faults        \* how many of MaxFaults have happened

workerVars == <<mail, acked, dead, objects, pod, faults>>

ASSUME WorkersAssumption ==
  /\ MaxReceive \in Nat \ {0}
  /\ MaxFaults \in Nat
  /\ Entries \in Nat

\* A document is <<root, 0, 0>>, or the nth child made for an entry of a root:
\* children get random ids, so each attempt makes another one.
Document == Roots \X (0..Entries) \X Nat

\* What was uploaded, and what the services write.
Uploaded == {"pdf", "office", "html", "image", "tiff", "media", "email", "archive", "other"}
Written == [ convert_office |-> "office.pdf", convert_html   |-> "html.pdf", convert_image |-> "image.pdf",
             slipsheet |-> "slipsheet.pdf",   pdf_processing |-> "repaired.pdf",
             tiff_cog  |-> "cog.tif",         media          |-> "media.mp4",
             output_assembly |-> "searchable.pdf" ]
Names == Uploaded \cup {Written[q] : q \in DOMAIN Written}
ASSUME EntriesAssumption == EntryKind \in Uploaded

Pdfs  == {"pdf", "office.pdf", "html.pdf", "image.pdf", "slipsheet.pdf", "repaired.pdf"}
-----------------------------------------------------------------------------
\* classify: the bytes decide, when they have a signature.  The extension never
\* does: a staging key ends in the document's uuid.
Classified(name) ==
  CASE name = "pdf"     -> "ocr-direct"    [] name = "office" -> "convert/office"
    [] name = "image"   -> "convert/image" [] name = "tiff"   -> "convert/tiff"
    [] name = "archive" -> "archive"       [] name = "media"  -> "media"
    [] OTHER            -> "slipsheet"

\* ROUTE_QUEUE_URLS of the classification service.
RouteQueue(route) ==
  CASE route = "convert/office" -> "convert_office" [] route = "convert/html" -> "convert_html"
    [] route = "convert/image"  -> "convert_image"  [] route = "convert/tiff" -> "tiff_cog"
    [] route = "ocr-direct"     -> "ocr_direct"     [] route = "email"        -> "email"
    [] route = "archive"        -> "archive"        [] route = "media"        -> "media"
    [] OTHER                    -> "slipsheet"

Queues == DOMAIN Written \cup {"classification", "ocr_direct", "email", "archive"}
Containers == {"email", "archive"}

\* The members of a message its handler cannot do without.
Needs(q) ==
  CASE q = "classification"  -> {"workspaceId", "s3Key"}
    [] q = "output_assembly" -> {"intermediateKeys"}
    [] q = "slipsheet"       -> {}
    [] q \in {"convert_office", "pdf_processing"} -> {"documentId", "s3Key"}
    [] OTHER                 -> {"s3Key"}

\* The objects its converter can open.
Opens(q) ==
  CASE q = "convert_office" -> {"office"} [] q = "convert_html" -> {"html"}
    [] q = "convert_image"  -> {"image", "tiff", "cog.tif"}
    [] q = "tiff_cog"       -> {"tiff"}   [] q = "media"        -> {"media"}
    [] q = "ocr_direct"     -> {"pdf", "image", "tiff"}
    [] q \in Containers     -> {q}
    [] q \in {"pdf_processing", "output_assembly"} -> Pdfs
    [] OTHER                -> Names

Message == [queue: Queues, doc: Document, name: Names, copy: Nat,
            has: SUBSET {"documentId", "s3Key", "workspaceId", "route", "Error", "intermediateKeys"}]
Entry == [msg: Message, n: 0..MaxReceive]

\* late: the visibility timeout of msg has run out; left: entries still to
\* come; open: the messages of children that are still to be sent.
PodState == [ pc: {"idle", "work", "unpack", "send", "delete"}, msg: Message \cup {NoMessage},
              late: BOOLEAN, left: 0..Entries, open: SUBSET Message ]

Idle == [pc |-> "idle", msg |-> NoMessage, late |-> FALSE, left |-> 0, open |-> {}]

\* The message that hands m's document on: `{ ...msg }` with changes, or a new one.
HandedOn(m) ==
  CASE m.queue = "classification" ->
         [m EXCEPT !.queue = RouteQueue(Classified(m.name)), !.has = @ \cup {"route"}]
    [] m.queue = "ocr_direct" -> [m EXCEPT !.queue = "pdf_processing", !.has = @ \cup {"route"}]
    [] m.queue = "tiff_cog" ->
         [m EXCEPT !.queue = "convert_image", !.name = "cog.tif", !.has = @ \cup {"route"}]
    [] m.queue = "convert_office" ->
         [m EXCEPT !.queue = "pdf_processing", !.name = "office.pdf", !.has = {"documentId", "s3Key"}]
    [] OTHER ->
         [m EXCEPT !.queue = "output_assembly", !.name = Written[m.queue],
                   !.has = (@ \cap {"documentId"}) \cup {"intermediateKeys"}]

Ever == {e.msg : e \in mail \cup acked \cup dead}
Copies(m) == {x \in Ever : [x EXCEPT !.copy = 0] = [m EXCEPT !.copy = 0]}

\* mail with one more message; two sends of the same body are two messages.
Posted(m) == mail \cup {[msg |-> [m EXCEPT !.copy = Cardinality(Copies(m)) + 1], n |-> 0]}

Held(m)  == \E p \in Pods : pod[p].msg = m /\ ~pod[p].late
CanHandle(m) == Needs(m.queue) \subseteq m.has /\ m.name \in Opens(m.queue)
Children(root, i) == {o[1] : o \in {o \in objects : o[1][1] = root /\ o[1][2] = i}}

\* The message of a child for the ith entry of m's document, under a fresh id.
NewChild(m, i) ==
  LET root == m.doc[1]
      ids  == {c[3] : c \in Children(root, i)
                         \cup {c.doc : c \in {c \in UNION {pod[p].open : p \in Pods} : c.doc[1] = root /\ c.doc[2] = i}}} IN
  [ queue |-> "classification", doc |-> <<root, i, Min((1..Cardinality(ids) + 1) \ ids)>>,
    name |-> EntryKind, copy |-> 0, has |-> {"documentId", "s3Key"} \cup (m.has \cap {"workspaceId"}) ]

Stored(m) == <<m.doc, m.name>> \in objects
At(p, pc) == pod[p].pc = pc
-----------------------------------------------------------------------------
\* Mutants: the message is deleted when it is received; a receive is not
\* counted; there is one receive too many; the next message is sent before the
\* object is written; the same entry is stored again.
Receive_Deletes(p) ==
  /\ At(p, "idle")
  /\ \E e \in mail :
       /\ pod' = [pod EXCEPT ![p].pc = "work", ![p].msg = e.msg, ![p].late = FALSE]
       /\ mail' = mail \ {e}
       /\ acked' = acked \cup {[e EXCEPT !.n = @ + 1]}
  /\ UNCHANGED <<dead, objects, faults>>

Receive_Uncounted(p) ==
  /\ At(p, "idle")
  /\ \E e \in mail :
       /\ ~Held(e.msg)
       /\ pod' = [pod EXCEPT ![p].pc = "work", ![p].msg = e.msg, ![p].late = FALSE]
  /\ UNCHANGED <<mail, acked, dead, objects, faults>>

Receive_OneMore(p) ==
  /\ At(p, "idle")
  /\ \E e \in mail :
       /\ e.n <= MaxReceive /\ ~Held(e.msg)
       /\ mail' = (mail \ {e}) \cup {[e EXCEPT !.n = @ + 1]}
       /\ pod' = [pod EXCEPT ![p].pc = "work", ![p].msg = e.msg, ![p].late = FALSE]
  /\ UNCHANGED <<acked, dead, objects, faults>>

Convert_SendsFirst(p) ==
  /\ At(p, "work")
  /\ LET m == pod[p].msg IN
       /\ CanHandle(m) /\ m.queue \notin Containers
       /\ mail' = IF m.queue = "output_assembly" THEN mail ELSE Posted(HandedOn(m))
       /\ pod' = [pod EXCEPT ![p].pc = "delete"]
       /\ UNCHANGED objects
  /\ UNCHANGED <<acked, dead, faults>>

ReadEntry_Again(p) ==
  /\ At(p, "unpack") /\ pod[p].left > 0
  /\ pod' = [pod EXCEPT ![p].open = @ \cup {NewChild(pod[p].msg, Entries - pod[p].left + 1)}]
  /\ UNCHANGED <<mail, acked, dead, objects, faults>>
-----------------------------------------------------------------------------
\* ReceiveMessage of one message.
Receive(p) ==
  /\ At(p, "idle")
  /\ \E e \in mail :
       /\ e.n < MaxReceive /\ ~Held(e.msg)
       /\ mail' = (mail \ {e}) \cup {[e EXCEPT !.n = @ + 1]}
       /\ pod' = [pod EXCEPT ![p].pc = "work", ![p].msg = e.msg, ![p].late = FALSE]
  /\ UNCHANGED <<acked, dead, objects, faults>>

\* The handler throws on what it was given: logged, and left to redelivery.
\* A DocumentProcessingError is no exception.
Refuse(p) ==
  /\ At(p, "work")
  /\ ~CanHandle(pod[p].msg)
  /\ pod' = [pod EXCEPT ![p].pc = "idle", ![p].msg = NoMessage]
  /\ UNCHANGED <<mail, acked, dead, objects, faults>>

\* PutObject of the converted object; classification and ocr write none.
Convert(p) ==
  /\ At(p, "work")
  /\ LET m == pod[p].msg IN
       /\ CanHandle(m) /\ m.queue \notin Containers
       /\ objects' = IF m.queue \in DOMAIN Written THEN objects \cup {<<m.doc, Written[m.queue]>>} ELSE objects
       /\ pod' = [pod EXCEPT ![p].pc = IF m.queue = "output_assembly" THEN "delete" ELSE "send"]
  /\ UNCHANGED <<mail, acked, dead, faults>>

PassOn(p) ==
  /\ At(p, "send")
  /\ mail' = Posted(HandedOn(pod[p].msg))
  /\ pod' = [pod EXCEPT ![p].pc = "delete"]
  /\ UNCHANGED <<acked, dead, objects, faults>>

\* Archives and mails: the entries of the stream, one by one.
Unpack(p) ==
  /\ At(p, "work")
  /\ pod[p].msg.queue \in Containers /\ CanHandle(pod[p].msg)
  /\ pod' = [pod EXCEPT ![p].pc = "unpack", ![p].left = Entries]
  /\ UNCHANGED <<mail, acked, dead, objects, faults>>

\* The mail service sends a child's message before it reads on; the entry
\* handlers of the archive service run by themselves.
Waits(p) == pod[p].msg.queue = "email" /\ \E c \in pod[p].open : c.doc[1] = pod[p].msg.doc[1]

ReadEntry(p) ==
  /\ At(p, "unpack") /\ pod[p].left > 0 /\ ~Waits(p)
  /\ pod' = [pod EXCEPT ![p].left = @ - 1,
               ![p].open = @ \cup {NewChild(pod[p].msg, Entries - pod[p].left + 1)}]
  /\ UNCHANGED <<mail, acked, dead, objects, faults>>

StoreChild(p) ==
  /\ \E c \in pod[p].open : ~Stored(c) /\ objects' = objects \cup {<<c.doc, c.name>>}
  /\ UNCHANGED <<mail, acked, dead, pod, faults>>

SendChild(p) ==
  /\ \E c \in pod[p].open :
       /\ Stored(c)
       /\ mail' = Posted(c)
       /\ pod' = [pod EXCEPT ![p].open = @ \ {c}]
  /\ UNCHANGED <<acked, dead, objects, faults>>

\* EOF of the mail; "finish" of the archive's stream, which awaits no handler.
Unpacked(p) ==
  /\ At(p, "unpack") /\ pod[p].left = 0 /\ ~Waits(p)
  /\ pod' = [pod EXCEPT ![p].pc = "delete"]
  /\ UNCHANGED <<mail, acked, dead, objects, faults>>

\* DeleteMessage, without effect when the message is gone already.
Delete(p) ==
  /\ At(p, "delete")
  /\ LET mine == {e \in mail : e.msg = pod[p].msg} IN
       mail' = mail \ mine /\ acked' = acked \cup mine
  /\ pod' = [pod EXCEPT ![p].pc = "idle", ![p].msg = NoMessage]
  /\ UNCHANGED <<dead, objects, faults>>
-----------------------------------------------------------------------------
Fault == faults < MaxFaults /\ faults' = faults + 1

\* A call to AWS fails: the loop goes on with the next message.  An error in an
\* entry handler of the archive service is caught by nobody: see Crash.
Throw(p) ==
  /\ ~At(p, "idle") /\ Fault
  /\ pod' = [pod EXCEPT ![p] = [Idle EXCEPT !.open = IF pod[p].msg.queue = "archive" THEN pod[p].open ELSE {}]]
  /\ UNCHANGED <<mail, acked, dead, objects>>

\* The pod dies, with the handlers that are still running in it.
Crash(p) ==
  /\ pod[p] # Idle /\ Fault
  /\ pod' = [pod EXCEPT ![p] = Idle]
  /\ UNCHANGED <<mail, acked, dead, objects>>

\* The visibility timeout runs out while the pod still works.
Expire(p) ==
  /\ ~At(p, "idle") /\ ~pod[p].late /\ Fault
  /\ pod' = [pod EXCEPT ![p].late = TRUE]
  /\ UNCHANGED <<mail, acked, dead, objects>>

\* The redrive policy.
Redrive ==
  /\ \E e \in mail : /\ e.n = MaxReceive /\ ~Held(e.msg)
                     /\ mail' = mail \ {e} /\ dead' = dead \cup {e}
  /\ UNCHANGED <<acked, objects, pod, faults>>

PodWorks(p) ==
  \/ Receive(p) \/ Refuse(p) \/ Convert(p) \/ PassOn(p) \/ Unpack(p)
  \/ ReadEntry(p) \/ StoreChild(p) \/ SendChild(p) \/ Unpacked(p) \/ Delete(p)
PodFails(p) == Throw(p) \/ Crash(p) \/ Expire(p)

WorkersNext == Redrive \/ \E p \in Pods : PodWorks(p) \/ PodFails(p)
-----------------------------------------------------------------------------
WorkersTypeOK ==
  /\ mail \subseteq Entry /\ acked \subseteq Entry /\ dead \subseteq Entry
  /\ objects \subseteq Document \X Names
  /\ pod \in [Pods -> PodState]
  /\ faults \in 0..MaxFaults

\* What a service has done for the document of a message it may delete.
Served(m) ==
  CASE m.queue = "output_assembly" -> <<m.doc, "searchable.pdf">> \in objects
    [] m.queue = "email" -> \A i \in 1..Entries : \E c \in Ever : c.doc[1] = m.doc[1] /\ c.doc[2] = i
    [] m.queue = "archive" -> TRUE
    [] OTHER -> Copies(HandedOn(m)) # {}

\* A message is deleted only after its document was handed on: the assembled
\* output exists, or the next service was sent a message, or every attachment
\* was.  Archives are left out: Unpacked does not wait for their children
\* (index.ts lines 64 and 65 of the archive service).
AckedWasHandedOn == \A e \in acked : Served(e.msg)

\* No message names an object that is not in its bucket, in whatever order
\* retries and overlapping deliveries write and send.
MessagesNameObjects == \A e \in mail : Stored(e.msg)

\* How often the containers among the entries were received.
Receives(entries) == MapThenSumSet(LAMBDA e : e.n, entries)
ContainersOf(r) == {e \in mail \cup acked \cup dead : e.msg.queue \in Containers /\ e.msg.doc[1] = r}

\* An entry becomes a second document only through a second delivery of its
\* container, never twice within one (random child ids, no idempotency key).
DuplicatesNeedRedelivery ==
  \A r \in Roots, i \in 1..Entries : Cardinality(Children(r, i)) <= Receives(ContainersOf(r))
=============================================================================
