----------------------------- MODULE AuditTrail -----------------------------
(***************************************************************************)
(* From a mutation to its audit record: the emitter of wundergraph-router  *)
(* (internal/handler/audit.go), the queue docuploader-api-audit-events and *)
(* audit-event-storage-lambda, which writes each event to a hot table and  *)
(* to a bucket whose objects nobody can delete (Object Lock).  The key of  *)
(* an object holds the day the event occurred.  The ninety days after      *)
(* which the hot rows expire are longer than any behaviour here.           *)
(***************************************************************************)
EXTENDS Naturals, FiniteSets

CONSTANTS
  Events,          \* mutations, by the event id the emitter makes
  Drainers,        \* messages the lambda handles at the same time
  MaxAuditReceive, \* maxReceiveCount of the queue (5 in sqs.tf)
  MaxDay,          \* bound: days a behaviour lasts
  NoEvent

VARIABLES
  today,
  letters,   \* [event, at, n]: the messages on the queue, with their receive count
  hot,       \* [Events -> 0..MaxDay]: OccurredAt of the row in the table, 0 for none
  archive,   \* [event, day]: the objects in the bucket
  filed,     \* the events whose message was deleted after a success
  lost,      \* the events on the dead-letter queue
  drain      \* [Drainers -> DrainState]

auditVars == <<today, letters, hot, archive, filed, lost, drain>>

ASSUME AuditTrailAssumption == MaxAuditReceive \in Nat \ {0} /\ MaxDay \in Nat \ {0}

Days       == 1..MaxDay
Unstamped  == 0
DrainState == [pc: {"idle", "hot", "cold", "ack"}, event: Events \cup {NoEvent}, at: Days \cup {Unstamped}]

\* if OccurredAt.IsZero() { OccurredAt = now }, in both programs.
Stamped(at) == IF at = Unstamped THEN today ELSE at

AuditTrailInit ==
  /\ today = 1
  /\ letters = {}
  /\ hot = [e \in Events |-> Unstamped]
  /\ archive = {}
  /\ filed = {}
  /\ lost = {}
  /\ drain = [w \in Drainers |-> [pc |-> "idle", event |-> NoEvent, at |-> Unstamped]]
-----------------------------------------------------------------------------
\* Mutant: the emitter leaves the time to the lambda.
Emit_Unstamped(e) ==
  /\ \A m \in letters : m.event # e
  /\ hot[e] = Unstamped /\ e \notin filed \cup lost
  /\ letters' = letters \cup {[event |-> e, at |-> Unstamped, n |-> 0]}
  /\ UNCHANGED <<today, hot, archive, filed, lost, drain>>
-----------------------------------------------------------------------------
\* Emit: the caller (/audit-probe) gives no time.  When SendMessage fails
\* without a message the caller is told and nothing has changed.
Emit(e) ==
  /\ \A m \in letters : m.event # e
  /\ hot[e] = Unstamped /\ e \notin filed \cup lost
  /\ letters' = letters \cup {[event |-> e, at |-> Stamped(Unstamped), n |-> 0]}
  /\ UNCHANGED <<today, hot, archive, filed, lost, drain>>

\* SQS hands a message to an invocation, perhaps again while another still
\* has it; handleOne decodes it.
TakeLetter(w) ==
  /\ drain[w].pc = "idle"
  /\ \E m \in letters :
       /\ m.n < MaxAuditReceive
       /\ letters' = (letters \ {m}) \cup {[m EXCEPT !.n = @ + 1]}
       /\ drain' = [drain EXCEPT ![w] = [pc |-> "hot", event |-> m.event, at |-> Stamped(m.at)]]
  /\ UNCHANGED <<today, hot, archive, filed, lost>>

\* auditevents.Client.Put replaces the row of the event id.
PutHot(w) ==
  /\ drain[w].pc = "hot"
  /\ hot' = [hot EXCEPT ![drain[w].event] = drain[w].at]
  /\ drain' = [drain EXCEPT ![w].pc = "cold"]
  /\ UNCHANGED <<today, letters, archive, filed, lost>>

\* PutObject under audit/<tenant>/<day>/<event>.json.
PutCold(w) ==
  /\ drain[w].pc = "cold"
  /\ archive' = archive \cup {[event |-> drain[w].event, day |-> drain[w].at]}
  /\ drain' = [drain EXCEPT ![w].pc = "ack"]
  /\ UNCHANGED <<today, letters, hot, filed, lost>>

\* The message is not among BatchItemFailures: it is deleted, unless it is gone.
DropLetter(w) ==
  /\ drain[w].pc = "ack"
  /\ LET mine == {m \in letters : m.event = drain[w].event} IN
       letters' = letters \ mine /\ filed' = filed \cup {m.event : m \in mine}
  /\ drain' = [drain EXCEPT ![w].pc = "idle"]
  /\ UNCHANGED <<today, hot, archive, lost>>

\* A put fails, or the invocation dies or runs out of time: what was put
\* stays put and the message stays on the queue.
DrainFails(w) ==
  /\ drain[w].pc # "idle"
  /\ drain' = [drain EXCEPT ![w].pc = "idle"]
  /\ UNCHANGED <<today, letters, hot, archive, filed, lost>>

\* The redrive policy of the queue.
GiveUp ==
  /\ \E m \in letters : /\ m.n = MaxAuditReceive
                        /\ lost' = lost \cup {m.event}
                        /\ letters' = letters \ {m}
  /\ UNCHANGED <<today, hot, archive, filed, drain>>

Midnight ==
  /\ today < MaxDay
  /\ today' = today + 1
  /\ UNCHANGED <<letters, hot, archive, filed, lost, drain>>

AuditTrailNext ==
  \/ \E e \in Events : Emit(e)
  \/ \E w \in Drainers : TakeLetter(w) \/ PutHot(w) \/ PutCold(w) \/ DropLetter(w) \/ DrainFails(w)
  \/ GiveUp
  \/ Midnight

AuditTrailSpec == AuditTrailInit /\ [][AuditTrailNext]_auditVars
-----------------------------------------------------------------------------
\* An event whose message was deleted is in both stores, and however often,
\* by how many invocations and over how many midnights it was handled, the
\* bucket holds one object of it, of the day its row holds: a second object
\* could not be deleted (handleOne, the retry after a failed cold put).
ArchivedOnce ==
  /\ \A e \in filed : \E a \in archive : a.event = e
  /\ \A a, b \in archive : a.event = b.event => a = b
  /\ \A a \in archive : hot[a.event] = a.day

\* The queue and the lambda keep the promise of an SQS queue and its consumer:
\* a message is deleted only after it was received and its event is in both
\* stores, is given up only with its receives used up, and does not come back.
Letters == INSTANCE AtLeastOnce WITH
  Limit <- MaxAuditReceive, queue <- {[msg |-> m.event, n |-> m.n] : m \in letters},
  deleted <- filed, buried <- lost,
  worked <- {e \in Events : hot[e] # Unstamped /\ \E a \in archive : a.event = e}
LettersAreDelivered == Letters!Spec
=============================================================================
