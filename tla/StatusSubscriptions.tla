------------------------- MODULE StatusSubscriptions -------------------------
(***************************************************************************)
(* SubscribeStatusChanged of units/document-resolver: the in-memory list   *)
(* of channels a replica keeps per document, the fanout that follows a     *)
(* Put of updateStatus, and the streams that come and go.  One document:   *)
(* the lists of two documents have nothing in common.                      *)
(***************************************************************************)
EXTENDS Naturals, Sequences, SequencesExt

CONSTANTS
  Replicas,   \* pods of document-resolver: each has a list of its own
  Streams,    \* SubscribeStatusChanged calls
  Updates,    \* updateStatus calls that reach their Put
  Room,       \* capacity of a stream's channel (16 in subscribe)
  NoReplica

ASSUME SubscriptionsAssumption == Room \in Nat \ {0} /\ NoReplica \notin Replicas

VARIABLES
  rows,       \* how many rows of the document have been put
  up,         \* the replicas that run
  listed,     \* [Replicas -> Seq(Streams)]: h.subs[documentID]
  stream,     \* [Streams -> StreamState]
  fan         \* [Updates -> FanState]: an update from its Put to its return

subscriptionVars == <<rows, up, listed, stream, fan>>

\* since: the rows there were at subscribe; got and lost: rows sent to the
\* client and rows the full channel had no room for (auxiliary).
StreamState == [ pc: {"idle", "serving", "leaving", "ended"}, at: Replicas \cup {NoReplica},
                 chan: Seq(Nat), since: Nat, got: Seq(Nat), lost: SUBSET Nat ]

FanState == [ pc: {"idle", "put", "sending", "done"}, at: Replicas \cup {NoReplica},
              row: Nat, todo: Seq(Streams) ]

SubscriptionsInit ==
  /\ rows = 0
  /\ up = Replicas
  /\ listed = [r \in Replicas |-> <<>>]
  /\ stream = [s \in Streams |-> [ pc |-> "idle", at |-> NoReplica, chan |-> <<>>,
                                   since |-> 0, got |-> <<>>, lost |-> {} ]]
  /\ fan = [u \in Updates |-> [pc |-> "idle", at |-> NoReplica, row |-> 0, todo |-> <<>>]]
-----------------------------------------------------------------------------
\* Mutants: cancel closes the channel and leaves it on the list; cancel also
\* drops the entries after its own.
Cancel_LeavesEntry(s) ==
  /\ stream[s].pc = "leaving"
  /\ stream' = [stream EXCEPT ![s].pc = "ended"]
  /\ UNCHANGED <<rows, up, listed, fan>>

Cancel_Truncates(s) ==
  /\ stream[s].pc = "leaving"
  /\ listed' = [listed EXCEPT ![stream[s].at] =
                  SubSeq(@, 1, SelectInSeq(@, LAMBDA t : t = s) - 1)]
  /\ stream' = [stream EXCEPT ![s].pc = "ended"]
  /\ UNCHANGED <<rows, up, fan>>
-----------------------------------------------------------------------------
\* subscribe: a new channel at the end of the replica's list.
Subscribed(s, r) ==
  /\ stream[s].pc = "idle"
  /\ r \in up
  /\ listed' = [listed EXCEPT ![r] = Append(@, s)]
  /\ stream' = [stream EXCEPT ![s].pc = "serving", ![s].at = r, ![s].since = rows]
  /\ UNCHANGED <<rows, up, fan>>

\* The loop takes a row from the channel and sends it to the client.
Send(s) ==
  /\ stream[s].pc = "serving"
  /\ stream[s].chan # <<>>
  /\ stream' = [stream EXCEPT ![s].chan = Tail(@), ![s].got = Append(@, Head(stream[s].chan))]
  /\ UNCHANGED <<rows, up, listed, fan>>

\* The context is done or a send fails: the loop returns, cancel is deferred.
Leave(s) ==
  /\ stream[s].pc = "serving"
  /\ stream' = [stream EXCEPT ![s].pc = "leaving"]
  /\ UNCHANGED <<rows, up, listed, fan>>

\* cancel: under subsMu the entry is found and removed, and the channel closed.
Cancel(s) ==
  /\ stream[s].pc = "leaving"
  /\ LET r == stream[s].at IN
     \E i \in DOMAIN listed[r] : listed[r][i] = s /\ listed' = [listed EXCEPT ![r] = RemoveAt(@, i)]
  /\ stream' = [stream EXCEPT ![s].pc = "ended"]
  /\ UNCHANGED <<rows, up, fan>>
-----------------------------------------------------------------------------
\* An update served by a replica puts the next row.
PutRow(u, r) ==
  /\ fan[u].pc = "idle"
  /\ r \in up
  /\ rows' = rows + 1
  /\ fan' = [fan EXCEPT ![u].pc = "put", ![u].at = r, ![u].row = rows + 1]
  /\ UNCHANGED <<up, listed, stream>>

\* fanout copies the list under subsMu and unlocks.
FanCopy(u) ==
  /\ fan[u].pc = "put"
  /\ fan' = [fan EXCEPT ![u].pc = "sending", ![u].todo = listed[fan[u].at]]
  /\ UNCHANGED <<rows, up, listed, stream>>

\* A send to the next channel of the copy, open: dropped when it is full.
FanSend(u) ==
  /\ fan[u].pc = "sending"
  /\ fan[u].todo # <<>>
  /\ LET s == Head(fan[u].todo) IN
       /\ stream[s].pc # "ended"
       /\ stream' = IF Len(stream[s].chan) < Room
                      THEN [stream EXCEPT ![s].chan = Append(@, fan[u].row)]
                      ELSE [stream EXCEPT ![s].lost = @ \cup {fan[u].row}]
  /\ fan' = [fan EXCEPT ![u].todo = Tail(@)]
  /\ UNCHANGED <<rows, up, listed>>

\* The channel was closed after the copy was made: the send panics and takes
\* the process down, with its streams, its lists and its other updates.
FanPanic(u) ==
  /\ fan[u].pc = "sending"
  /\ fan[u].todo # <<>>
  /\ stream[Head(fan[u].todo)].pc = "ended"
  /\ LET r == fan[u].at IN
       /\ up' = up \ {r}
       /\ listed' = [listed EXCEPT ![r] = <<>>]
       /\ stream' = [s \in Streams |-> IF stream[s].at = r THEN [stream[s] EXCEPT !.pc = "ended"]
                                                           ELSE stream[s]]
       /\ fan' = [v \in Updates |-> IF fan[v].at = r
                                      THEN [fan[v] EXCEPT !.pc = "done", !.todo = <<>>]
                                      ELSE fan[v]]
  /\ UNCHANGED rows

FanReturn(u) ==
  /\ fan[u].pc = "sending"
  /\ fan[u].todo = <<>>
  /\ fan' = [fan EXCEPT ![u].pc = "done"]
  /\ UNCHANGED <<rows, up, listed, stream>>

\* The pod is restarted.
Restart(r) ==
  /\ r \notin up
  /\ up' = up \cup {r}
  /\ UNCHANGED <<rows, listed, stream, fan>>

StreamStep(s) ==
  (\E r \in Replicas : Subscribed(s, r)) \/ Send(s) \/ Leave(s) \/ Cancel(s)

FanStep(u) ==
  (\E r \in Replicas : PutRow(u, r)) \/ FanCopy(u) \/ FanSend(u) \/ FanPanic(u) \/ FanReturn(u)

SubscriptionsNext ==
  \/ \E s \in Streams : StreamStep(s)
  \/ \E u \in Updates : FanStep(u)
  \/ \E r \in Replicas : Restart(r)

SubscriptionsSpec == SubscriptionsInit /\ [][SubscriptionsNext]_subscriptionVars
-----------------------------------------------------------------------------
SubscriptionsTypeOK ==
  /\ rows \in Nat
  /\ up \subseteq Replicas
  /\ listed \in [Replicas -> Seq(Streams)]
  /\ stream \in [Streams -> StreamState]
  /\ fan \in [Updates -> FanState]

\* A stream that is served misses a row put after it subscribed only when it
\* was slow, or when the row was put by another replica (subscribe, cancel and
\* fanout share a slice that cancel edits in place).
RowsReachLocalStreams ==
  \A s \in Streams, u \in Updates :
    /\ stream[s].pc = "serving" /\ fan[u].pc = "done"
    /\ fan[u].at = stream[s].at /\ fan[u].row > stream[s].since
    => fan[u].row \in ToSet(stream[s].got) \cup ToSet(stream[s].chan) \cup stream[s].lost

\* A replica lists exactly the channels of the streams it has not let go: none
\* leaks when a stream ends, whatever the order they end in (cancel).
NoLeakedSubscription ==
  \A r \in Replicas :
    /\ ToSet(listed[r]) = {s \in Streams : stream[s].at = r /\ stream[s].pc \in {"serving", "leaving"}}
    /\ IsInjective(listed[r])

\* The comment in fanout: what a subscriber does not take is dropped.  A client
\* that goes away never takes the replica down.
ReplicasSurviveSubscribers == up = Replicas
=============================================================================
