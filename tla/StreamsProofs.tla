---------------------------- MODULE StreamsProofs ---------------------------
(***************************************************************************)
(* The two programs that push to the browser: the poller of the monitor, for *)
(* every set of services and clients and every channel capacity, and the   *)
(* status subscriptions of document-resolver, below.                       *)
(***************************************************************************)
EXTENDS MonitorPoller, StatusSubscriptions, SequenceTheorems, TLAPS

\* A client is on the list exactly while its handler runs.
ListInv == \A c \in Clients : c \in subs <=> client[c].pc \in {"subscribed", "streaming"}

\* The channels fanOut still has to serve are listed: it holds the lock.
TodoInv == poller.todo \subseteq subs /\ (poller.pc # "fanout" => poller.todo = {})

ResultsInv ==
  /\ \A s \in poller.done : poller.pc = "probing" => poller.results[s] = poller.tick
  /\ latest.tick <= poller.tick
  /\ poller.pc = "probing" => latest.tick < poller.tick

\* The latest snapshot is still on its way to c's channel.
Pending(c) == poller.pc = "publish" \/ (poller.pc = "fanout" /\ c \in poller.todo)

\* `tick` is in c's past: not later than the latest snapshot, and earlier while
\* that one is on its way.
Behind(c, tick) == tick <= latest.tick /\ (Pending(c) => tick < latest.tick)

ChanInv(c) ==
  /\ \A i, j \in DOMAIN client[c].chan : i < j => client[c].chan[i].tick < client[c].chan[j].tick
  /\ \A i \in DOMAIN client[c].chan : Behind(c, client[c].chan[i].tick)

\* From the second snapshot shown on, what was shown is older than what waits.
ShownInv(c) ==
  /\ client[c].pc \in {"idle", "subscribed"} => client[c].shown = <<>>
  /\ client[c].pc = "streaming" => client[c].shown # <<>>
  /\ Len(client[c].shown) >= 2 =>
       LET last == client[c].shown[Len(client[c].shown)] IN
         /\ Behind(c, last)
         /\ \A i \in DOMAIN client[c].chan : last < client[c].chan[i].tick
  /\ \A i \in 2..Len(client[c].shown) - 1 : client[c].shown[i] < client[c].shown[i+1]

OrderInv == \A c \in Clients : ChanInv(c) /\ ShownInv(c)

PollerInv == PollerTypeOK /\ ListInv /\ TodoInv /\ ResultsInv /\ SnapshotsAreWhole /\ OrderInv
-----------------------------------------------------------------------------
LEMMA InitInv == PollerInit => PollerInv
  BY PollerAssumption DEF PollerInit, PollerInv, PollerTypeOK, ListInv, TodoInv, ResultsInv,
     SnapshotsAreWhole, OrderInv, ChanInv, ShownInv, Behind, Pending, Unprobed, Snapshot, ClientState

LEMMA ClientEdits ==
  ASSUME NEW k \in ClientState
  PROVE  /\ \A p \in {"idle", "subscribed", "streaming", "gone", "closed"} :
              [k EXCEPT !.pc = p] \in ClientState
         /\ \A q \in Seq(Snapshot) : [k EXCEPT !.chan = q] \in ClientState
         /\ \A p \in {"streaming"}, t \in Nat :
              [k EXCEPT !.pc = p, !.shown = Append(@, t)] \in ClientState
         /\ k.chan # <<>> => /\ Head(k.chan) \in Snapshot
                             /\ \A t \in Nat : [k EXCEPT !.chan = Tail(@), !.shown = Append(@, t)] \in ClientState
<1> USE DEF ClientState
<1>1. \A p \in {"idle", "subscribed", "streaming", "gone", "closed"} :
        [k EXCEPT !.pc = p] \in ClientState
  OBVIOUS
<1>2. \A q \in Seq(Snapshot) : [k EXCEPT !.chan = q] \in ClientState
  OBVIOUS
<1>3. ASSUME NEW p \in {"streaming"}, NEW t \in Nat
      PROVE  [k EXCEPT !.pc = p, !.shown = Append(@, t)] \in ClientState
  <2>1. Append(k.shown, t) \in Seq(Nat)
    OBVIOUS
  <2> QED BY <2>1
<1>4. ASSUME k.chan # <<>>, NEW t \in Nat
      PROVE  /\ Head(k.chan) \in Snapshot
             /\ [k EXCEPT !.chan = Tail(@), !.shown = Append(@, t)] \in ClientState
  <2>1. Append(k.shown, t) \in Seq(Nat) /\ Tail(k.chan) \in Seq(Snapshot)
    BY <1>4
  <2>2. Head(k.chan) \in Snapshot
    BY <1>4
  <2>3. [k EXCEPT !.chan = Tail(@), !.shown = Append(@, t)] \in ClientState
    BY <2>1
  <2> QED BY <2>2, <2>3
<1> QED BY <1>1, <1>2, <1>3, <1>4

LEMMA Ticks ==
  ASSUME NEW q \in Seq(Snapshot)
  PROVE  \A i \in DOMAIN q : q[i] \in Snapshot /\ q[i].tick \in Nat
<1> SUFFICES ASSUME NEW i \in DOMAIN q PROVE q[i] \in Snapshot /\ q[i].tick \in Nat
  OBVIOUS
<1>1. q[i] \in Snapshot
  OBVIOUS
<1> QED BY <1>1 DEF Snapshot

LEMMA TypeStep == PollerTypeOK /\ [PollerNext]_pollerVars => PollerTypeOK'
<1> SUFFICES ASSUME PollerTypeOK, [PollerNext]_pollerVars PROVE PollerTypeOK'
  OBVIOUS
<1> USE PollerAssumption DEF PollerTypeOK
<1>1. CASE Tick
  <2>1. Unprobed \in [Services -> Nat] /\ poller.tick + 1 \in Nat
    BY DEF Unprobed
  <2>2. poller' = [ pc |-> "probing", tick |-> poller.tick + 1, results |-> Unprobed,
                    done |-> {}, todo |-> poller.todo ]
    BY <1>1 DEF Tick
  <2> QED BY <1>1, <2>1, <2>2 DEF Tick
<1>2. ASSUME NEW s \in Services, Probe(s) PROVE PollerTypeOK'
  BY <1>2 DEF Probe
<1>3. CASE Publish
  <2>1. latest' \in Snapshot
    BY <1>3 DEF Publish, Snapshot
  <2> QED BY <1>3, <2>1 DEF Publish
<1>4. CASE FanOutLock
  BY <1>4 DEF FanOutLock
<1>5. CASE FanOutSend
  <2>1. PICK c \in poller.todo :
          /\ client' = [client EXCEPT ![c].chan = IF Len(@) < Capacity THEN Append(@, latest) ELSE @]
          /\ poller' = [poller EXCEPT !.todo = @ \ {c}]
    BY <1>5 DEF FanOutSend
  <2>2. client[c].chan \in Seq(Snapshot)
    BY DEF ClientState
  <2>3. client' \in [Clients -> ClientState]
    <3>1. (IF Len(client[c].chan) < Capacity THEN Append(client[c].chan, latest)
                                             ELSE client[c].chan) \in Seq(Snapshot)
      BY <2>2
    <3> QED BY <2>1, <3>1, ClientEdits
  <2> QED BY <1>5, <2>1, <2>3 DEF FanOutSend
<1>6. CASE FanOutDone
  BY <1>6 DEF FanOutDone
<1>7. ASSUME NEW c \in Clients, ClientStep(c) PROVE PollerTypeOK'
  <2>1. CASE Subscribe(c)
    BY <2>1, ClientEdits DEF Subscribe
  <2>2. CASE WriteCurrent(c)
    <3>1. latest.tick \in Nat
      BY DEF Snapshot
    <3> QED BY <2>2, <3>1, ClientEdits DEF WriteCurrent
  <2>3. CASE WriteNext(c)
    <3>1. Head(client[c].chan).tick \in Nat
      BY <2>3, ClientEdits DEF WriteNext, Snapshot
    <3> QED BY <2>3, <3>1, ClientEdits DEF WriteNext
  <2>4. CASE Unsubscribe(c)
    BY <2>4, ClientEdits DEF Unsubscribe
  <2>5. CASE Close(c)
    BY <2>5, ClientEdits DEF Close
  <2> QED BY <1>7, <2>1, <2>2, <2>3, <2>4, <2>5 DEF ClientStep
<1>8. CASE UNCHANGED pollerVars
  BY <1>8 DEF pollerVars
<1> QED BY <1>1, <1>2, <1>3, <1>4, <1>5, <1>6, <1>7, <1>8 DEF PollerNext, PollerStep

-----------------------------------------------------------------------------
(***************************************************************************)
(* The list and the lock.                                                  *)
(***************************************************************************)
ListsInv == ListInv /\ TodoInv

LEMMA ListsStep ==
  ASSUME PollerTypeOK, ListsInv, [PollerNext]_pollerVars
  PROVE  ListsInv'
<1> USE DEF ListsInv, ListInv, TodoInv, PollerTypeOK
<1>0. \A c \in Clients : client[c] \in [ pc: {"idle", "subscribed", "streaming", "gone", "closed"},
                                         chan: Seq(Snapshot), shown: Seq(Nat) ]
  BY DEF ClientState
<1>1. CASE PollerStep
  <2>1. CASE Tick \/ (\E s \in Services : Probe(s)) \/ Publish
    BY <2>1 DEF Tick, Probe, Publish
  <2>2. CASE FanOutLock
    BY <2>2 DEF FanOutLock
  <2>3. CASE FanOutSend
    BY <1>0, <2>3 DEF FanOutSend
  <2>4. CASE FanOutDone
    BY <2>4 DEF FanOutDone
  <2> QED BY <1>1, <2>1, <2>2, <2>3, <2>4 DEF PollerStep
<1>2. ASSUME NEW c \in Clients, ClientStep(c) PROVE ListsInv'
  BY <1>0, <1>2 DEF ClientStep, Subscribe, WriteCurrent, WriteNext, Unsubscribe, Close, Unlocked
<1>3. CASE UNCHANGED pollerVars
  BY <1>3 DEF pollerVars
<1> QED BY <1>1, <1>2, <1>3 DEF PollerNext

(***************************************************************************)
(* Snapshots are whole.                                                    *)
(***************************************************************************)
WholeInv == ResultsInv /\ SnapshotsAreWhole

LEMMA WholeStep ==
  ASSUME PollerTypeOK, WholeInv, [PollerNext]_pollerVars
  PROVE  WholeInv'
<1> USE DEF WholeInv, ResultsInv, SnapshotsAreWhole, PollerTypeOK
<1>0. /\ latest.tick \in Nat /\ latest.services \in [Services -> Nat]
      /\ \A c \in Clients : client[c].chan \in Seq(Snapshot)
  BY DEF Snapshot, ClientState
<1>1. CASE Tick
  BY <1>0, <1>1 DEF Tick
<1>2. ASSUME NEW s \in Services, Probe(s) PROVE WholeInv'
  BY <1>0, <1>2 DEF Probe
<1>3. CASE Publish
  BY <1>0, <1>3 DEF Publish
<1>4. CASE FanOutLock
  BY <1>0, <1>4 DEF FanOutLock
<1>5. CASE FanOutSend
  <2>1. PICK c \in poller.todo :
          /\ client' = [client EXCEPT ![c].chan = IF Len(@) < Capacity THEN Append(@, latest) ELSE @]
          /\ poller' = [poller EXCEPT !.todo = @ \ {c}]
    BY <1>5 DEF FanOutSend
  <2>2. \A i \in DOMAIN client'[c].chan :
          client'[c].chan[i] = latest \/ (i \in DOMAIN client[c].chan /\ client'[c].chan[i] = client[c].chan[i])
    BY <1>0, <2>1
  <2>3. \A e \in Clients : e # c => client'[e] = client[e]
    BY <2>1
  <2> QED BY <1>5, <2>1, <2>2, <2>3 DEF FanOutSend
<1>6. CASE FanOutDone
  BY <1>0, <1>6 DEF FanOutDone
<1>7. ASSUME NEW c \in Clients, ClientStep(c) PROVE WholeInv'
  <2>1. CASE WriteNext(c)
    <3>1. \A i \in DOMAIN client'[c].chan : /\ i + 1 \in DOMAIN client[c].chan
                                           /\ client'[c].chan[i] = client[c].chan[i + 1]
      BY <1>0, <2>1 DEF WriteNext
    <3>2. \A e \in Clients : e # c => client'[e] = client[e]
      BY <2>1 DEF WriteNext
    <3> QED BY <1>0, <2>1, <3>1, <3>2 DEF WriteNext
  <2>2. CASE ~WriteNext(c)
    <3>1. \A e \in Clients : client'[e].chan = client[e].chan
      <4>1. \A e \in Clients : e # c => client'[e] = client[e]
        BY <1>7, <2>2 DEF ClientStep, Subscribe, WriteCurrent, Unsubscribe, Close
      <4>2. client'[c].chan = client[c].chan
        BY <1>7, <2>2 DEF ClientStep, Subscribe, WriteCurrent, Unsubscribe, Close, ClientState
      <4> QED BY <4>1, <4>2
    <3> QED BY <1>7, <2>2, <3>1 DEF ClientStep, Subscribe, WriteCurrent, Unsubscribe, Close
  <2> QED BY <2>1, <2>2
<1>8. CASE UNCHANGED pollerVars
  BY <1>8 DEF pollerVars
<1> QED BY <1>1, <1>2, <1>3, <1>4, <1>5, <1>6, <1>7, <1>8 DEF PollerNext, PollerStep

-----------------------------------------------------------------------------
(***************************************************************************)
(* What a client is shown moves forward.                                   *)
(***************************************************************************)
\* Nothing changes for a client whose record stays and for whom what was
\* behind stays behind.
LEMMA OrderKept ==
  ASSUME NEW c \in Clients, ChanInv(c), ShownInv(c), client'[c] = client[c],
         client[c] \in ClientState,
         \A t \in Nat : Behind(c, t) => Behind(c, t)'
  PROVE  ChanInv(c)' /\ ShownInv(c)'
<1>1. \A i \in DOMAIN client[c].chan : client[c].chan[i].tick \in Nat
  BY Ticks DEF ClientState
<1>2. ChanInv(c)'
  BY <1>1 DEF ChanInv
<1>3. Len(client[c].shown) >= 2 => client[c].shown[Len(client[c].shown)] \in Nat
  BY DEF ClientState
<1>4. ShownInv(c)'
  BY <1>3 DEF ShownInv
<1> QED BY <1>2, <1>4

LEMMA OrderStep ==
  ASSUME PollerTypeOK, ListsInv, WholeInv, OrderInv, [PollerNext]_pollerVars
  PROVE  OrderInv'
<1>0. /\ latest \in Snapshot /\ latest.tick \in Nat /\ poller.tick \in Nat
      /\ \A c \in Clients : client[c] \in ClientState
  BY DEF PollerTypeOK, Snapshot
<1> SUFFICES ASSUME NEW c \in Clients PROVE ChanInv(c)' /\ ShownInv(c)'
  BY DEF OrderInv
<1>a. ChanInv(c) /\ ShownInv(c)
  BY DEF OrderInv
<1>1. CASE Tick \/ (\E s \in Services : Probe(s)) \/ UNCHANGED pollerVars
  <2>1. client' = client /\ latest' = latest
    BY <1>1 DEF Tick, Probe, pollerVars
  <2>2. Pending(c)' => Pending(c)
    BY <1>1 DEF Tick, Probe, pollerVars, Pending, PollerTypeOK
  <2> QED BY <1>0, <1>a, <2>1, <2>2, OrderKept DEF Behind
<1>2. CASE Publish
  <2>1. client' = client /\ latest'.tick = poller.tick /\ latest.tick < poller.tick
    BY <1>2 DEF Publish, WholeInv, ResultsInv
  <2> QED BY <1>0, <1>a, <2>1, OrderKept DEF Behind
<1>3. CASE FanOutLock
  <2>1. client' = client /\ latest' = latest /\ Pending(c)
    BY <1>3 DEF FanOutLock, Pending
  <2> QED BY <1>0, <1>a, <2>1, OrderKept DEF Behind
<1>4. CASE FanOutDone
  <2>1. client' = client /\ latest' = latest /\ ~Pending(c)'
    BY <1>4 DEF FanOutDone, Pending, PollerTypeOK
  <2> QED BY <1>0, <1>a, <2>1, OrderKept DEF Behind
<1>5. CASE FanOutSend
  <2>1. PICK e \in poller.todo :
          /\ client' = [client EXCEPT ![e].chan = IF Len(@) < Capacity THEN Append(@, latest) ELSE @]
          /\ poller' = [poller EXCEPT !.todo = @ \ {e}]
          /\ latest' = latest
    BY <1>5 DEF FanOutSend
  <2>2. poller.pc = "fanout" /\ poller'.pc = "fanout" /\ poller'.todo = poller.todo \ {e}
    BY <1>5, <2>1 DEF PollerTypeOK, FanOutSend
  <2>3. Pending(c)' => Pending(c)
    BY <2>2 DEF Pending
  <2>4. CASE c # e \/ ~(Len(client[e].chan) < Capacity)
    <3>1. client'[c] = client[c]
      BY <1>0, <2>1, <2>4 DEF PollerTypeOK, ClientState
    <3> QED BY <1>0, <1>a, <2>1, <2>3, <3>1, OrderKept DEF Behind
  <2>5. CASE c = e /\ Len(client[e].chan) < Capacity
    <3> DEFINE q == client[c].chan
    <3>1. q \in Seq(Snapshot) /\ client'[c].chan = Append(q, latest)
      BY <1>0, <2>1, <2>5 DEF PollerTypeOK, ClientState
    <3>2. client'[c].shown = client[c].shown /\ client'[c].pc = client[c].pc
      BY <1>0, <2>1, <2>5 DEF PollerTypeOK, ClientState
    <3>3. Pending(c) /\ ~Pending(c)'
      BY <2>2, <2>5, <2>1 DEF Pending
    <3>4. \A i \in DOMAIN q : q[i].tick \in Nat /\ q[i].tick < latest.tick
      BY <1>a, <3>1, <3>3, Ticks DEF ChanInv, Behind
    <3>5. \A i \in DOMAIN client'[c].chan :
            \/ i \in DOMAIN q /\ client'[c].chan[i] = q[i]
            \/ i = Len(q) + 1 /\ client'[c].chan[i] = latest
      BY <3>1
    <3>6. ChanInv(c)'
      BY <1>0, <1>a, <2>1, <3>1, <3>3, <3>4, <3>5 DEF ChanInv, Behind
    <3>7. ShownInv(c)'
      <4>1. Len(client[c].shown) >= 2 =>
              /\ client[c].shown[Len(client[c].shown)] \in Nat
              /\ client[c].shown[Len(client[c].shown)] < latest.tick
        BY <1>0, <1>a, <3>3 DEF ShownInv, Behind, ClientState
      <4> QED BY <1>0, <1>a, <2>1, <3>2, <3>3, <3>5, <4>1 DEF ShownInv, Behind
    <3> QED BY <3>6, <3>7
  <2> QED BY <2>4, <2>5
<1>6. ASSUME NEW e \in Clients, ClientStep(e) PROVE ChanInv(c)' /\ ShownInv(c)'
  <2>1. poller' = poller /\ latest' = latest /\ (Pending(c)' <=> Pending(c))
    BY <1>6 DEF ClientStep, Subscribe, WriteCurrent, WriteNext, Unsubscribe, Close, Pending
  <2>2. CASE c # e
    <3>1. client'[c] = client[c]
      BY <1>6, <2>2 DEF ClientStep, Subscribe, WriteCurrent, WriteNext, Unsubscribe, Close, PollerTypeOK
    <3> QED BY <1>0, <1>a, <2>1, <3>1, OrderKept DEF Behind
  <2>3. CASE c = e
    <3> DEFINE q == client[c].chan
               o == client[c].shown
    <3>0. client[c] \in ClientState /\ q \in Seq(Snapshot) /\ o \in Seq(Nat)
      BY <1>0 DEF ClientState
    <3>1. CASE Subscribe(c) \/ Unsubscribe(c) \/ Close(c)
      <4>1. client'[c].chan = q /\ client'[c].shown = o
        BY <1>0, <3>1 DEF Subscribe, Unsubscribe, Close, PollerTypeOK, ClientState
      <4>2. client'[c].pc = "subscribed" => client[c].pc = "idle"
        BY <1>0, <3>1 DEF Subscribe, Unsubscribe, Close, PollerTypeOK, ClientState
      <4>3. client'[c].pc \notin {"streaming", "idle"}
        BY <1>0, <3>1 DEF Subscribe, Unsubscribe, Close, PollerTypeOK, ClientState
      <4> QED BY <1>a, <2>1, <4>1, <4>2, <4>3 DEF ChanInv, ShownInv, Behind
    <3>2. CASE WriteCurrent(c)
      <4>1. client'[c].chan = q /\ client'[c].shown = <<latest.tick>> /\ client'[c].pc = "streaming"
        BY <1>0, <1>a, <3>0, <3>2 DEF WriteCurrent, PollerTypeOK, ClientState, ShownInv
      <4> QED BY <1>a, <2>1, <4>1 DEF ChanInv, ShownInv, Behind
    <3>3. CASE WriteNext(c)
      <4>1. q # <<>> /\ o # <<>> /\ client[c].pc = "streaming"
        BY <1>a, <3>3 DEF WriteNext, ShownInv
      <4>2. client'[c].chan = Tail(q) /\ client'[c].shown = Append(o, q[1].tick) /\ client'[c].pc = "streaming"
        BY <1>0, <3>0, <3>3, <4>1 DEF WriteNext, PollerTypeOK, ClientState
      <4>3. \A i \in DOMAIN q : q[i].tick \in Nat
        BY <3>0, Ticks
      <4>4. \A i \in DOMAIN Tail(q) : i + 1 \in DOMAIN q /\ Tail(q)[i] = q[i+1]
        BY <3>0, <4>1
      <4>5. ChanInv(c)'
        <5>1. DOMAIN Tail(q) = 1..Len(Tail(q)) /\ \A i \in DOMAIN Tail(q) : i \in Nat
          BY <3>0, <4>1
        <5>2. \A i, j \in DOMAIN Tail(q) : i < j => Tail(q)[i].tick < Tail(q)[j].tick
          BY <1>a, <4>4, <5>1 DEF ChanInv
        <5>3. \A i \in DOMAIN Tail(q) : Behind(c, Tail(q)[i].tick)
          BY <1>a, <4>4 DEF ChanInv
        <5> QED BY <2>1, <4>2, <5>2, <5>3 DEF ChanInv, Behind
      <4>6. 1 \in DOMAIN q /\ Behind(c, q[1].tick)
        BY <1>a, <3>0, <4>1 DEF ChanInv
      <4>7. \A i \in DOMAIN Tail(q) : q[1].tick < Tail(q)[i].tick
        <5>1. \A i \in DOMAIN Tail(q) : i \in Nat /\ 1 < i + 1
          BY <3>0, <4>1
        <5> QED BY <1>a, <4>4, <4>6, <5>1 DEF ChanInv
      <4>8. \A i \in 2..Len(o) : Append(o, q[1].tick)[i] < Append(o, q[1].tick)[i+1]
        <5>1. /\ \A i \in 1..Len(o) : Append(o, q[1].tick)[i] = o[i]
              /\ Append(o, q[1].tick)[Len(o) + 1] = q[1].tick
          BY <3>0, <4>3, <4>6
        <5>2. \A i \in 2..Len(o) - 1 : o[i] < o[i+1]
          BY <1>a DEF ShownInv
        <5>3. Len(o) >= 2 => o[Len(o)] < q[1].tick
          BY <1>a, <3>0, <4>1, <4>6 DEF ShownInv, Behind
        <5> QED BY <3>0, <5>1, <5>2, <5>3
      <4>9. /\ Len(Append(o, q[1].tick)) = Len(o) + 1
            /\ Append(o, q[1].tick)[Len(o) + 1] = q[1].tick
        BY <3>0, <4>3, <4>6
      <4>10. ShownInv(c)'
        <5>1. client'[c].shown # <<>>
          BY <3>0, <4>2, <4>3, <4>6
        <5>5. client'[c].shown[Len(client'[c].shown)] = q[1].tick
          BY <4>2, <4>9
        <5>2. \A i \in 2..Len(client'[c].shown) - 1 : client'[c].shown[i] < client'[c].shown[i+1]
          BY <3>0, <4>2, <4>8, <4>9
        <5>3. \A i \in DOMAIN client'[c].chan : q[1].tick < client'[c].chan[i].tick
          BY <4>2, <4>7
        <5>4. q[1].tick <= latest'.tick /\ (Pending(c)' => q[1].tick < latest'.tick)
          BY <2>1, <4>6 DEF Behind
        <5> QED BY <4>2, <5>1, <5>2, <5>3, <5>4, <5>5 DEF ShownInv, Behind
      <4> QED BY <4>5, <4>10
    <3> QED BY <1>6, <2>3, <3>1, <3>2, <3>3 DEF ClientStep
  <2> QED BY <2>2, <2>3
<1> QED BY <1>1, <1>2, <1>3, <1>4, <1>5, <1>6 DEF PollerNext, PollerStep

-----------------------------------------------------------------------------
LEMMA Invariance == PollerSpec => []PollerInv
<1>1. PollerInv /\ [PollerNext]_pollerVars => PollerInv'
  BY TypeStep, ListsStep, WholeStep, OrderStep DEF PollerInv, ListsInv, WholeInv
<1> QED BY InitInv, <1>1, PTL DEF PollerSpec

\* The state of poller, clients and channels keeps its type.
THEOREM PollerTypeCorrect == PollerSpec => []PollerTypeOK
  BY Invariance, PTL DEF PollerInv

\* fanOut sends on no closed channel, for any number of clients that come and
\* go at any moment: Unsubscribe deletes under the lock fanOut holds.
THEOREM NeverSendsOnClosedChannel == PollerSpec => []NoSendOnClosedChannel
<1>1. PollerInv => NoSendOnClosedChannel
  BY DEF PollerInv, PollerTypeOK, ListInv, TodoInv, NoSendOnClosedChannel
<1> QED BY Invariance, <1>1, PTL

\* No snapshot the monitor serves or queues mixes two polls.
THEOREM SnapshotsStayWhole == PollerSpec => []SnapshotsAreWhole
  BY Invariance, PTL DEF PollerInv

\* What a client is shown after the greeting moves to later polls only, for
\* every channel capacity and however slowly it reads.
THEOREM StreamsMoveForward == PollerSpec => []StreamMovesForward
<1>1. PollerInv => StreamMovesForward
  BY DEF PollerInv, OrderInv, ShownInv, StreamMovesForward
<1> QED BY Invariance, <1>1, PTL

-----------------------------------------------------------------------------
(***************************************************************************)
(* What the subscription lists of document-resolver keep, for any number   *)
(* of replicas, streams and updates and any room in a channel.             *)
(***************************************************************************)
Has(q, e) == \E i \in DOMAIN q : q[i] = e

\* A stream that has subscribed and not cancelled yet.
Held(s) == stream[s].pc \in {"serving", "leaving"}

\* A replica's list holds each channel of its streams once, and no other.
ListsAreExact ==
  \A r \in Replicas :
    /\ \A s \in Streams : Has(listed[r], s) <=> stream[s].at = r /\ Held(s)
    /\ \A i, j \in DOMAIN listed[r] : listed[r][i] = listed[r][j] => i = j

\* Rows are counted up, so a stream subscribes after those that were put.
RowsAreCounted ==
  /\ \A s \in Streams : stream[s].since <= rows
  /\ \A u \in Updates : fan[u].row <= rows

Delivered(s, row) ==
  Has(stream[s].got, row) \/ Has(stream[s].chan, row) \/ row \in stream[s].lost

\* An update that has its copy of the list has sent its row to a stream that
\* was there before, or will.
RowsComeThrough ==
  \A s \in Streams, u \in Updates :
    stream[s].pc = "serving" /\ fan[u].at = stream[s].at /\ fan[u].row > stream[s].since
      => /\ fan[u].pc = "sending" => Has(fan[u].todo, s) \/ Delivered(s, fan[u].row)
         /\ fan[u].pc = "done" => Delivered(s, fan[u].row)

\* What is idle is nowhere.
IdleIsNowhere ==
  /\ \A s \in Streams : Held(s) => stream[s].at \in Replicas
  /\ \A u \in Updates : IF fan[u].pc = "idle" THEN fan[u].row = 0 ELSE fan[u].at \in Replicas

SubscriptionsInv ==
  SubscriptionsTypeOK /\ ListsAreExact /\ RowsAreCounted /\ RowsComeThrough /\ IdleIsNowhere
-----------------------------------------------------------------------------
\* What append, a receive and cancel make of a list.
LEMMA AppendHas ==
  ASSUME NEW S, NEW q \in Seq(S), NEW e \in S
  PROVE  /\ Append(q, e) \in Seq(S)
         /\ \A x : Has(Append(q, e), x) <=> Has(q, x) \/ x = e
         /\ (\A i, j \in DOMAIN q : q[i] = q[j] => i = j) /\ ~Has(q, e)
              => \A i, j \in DOMAIN Append(q, e) : Append(q, e)[i] = Append(q, e)[j] => i = j
<1>1. Append(q, e) \in Seq(S) /\ Len(q) \in Nat /\ DOMAIN q = 1..Len(q) /\ DOMAIN Append(q, e) = 1..Len(q) + 1
  OBVIOUS
<1>2. (\A i \in 1..Len(q) : Append(q, e)[i] = q[i]) /\ Append(q, e)[Len(q) + 1] = e
  OBVIOUS
<1>3. \A i \in 1..Len(q) + 1 : i \in 1..Len(q) \/ i = Len(q) + 1
  BY <1>1
<1> QED BY <1>1, <1>2, <1>3 DEF Has

LEMMA TailHas ==
  ASSUME NEW S, NEW q \in Seq(S), q # <<>>
  PROVE  /\ Head(q) \in S /\ Tail(q) \in Seq(S)
         /\ \A x : Has(q, x) <=> Has(Tail(q), x) \/ x = Head(q)
<1>1. Head(q) \in S /\ Tail(q) \in Seq(S) /\ Len(q) \in Nat \ {0} /\ DOMAIN q = 1..Len(q)
      /\ DOMAIN Tail(q) = 1..Len(q) - 1
  OBVIOUS
<1>2. (\A i \in 1..Len(q) - 1 : Tail(q)[i] = q[i + 1]) /\ Head(q) = q[1]
  OBVIOUS
<1>3. \A i \in 1..Len(q) : i = 1 \/ (i - 1 \in 1..Len(q) - 1 /\ (i - 1) + 1 = i)
  BY <1>1
<1>4. \A i \in 1..Len(q) - 1 : i + 1 \in 1..Len(q)
  BY <1>1
<1>5. PICK t : t = Tail(q)
  OBVIOUS
<1>6. ASSUME NEW x, NEW i \in 1..Len(q), q[i] = x PROVE Has(t, x) \/ x = Head(q)
  BY <1>1, <1>2, <1>3, <1>5, <1>6 DEF Has
<1>7. ASSUME NEW x, NEW i \in 1..Len(q) - 1, t[i] = x PROVE Has(q, x)
  BY <1>1, <1>2, <1>4, <1>5, <1>7 DEF Has
<1>8. Has(q, Head(q))
  <2>1. 1 \in DOMAIN q
    BY <1>1
  <2> QED BY <1>2, <2>1 DEF Has
<1>9. \A x : Has(q, x) <=> Has(t, x) \/ x = Head(q)
  BY <1>1, <1>5, <1>6, <1>7, <1>8 DEF Has
<1> QED BY <1>1, <1>5, <1>9

LEMMA RemoveAtHas ==
  ASSUME NEW S, NEW q \in Seq(S), NEW k \in DOMAIN q, \A i, j \in DOMAIN q : q[i] = q[j] => i = j
  PROVE  /\ RemoveAt(q, k) \in Seq(S)
         /\ \A x : Has(RemoveAt(q, k), x) <=> Has(q, x) /\ x # q[k]
         /\ \A i, j \in DOMAIN RemoveAt(q, k) : RemoveAt(q, k)[i] = RemoveAt(q, k)[j] => i = j
<1> DEFINE before == SubSeq(q, 1, k - 1)
           after == SubSeq(q, k + 1, Len(q))
           rest == before \o after
           from(i) == IF i < k THEN i ELSE i + 1
<1>1. Len(q) \in Nat /\ DOMAIN q = 1..Len(q) /\ k \in 1..Len(q)
  OBVIOUS
<1>2. before \in Seq(S) /\ Len(before) = k - 1 /\ \A i \in 1..k - 1 : before[i] = q[i]
  <2>1. k - 1 \in Int /\ 1 \in Int /\ \A i \in 1..k - 1 : q[i] \in S
    BY <1>1
  <2>2. /\ before \in Seq(S) /\ Len(before) = IF 1 <= k - 1 THEN k - 1 - 1 + 1 ELSE 0
        /\ \A i \in 1..k - 1 - 1 + 1 : before[i] = q[1 + i - 1]
    BY <2>1, SubSeqProperties
  <2> HIDE DEF before
  <2> QED BY <1>1, <2>2
<1>3. after \in Seq(S) /\ Len(after) = Len(q) - k /\ \A i \in 1..Len(q) - k : after[i] = q[k + i]
  <2>1. k + 1 \in Int /\ Len(q) \in Int /\ \A i \in k + 1..Len(q) : q[i] \in S
    BY <1>1
  <2>2. /\ after \in Seq(S) /\ Len(after) = IF k + 1 <= Len(q) THEN Len(q) - (k + 1) + 1 ELSE 0
        /\ \A i \in 1..Len(q) - (k + 1) + 1 : after[i] = q[k + 1 + i - 1]
    BY <2>1, SubSeqProperties
  <2> HIDE DEF after
  <2>3. Len(q) - (k + 1) + 1 = Len(q) - k /\ Len(after) = Len(q) - k
    BY <1>1, <2>2
  <2>4. \A i \in 1..Len(q) - k : k + 1 + i - 1 = k + i
    BY <1>1
  <2> QED BY <2>2, <2>3, <2>4
<1>4. rest \in Seq(S) /\ Len(rest) = Len(q) - 1 /\ DOMAIN rest = 1..Len(q) - 1
      /\ \A i \in 1..Len(q) - 1 : rest[i] = IF i <= k - 1 THEN before[i] ELSE after[i - (k - 1)]
  <2> HIDE DEF before, after
  <2>1. Len(before) + Len(after) = Len(q) - 1
    BY <1>1, <1>2, <1>3
  <2>2. /\ rest \in Seq(S) /\ Len(rest) = Len(before) + Len(after)
        /\ \A i \in 1..Len(before) + Len(after) :
             rest[i] = IF i <= Len(before) THEN before[i] ELSE after[i - Len(before)]
    BY <1>2, <1>3, ConcatProperties
  <2> HIDE DEF rest
  <2>3. DOMAIN rest = 1..Len(rest)
    BY <2>2
  <2> QED BY <1>2, <2>1, <2>2, <2>3
<1>5. ASSUME NEW i \in 1..Len(q) - 1 PROVE rest[i] = q[from(i)]
  <2> HIDE DEF before, after, rest
  <2>1. CASE i < k
    BY <1>1, <1>2, <1>4, <2>1
  <2>2. CASE ~(i < k)
    <3>1. i - (k - 1) \in 1..Len(q) - k /\ k + (i - (k - 1)) = i + 1 /\ ~(i <= k - 1)
      BY <1>1, <2>2
    <3> QED BY <1>3, <1>4, <2>2, <3>1
  <2> QED BY <2>1, <2>2
<1>6. RemoveAt(q, k) = rest
  BY DEF RemoveAt
<1>7. \A i \in 1..Len(q) - 1 : from(i) \in 1..Len(q) /\ from(i) # k
  BY <1>1
<1>8. \A i, j \in 1..Len(q) - 1 : from(i) = from(j) => i = j
  BY <1>1
<1>9. \A j \in 1..Len(q) : j # k => \E i \in 1..Len(q) - 1 : from(i) = j
  <2>1. ASSUME NEW j \in 1..Len(q), j # k PROVE \E i \in 1..Len(q) - 1 : from(i) = j
    <3>1. CASE j < k
      BY <1>1, <3>1
    <3>2. CASE j > k
      <4>1. j - 1 \in 1..Len(q) - 1 /\ from(j - 1) = j
        BY <1>1, <3>2
      <4> QED BY <4>1
    <3> QED BY <1>1, <2>1, <3>1, <3>2
  <2> QED BY <2>1
<1>10. PICK t : t = rest
  OBVIOUS
<1> HIDE DEF rest
<1>11. DOMAIN t = 1..Len(q) - 1 /\ \A i \in 1..Len(q) - 1 : t[i] = q[from(i)]
  BY <1>4, <1>5, <1>10
<1>12. ASSUME NEW x, Has(t, x) PROVE Has(q, x) /\ x # q[k]
  <2>1. PICK i \in 1..Len(q) - 1 : x = q[from(i)]
    BY <1>11, <1>12 DEF Has
  <2> HIDE DEF from
  <2> QED BY <1>1, <1>7, <2>1 DEF Has
<1>13. ASSUME NEW x, Has(q, x), x # q[k] PROVE Has(t, x)
  <2>1. PICK j \in 1..Len(q) : j # k /\ q[j] = x
    BY <1>1, <1>13 DEF Has
  <2>2. PICK i \in 1..Len(q) - 1 : from(i) = j
    BY <1>9, <2>1
  <2> HIDE DEF from
  <2> QED BY <1>11, <2>1, <2>2 DEF Has
<1>14. ASSUME NEW i \in 1..Len(q) - 1, NEW j \in 1..Len(q) - 1, t[i] = t[j] PROVE i = j
  <2> HIDE DEF from
  <2> QED BY <1>1, <1>7, <1>8, <1>11, <1>14
<1>15. RemoveAt(q, k) = t /\ t \in Seq(S)
  BY <1>4, <1>6, <1>10
<1> QED BY <1>11, <1>12, <1>13, <1>14, <1>15
-----------------------------------------------------------------------------
LEMMA SubscriptionsStart == SubscriptionsInit => SubscriptionsInv
<1> SUFFICES ASSUME SubscriptionsInit PROVE SubscriptionsInv
  OBVIOUS
<1> USE DEF SubscriptionsInit
<1>1. SubscriptionsTypeOK
  BY DEF SubscriptionsTypeOK, StreamState, FanState
<1>2. ListsAreExact
  BY DEF ListsAreExact, Has, Held
<1>3. RowsAreCounted /\ RowsComeThrough /\ IdleIsNowhere
  BY DEF RowsAreCounted, RowsComeThrough, IdleIsNowhere, Held
<1> QED BY <1>1, <1>2, <1>3 DEF SubscriptionsInv

\* One stream changes, and neither the updates nor the lists: it may read a row,
\* lose one, or begin to leave.
LEMMA StreamSteps ==
  ASSUME SubscriptionsInv, NEW s \in Streams, NEW y \in StreamState,
         stream' = [stream EXCEPT ![s] = y], UNCHANGED <<rows, up, listed, fan>>,
         Held(s), y.pc \in {"serving", "leaving"}, stream[s].pc # "serving" => y.pc # "serving",
         y.at = stream[s].at, y.since = stream[s].since,
         \A x : (Has(stream[s].got, x) \/ Has(stream[s].chan, x) \/ x \in stream[s].lost)
                  => (Has(y.got, x) \/ Has(y.chan, x) \/ x \in y.lost)
  PROVE  SubscriptionsInv'
<1> USE DEF SubscriptionsInv
<1>1. stream'[s] = y /\ \A t \in Streams : t # s => stream'[t] = stream[t]
  BY DEF SubscriptionsTypeOK
<1>2. SubscriptionsTypeOK'
  BY DEF SubscriptionsTypeOK
<1>3. ListsAreExact'
  BY <1>1 DEF ListsAreExact, Held
<1>4. RowsAreCounted' /\ IdleIsNowhere'
  BY <1>1 DEF RowsAreCounted, IdleIsNowhere, Held
<1>5. RowsComeThrough'
  BY <1>1 DEF RowsComeThrough, Delivered
<1> QED BY <1>2, <1>3, <1>4, <1>5

LEMMA SendKeeps == ASSUME SubscriptionsInv, NEW s \in Streams, Send(s) PROVE SubscriptionsInv'
<1>1. stream[s] \in StreamState /\ stream[s].chan \in Seq(Nat) /\ stream[s].got \in Seq(Nat)
  BY DEF SubscriptionsInv, SubscriptionsTypeOK, StreamState
<1> DEFINE rest == Tail(stream[s].chan)
           more == Append(stream[s].got, Head(stream[s].chan))
           y == [stream[s] EXCEPT !.chan = rest, !.got = more]
<1>2. stream' = [stream EXCEPT ![s] = y]
  BY DEF Send
<1>3. /\ rest \in Seq(Nat) /\ more \in Seq(Nat)
      /\ \A x : Has(stream[s].chan, x) <=> Has(rest, x) \/ x = Head(stream[s].chan)
      /\ \A x : Has(more, x) <=> Has(stream[s].got, x) \/ x = Head(stream[s].chan)
  BY <1>1, AppendHas, TailHas DEF Send
<1>4. /\ y \in StreamState /\ y.pc = "serving" /\ y.at = stream[s].at /\ y.since = stream[s].since
      /\ y.chan = rest /\ y.got = more /\ y.lost = stream[s].lost
  <2> HIDE DEF rest, more
  <2> QED BY <1>1, <1>3 DEF StreamState, Send
<1> HIDE DEF y
<1> QED BY <1>2, <1>3, <1>4, StreamSteps DEF Send, Held

LEMMA LeaveKeeps == ASSUME SubscriptionsInv, NEW s \in Streams, Leave(s) PROVE SubscriptionsInv'
<1>1. stream[s] \in StreamState
  BY DEF SubscriptionsInv, SubscriptionsTypeOK
<1> DEFINE y == [stream[s] EXCEPT !.pc = "leaving"]
<1>2. stream' = [stream EXCEPT ![s] = y]
  BY DEF Leave
<1>3. /\ y \in StreamState /\ y.pc = "leaving" /\ y.at = stream[s].at /\ y.since = stream[s].since
      /\ y.chan = stream[s].chan /\ y.got = stream[s].got /\ y.lost = stream[s].lost
  BY <1>1 DEF StreamState
<1> HIDE DEF y
<1> QED BY <1>2, <1>3, StreamSteps DEF Leave, Held

LEMMA SubscribeKeeps ==
  ASSUME SubscriptionsInv, NEW s \in Streams, NEW r \in Replicas, Subscribed(s, r) PROVE SubscriptionsInv'
<1> USE DEF SubscriptionsInv
<1>1. stream[s] \in StreamState /\ rows \in Nat /\ listed[r] \in Seq(Streams)
  BY DEF SubscriptionsTypeOK
<1> DEFINE y == [stream[s] EXCEPT !.pc = "serving", !.at = r, !.since = rows]
<1>2. stream' = [stream EXCEPT ![s] = y]
  BY DEF Subscribed
<1>3. /\ y \in StreamState /\ y.pc = "serving" /\ y.at = r /\ y.since = rows
  BY <1>1 DEF StreamState
<1> HIDE DEF y
<1>4. stream'[s] = y /\ \A t \in Streams : t # s => stream'[t] = stream[t]
  BY <1>2 DEF SubscriptionsTypeOK
<1>5. ~Held(s) /\ ~Has(listed[r], s)
  BY DEF ListsAreExact, Held, Subscribed
<1>6. /\ listed' = [listed EXCEPT ![r] = Append(listed[r], s)]
      /\ listed'[r] = Append(listed[r], s) /\ \A q \in Replicas : q # r => listed'[q] = listed[q]
  BY DEF Subscribed, SubscriptionsTypeOK
<1>7. \A i, j \in DOMAIN listed[r] : listed[r][i] = listed[r][j] => i = j
  BY DEF ListsAreExact
<1>8. /\ Append(listed[r], s) \in Seq(Streams)
      /\ \A x : Has(Append(listed[r], s), x) <=> Has(listed[r], x) \/ x = s
      /\ \A i, j \in DOMAIN Append(listed[r], s) : Append(listed[r], s)[i] = Append(listed[r], s)[j] => i = j
  BY <1>1, <1>5, <1>7, AppendHas
<1>9. UNCHANGED <<rows, up, fan>>
  BY DEF Subscribed
<1>10. SubscriptionsTypeOK' /\ ListsAreExact'
  <2> PICK more : more = Append(listed[r], s)
    OBVIOUS
  <2>1. /\ listed' = [listed EXCEPT ![r] = more] /\ listed'[r] = more
        /\ more \in Seq(Streams) /\ \A x : Has(more, x) <=> Has(listed[r], x) \/ x = s
        /\ \A i, j \in DOMAIN more : more[i] = more[j] => i = j
    BY <1>6, <1>8
  <2>2. SubscriptionsTypeOK'
    <3>1. rows' \in Nat /\ up' \subseteq Replicas /\ fan' \in [Updates -> FanState]
      BY <1>9 DEF SubscriptionsTypeOK
    <3>2. stream' \in [Streams -> StreamState] /\ listed' \in [Replicas -> Seq(Streams)]
      BY <1>2, <1>3, <2>1 DEF SubscriptionsTypeOK
    <3> QED BY <3>1, <3>2 DEF SubscriptionsTypeOK
  <2>3. ListsAreExact'
    BY <1>3, <1>4, <1>5, <1>6, <2>1 DEF ListsAreExact, Held
  <2> QED BY <2>2, <2>3
<1>11. RowsAreCounted' /\ IdleIsNowhere'
  BY <1>1, <1>3, <1>4, <1>9 DEF RowsAreCounted, IdleIsNowhere, Held
<1>12. RowsComeThrough'
  <2>1. \A u \in Updates : ~(fan[u].row > rows)
    BY <1>1 DEF RowsAreCounted, SubscriptionsTypeOK, FanState
  <2> QED BY <1>3, <1>4, <2>1 DEF RowsComeThrough, Delivered, Subscribed
<1> QED BY <1>10, <1>11, <1>12

LEMMA CancelKeeps == ASSUME SubscriptionsInv, NEW s \in Streams, Cancel(s) PROVE SubscriptionsInv'
<1> USE DEF SubscriptionsInv
<1>1. stream[s] \in StreamState /\ stream[s].at \in Replicas
  BY DEF SubscriptionsTypeOK, IdleIsNowhere, Held, Cancel
<1>2. PICK r \in Replicas : r = stream[s].at
  BY <1>1
<1>3. PICK k \in DOMAIN listed[r] : listed[r][k] = s /\ listed' = [listed EXCEPT ![r] = RemoveAt(listed[r], k)]
  BY <1>2 DEF Cancel, SubscriptionsTypeOK
<1> DEFINE y == [stream[s] EXCEPT !.pc = "ended"]
<1>4. stream' = [stream EXCEPT ![s] = y]
  BY DEF Cancel
<1>5. y \in StreamState /\ y.pc = "ended" /\ y.at = stream[s].at /\ y.since = stream[s].since
  BY <1>1 DEF StreamState
<1> HIDE DEF y
<1>6. stream'[s] = y /\ \A t \in Streams : t # s => stream'[t] = stream[t]
  BY <1>4 DEF SubscriptionsTypeOK
<1>7. listed'[r] = RemoveAt(listed[r], k) /\ \A q \in Replicas : q # r => listed'[q] = listed[q]
  BY <1>3 DEF SubscriptionsTypeOK
<1>8. listed[r] \in Seq(Streams) /\ \A i, j \in DOMAIN listed[r] : listed[r][i] = listed[r][j] => i = j
  BY DEF SubscriptionsTypeOK, ListsAreExact
<1>9. /\ listed'[r] \in Seq(Streams) /\ \A x : Has(listed'[r], x) <=> Has(listed[r], x) /\ x # s
      /\ \A i, j \in DOMAIN listed'[r] : listed'[r][i] = listed'[r][j] => i = j
  BY <1>3, <1>7, <1>8, RemoveAtHas
<1>10. SubscriptionsTypeOK'
  BY <1>3, <1>4, <1>5, <1>7, <1>9 DEF SubscriptionsTypeOK, Cancel
<1>11. ListsAreExact'
  BY <1>2, <1>5, <1>6, <1>7, <1>9 DEF ListsAreExact, Held
<1>12. RowsAreCounted' /\ IdleIsNowhere'
  BY <1>5, <1>6 DEF RowsAreCounted, IdleIsNowhere, Held, Cancel
<1>13. RowsComeThrough'
  BY <1>5, <1>6 DEF RowsComeThrough, Delivered, Cancel
<1> QED BY <1>10, <1>11, <1>12, <1>13
-----------------------------------------------------------------------------
\* One update moves on, at its replica; the streams, lists and rows stay.
LEMMA FanSteps ==
  ASSUME SubscriptionsInv, NEW u \in Updates, NEW z \in FanState,
         fan' = [fan EXCEPT ![u] = z], UNCHANGED <<rows, up, listed, stream>>,
         fan[u].pc # "idle", z.pc # "idle", z.at = fan[u].at, z.row = fan[u].row,
         \A s \in Streams : stream[s].pc = "serving" /\ fan[u].at = stream[s].at /\ fan[u].row > stream[s].since
            => /\ z.pc = "sending" => Has(z.todo, s) \/ Delivered(s, z.row)
               /\ z.pc = "done" => Delivered(s, z.row)
  PROVE  SubscriptionsInv'
<1> USE DEF SubscriptionsInv
<1>1. fan'[u] = z /\ \A v \in Updates : v # u => fan'[v] = fan[v]
  BY DEF SubscriptionsTypeOK
<1>2. SubscriptionsTypeOK'
  BY DEF SubscriptionsTypeOK
<1>3. ListsAreExact'
  BY DEF ListsAreExact, Held
<1>4. RowsAreCounted' /\ IdleIsNowhere'
  BY <1>1 DEF RowsAreCounted, IdleIsNowhere, Held
<1>5. RowsComeThrough'
  BY <1>1 DEF RowsComeThrough, Delivered
<1> QED BY <1>2, <1>3, <1>4, <1>5

LEMMA CopyKeeps == ASSUME SubscriptionsInv, NEW u \in Updates, FanCopy(u) PROVE SubscriptionsInv'
<1>1. fan[u] \in FanState /\ fan[u].at \in Replicas /\ listed[fan[u].at] \in Seq(Streams)
  BY DEF SubscriptionsInv, SubscriptionsTypeOK, IdleIsNowhere, FanCopy
<1> DEFINE z == [fan[u] EXCEPT !.pc = "sending", !.todo = listed[fan[u].at]]
<1>2. fan' = [fan EXCEPT ![u] = z]
  BY DEF FanCopy
<1>3. z \in FanState /\ z.pc = "sending" /\ z.at = fan[u].at /\ z.row = fan[u].row /\ z.todo = listed[fan[u].at]
  BY <1>1 DEF FanState
<1>4. \A s \in Streams : stream[s].pc = "serving" /\ fan[u].at = stream[s].at => Has(listed[fan[u].at], s)
  BY <1>1 DEF SubscriptionsInv, ListsAreExact, Held
<1> HIDE DEF z
<1>5. \A s \in Streams : stream[s].pc = "serving" /\ fan[u].at = stream[s].at /\ fan[u].row > stream[s].since
        => /\ z.pc = "sending" => Has(z.todo, s) \/ Delivered(s, z.row)
           /\ z.pc = "done" => Delivered(s, z.row)
  BY <1>3, <1>4
<1>6. UNCHANGED <<rows, up, listed, stream>> /\ fan[u].pc # "idle" /\ z.pc # "idle"
  BY <1>3 DEF FanCopy
<1> QED BY <1>2, <1>3, <1>5, <1>6, FanSteps

LEMMA ReturnKeeps == ASSUME SubscriptionsInv, NEW u \in Updates, FanReturn(u) PROVE SubscriptionsInv'
<1>1. fan[u] \in FanState
  BY DEF SubscriptionsInv, SubscriptionsTypeOK
<1> DEFINE z == [fan[u] EXCEPT !.pc = "done"]
<1>2. fan' = [fan EXCEPT ![u] = z]
  BY DEF FanReturn
<1>3. z \in FanState /\ z.pc = "done" /\ z.at = fan[u].at /\ z.row = fan[u].row
  BY <1>1 DEF FanState
<1>4. \A s : ~Has(fan[u].todo, s)
  BY DEF Has, FanReturn
<1> HIDE DEF z
<1>5. \A s \in Streams : stream[s].pc = "serving" /\ fan[u].at = stream[s].at /\ fan[u].row > stream[s].since
        => /\ z.pc = "sending" => Has(z.todo, s) \/ Delivered(s, z.row)
           /\ z.pc = "done" => Delivered(s, z.row)
  BY <1>3, <1>4 DEF FanReturn, SubscriptionsInv, RowsComeThrough
<1>6. UNCHANGED <<rows, up, listed, stream>> /\ fan[u].pc # "idle" /\ z.pc # "idle"
  BY <1>3 DEF FanReturn
<1> QED BY <1>2, <1>3, <1>5, <1>6, FanSteps

LEMMA PutKeeps ==
  ASSUME SubscriptionsInv, NEW u \in Updates, NEW r \in Replicas, PutRow(u, r) PROVE SubscriptionsInv'
<1> USE DEF SubscriptionsInv
<1>1. fan[u] \in FanState /\ rows \in Nat /\ rows + 1 \in Nat
  BY DEF SubscriptionsTypeOK
<1> DEFINE n == rows + 1
           z == [fan[u] EXCEPT !.pc = "put", !.at = r, !.row = n]
<1>2. fan' = [fan EXCEPT ![u] = z]
  BY DEF PutRow
<1>3. z \in FanState /\ z.pc = "put" /\ z.at = r /\ z.row = n
  <2>1. n \in Nat
    BY <1>1
  <2> HIDE DEF n
  <2> QED BY <1>1, <2>1 DEF FanState
<1> HIDE DEF z
<1>4. fan'[u] = z /\ \A v \in Updates : v # u => fan'[v] = fan[v]
  BY <1>2 DEF SubscriptionsTypeOK
<1>5. SubscriptionsTypeOK'
  BY <1>1, <1>2, <1>3 DEF SubscriptionsTypeOK, PutRow
<1>6. ListsAreExact'
  BY DEF ListsAreExact, Held, PutRow
<1>7. RowsAreCounted'
  <2>1. /\ \A s \in Streams : stream[s].since \in Nat /\ stream[s].since <= rows
        /\ \A v \in Updates : fan[v].row \in Nat /\ fan[v].row <= rows
    BY DEF RowsAreCounted, SubscriptionsTypeOK, StreamState, FanState
  <2>2. rows' = rows + 1 /\ stream' = stream
    BY DEF PutRow
  <2>3. \A v \in Updates : fan'[v].row <= rows + 1
    BY <1>1, <1>3, <1>4, <2>1
  <2> QED BY <1>1, <2>1, <2>2, <2>3 DEF RowsAreCounted
<1>8. IdleIsNowhere'
  BY <1>3, <1>4 DEF IdleIsNowhere, Held, PutRow
<1>9. RowsComeThrough'
  BY <1>3, <1>4 DEF RowsComeThrough, Delivered, PutRow
<1> QED BY <1>5, <1>6, <1>7, <1>8, <1>9

LEMMA FanSendKeeps == ASSUME SubscriptionsInv, NEW u \in Updates, FanSend(u) PROVE SubscriptionsInv'
<1> USE DEF SubscriptionsInv
<1>1. /\ fan[u] \in FanState /\ fan[u].todo \in Seq(Streams) /\ fan[u].todo # <<>> /\ fan[u].row \in Nat
      /\ fan[u].pc = "sending" /\ UNCHANGED <<rows, up, listed>>
  BY DEF SubscriptionsTypeOK, FanState, FanSend
<1>2. PICK s \in Streams : s = Head(fan[u].todo)
  BY <1>1, TailHas
<1>3. PICK rest \in Seq(Streams) : rest = Tail(fan[u].todo)
  BY <1>1, TailHas
<1>4. \A t : Has(fan[u].todo, t) => Has(rest, t) \/ t = s
  BY <1>1, <1>2, <1>3, TailHas
<1>5. stream[s] \in StreamState /\ stream[s].chan \in Seq(Nat)
  BY DEF SubscriptionsTypeOK, StreamState
<1>6. PICK more \in Seq(Nat) : more = Append(stream[s].chan, fan[u].row)
  <2>1. Append(stream[s].chan, fan[u].row) \in Seq(Nat)
    BY <1>1, <1>5, AppendHas
  <2> QED BY <2>1
<1>7. \A x : Has(more, x) <=> Has(stream[s].chan, x) \/ x = fan[u].row
  BY <1>1, <1>5, <1>6, AppendHas
<1> DEFINE y == IF Len(stream[s].chan) < Room THEN [stream[s] EXCEPT !.chan = more]
                                              ELSE [stream[s] EXCEPT !.lost = stream[s].lost \cup {fan[u].row}]
           z == [fan[u] EXCEPT !.todo = rest]
<1>8. stream' = [stream EXCEPT ![s] = y]
  BY <1>2, <1>6 DEF FanSend
<1>9. fan' = [fan EXCEPT ![u] = z]
  BY <1>3 DEF FanSend
<1>10. /\ y \in StreamState /\ y.pc = stream[s].pc /\ y.at = stream[s].at /\ y.since = stream[s].since
       /\ y.got = stream[s].got
       /\ \A x : Has(y.chan, x) \/ x \in y.lost <=> Has(stream[s].chan, x) \/ x \in stream[s].lost \/ x = fan[u].row
  <2>1. CASE Len(stream[s].chan) < Room
    <3>1. y = [stream[s] EXCEPT !.chan = more]
      BY <2>1
    <3> HIDE DEF y
    <3> QED BY <1>5, <1>7, <3>1 DEF StreamState
  <2>2. CASE ~(Len(stream[s].chan) < Room)
    <3>1. PICK gone : gone = stream[s].lost \cup {fan[u].row}
      OBVIOUS
    <3>2. y = [stream[s] EXCEPT !.lost = gone] /\ gone \in SUBSET Nat
      BY <1>1, <1>5, <2>2, <3>1 DEF StreamState
    <3> HIDE DEF y
    <3>3. y \in StreamState /\ y.pc = stream[s].pc /\ y.at = stream[s].at /\ y.since = stream[s].since
          /\ y.got = stream[s].got /\ y.chan = stream[s].chan /\ y.lost = gone
      BY <1>5, <3>2 DEF StreamState
    <3> QED BY <3>1, <3>3
  <2> QED BY <2>1, <2>2
<1>11. z \in FanState /\ z.pc = "sending" /\ z.at = fan[u].at /\ z.row = fan[u].row /\ z.todo = rest
  BY <1>1 DEF FanState
<1> HIDE DEF y, z
<1>12. stream'[s] = y /\ \A t \in Streams : t # s => stream'[t] = stream[t]
  BY <1>8 DEF SubscriptionsTypeOK
<1>13. fan'[u] = z /\ \A v \in Updates : v # u => fan'[v] = fan[v]
  BY <1>9 DEF SubscriptionsTypeOK
<1>14. SubscriptionsTypeOK'
  <2>1. stream' \in [Streams -> StreamState] /\ fan' \in [Updates -> FanState]
    BY <1>8, <1>9, <1>10, <1>11 DEF SubscriptionsTypeOK
  <2> QED BY <1>1, <2>1 DEF SubscriptionsTypeOK
<1>15. ListsAreExact'
  BY <1>1, <1>10, <1>12 DEF ListsAreExact, Held
<1>16. RowsAreCounted' /\ IdleIsNowhere'
  BY <1>1, <1>10, <1>11, <1>12, <1>13 DEF RowsAreCounted, IdleIsNowhere, Held
<1>17. \A t \in Streams : \A x : Delivered(t, x) => Delivered(t, x)'
  BY <1>10, <1>12 DEF Delivered
<1>18. Delivered(s, fan[u].row)'
  BY <1>1, <1>10, <1>12, <1>13, <1>11 DEF Delivered
<1>19. RowsComeThrough'
  <2>1. ASSUME NEW t \in Streams, NEW v \in Updates,
               stream'[t].pc = "serving", fan'[v].at = stream'[t].at, fan'[v].row > stream'[t].since
        PROVE  /\ fan'[v].pc = "sending" => Has(fan'[v].todo, t) \/ Delivered(t, fan[v].row)'
               /\ fan'[v].pc = "done" => Delivered(t, fan[v].row)'
    <3>1. /\ stream[t].pc = "serving" /\ fan[v].at = stream[t].at /\ fan[v].row > stream[t].since
          /\ fan'[v].pc = fan[v].pc /\ fan'[v].row = fan[v].row
      BY <1>1, <1>10, <1>11, <1>12, <1>13, <2>1
    <3>2. /\ fan[v].pc = "sending" => Has(fan[v].todo, t) \/ Delivered(t, fan[v].row)
          /\ fan[v].pc = "done" => Delivered(t, fan[v].row)
      BY <3>1 DEF RowsComeThrough
    <3>3. Has(fan[v].todo, t) => Has(fan'[v].todo, t) \/ (v = u /\ t = s)
      BY <1>4, <1>11, <1>13
    <3> QED BY <1>17, <1>18, <3>1, <3>2, <3>3
  <2> QED BY <2>1 DEF RowsComeThrough, Delivered
<1> QED BY <1>14, <1>15, <1>16, <1>19

LEMMA PanicKeeps == ASSUME SubscriptionsInv, NEW u \in Updates, FanPanic(u) PROVE SubscriptionsInv'
<1> USE DEF SubscriptionsInv
<1>1. PICK r \in Replicas : r = fan[u].at
  BY DEF IdleIsNowhere, FanPanic
<1>2. /\ rows' = rows /\ up' = up \ {r} /\ listed' = [listed EXCEPT ![r] = <<>>]
      /\ stream' = [s \in Streams |-> IF stream[s].at = r THEN [stream[s] EXCEPT !.pc = "ended"] ELSE stream[s]]
      /\ fan' = [v \in Updates |-> IF fan[v].at = r THEN [fan[v] EXCEPT !.pc = "done", !.todo = <<>>] ELSE fan[v]]
  BY <1>1 DEF FanPanic
<1>3. ASSUME NEW s \in Streams
      PROVE  /\ stream'[s] \in StreamState /\ stream'[s].at = stream[s].at /\ stream'[s].since = stream[s].since
             /\ IF stream[s].at = r THEN stream'[s].pc = "ended" ELSE stream'[s] = stream[s]
  <2>1. stream[s] \in StreamState
    BY DEF SubscriptionsTypeOK
  <2>2. [stream[s] EXCEPT !.pc = "ended"] \in StreamState
    BY <2>1 DEF StreamState
  <2> QED BY <1>2, <2>1, <2>2 DEF StreamState
<1>4. ASSUME NEW v \in Updates
      PROVE  /\ fan'[v] \in FanState /\ fan'[v].at = fan[v].at /\ fan'[v].row = fan[v].row
             /\ IF fan[v].at = r THEN fan'[v].pc = "done" ELSE fan'[v] = fan[v]
  <2>1. fan[v] \in FanState /\ <<>> \in Seq(Streams)
    BY DEF SubscriptionsTypeOK
  <2>2. [fan[v] EXCEPT !.pc = "done", !.todo = <<>>] \in FanState
    BY <2>1 DEF FanState
  <2> QED BY <1>2, <2>1, <2>2 DEF FanState
<1>5. listed'[r] = <<>> /\ \A q \in Replicas : q # r => listed'[q] = listed[q]
  BY <1>2 DEF SubscriptionsTypeOK
<1>6. SubscriptionsTypeOK'
  <2>1. rows' \in Nat /\ up' \subseteq Replicas /\ listed' \in [Replicas -> Seq(Streams)]
    <3>1. <<>> \in Seq(Streams)
      OBVIOUS
    <3>2. listed' \in [Replicas -> Seq(Streams)]
      BY <1>2, <3>1 DEF SubscriptionsTypeOK
    <3>3. rows' \in Nat /\ up' \subseteq Replicas
      BY <1>2 DEF SubscriptionsTypeOK
    <3> QED BY <3>2, <3>3
  <2>2. stream' \in [Streams -> StreamState]
    <3> DEFINE f(s) == IF stream[s].at = r THEN [stream[s] EXCEPT !.pc = "ended"] ELSE stream[s]
    <3>1. stream' = [s \in Streams |-> f(s)]
      BY <1>2
    <3>2. \A s \in Streams : f(s) \in StreamState
      BY <1>3, <3>1
    <3> HIDE DEF f
    <3> QED BY <3>1, <3>2
  <2>3. fan' \in [Updates -> FanState]
    <3> DEFINE g(v) == IF fan[v].at = r THEN [fan[v] EXCEPT !.pc = "done", !.todo = <<>>] ELSE fan[v]
    <3>1. fan' = [v \in Updates |-> g(v)]
      BY <1>2
    <3>2. \A v \in Updates : g(v) \in FanState
      BY <1>4, <3>1
    <3> HIDE DEF g
    <3> QED BY <3>1, <3>2
  <2> QED BY <2>1, <2>2, <2>3 DEF SubscriptionsTypeOK
<1>7. ListsAreExact'
  BY <1>3, <1>5 DEF ListsAreExact, Held, Has
<1>8. RowsAreCounted'
  BY <1>2, <1>3, <1>4 DEF RowsAreCounted
<1>9. IdleIsNowhere'
  BY <1>3, <1>4 DEF IdleIsNowhere, Held
<1>10. RowsComeThrough'
  BY <1>3, <1>4 DEF RowsComeThrough, Delivered
<1> QED BY <1>6, <1>7, <1>8, <1>9, <1>10
-----------------------------------------------------------------------------
\* The lists and the rows keep what subscribe, cancel and fanout need of each other.
THEOREM SubscriptionsInvariant == SubscriptionsSpec => []SubscriptionsInv
<1>1. SubscriptionsInv /\ [SubscriptionsNext]_subscriptionVars => SubscriptionsInv'
  <2> SUFFICES ASSUME SubscriptionsInv, [SubscriptionsNext]_subscriptionVars PROVE SubscriptionsInv'
    OBVIOUS
  <2>1. ASSUME NEW s \in Streams, StreamStep(s) PROVE SubscriptionsInv'
    BY <2>1, SubscribeKeeps, SendKeeps, LeaveKeeps, CancelKeeps DEF StreamStep
  <2>2. ASSUME NEW u \in Updates, FanStep(u) PROVE SubscriptionsInv'
    BY <2>2, PutKeeps, CopyKeeps, FanSendKeeps, PanicKeeps, ReturnKeeps DEF FanStep
  <2>3. ASSUME NEW r \in Replicas, Restart(r) PROVE SubscriptionsInv'
    BY <2>3 DEF Restart, SubscriptionsInv, SubscriptionsTypeOK, ListsAreExact, Held, RowsAreCounted,
                RowsComeThrough, Delivered, IdleIsNowhere
  <2>4. CASE UNCHANGED subscriptionVars
    BY <2>4 DEF subscriptionVars, SubscriptionsInv, SubscriptionsTypeOK, ListsAreExact, Held, RowsAreCounted,
                RowsComeThrough, Delivered, IdleIsNowhere
  <2> QED BY <2>1, <2>2, <2>3, <2>4 DEF SubscriptionsNext
<1> QED BY <1>1, SubscriptionsStart, PTL DEF SubscriptionsSpec

\* However streams come, go and are cut off by a panic, a replica's list holds
\* the channels of its own streams, each once (subscribe, cancel).
THEOREM NoSubscriptionLeaks == SubscriptionsSpec => []NoLeakedSubscription
<1>1. SubscriptionsInv => NoLeakedSubscription
  BY DEF SubscriptionsInv, SubscriptionsTypeOK, ListsAreExact, Held, Has, NoLeakedSubscription, ToSet, IsInjective
<1> QED BY <1>1, SubscriptionsInvariant, PTL

\* A served stream has, or was too slow for, each row its replica put and
\* announced since it subscribed (fanout).
THEOREM RowsComeToTheirStreams == SubscriptionsSpec => []RowsReachLocalStreams
<1>1. SubscriptionsInv => RowsReachLocalStreams
  BY DEF SubscriptionsInv, RowsComeThrough, Delivered, Has, RowsReachLocalStreams, ToSet
<1> QED BY <1>1, SubscriptionsInvariant, PTL
=============================================================================
