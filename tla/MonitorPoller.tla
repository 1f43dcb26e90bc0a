---------------------------- MODULE MonitorPoller ----------------------------
(***************************************************************************)
(* units/monitor-aggregator-service: one goroutine polls /healthz of every *)
(* service, keeps the latest snapshot and fans it out; one goroutine per   *)
(* client of /api/stream writes the current snapshot and then what its     *)
(* channel yields.                                                         *)
(***************************************************************************)
EXTENDS Naturals, Sequences

CONSTANTS
  Services,   \* the configured services
  Clients,    \* requests for /api/stream
  Capacity,   \* capacity of a client's channel (4 in Subscribe)
  MaxTicks    \* bound: polls in a behaviour

ASSUME PollerAssumption ==
  /\ Capacity \in Nat \ {0}
  /\ MaxTicks \in Nat

VARIABLES
  poller,     \* the goroutine of Run: where it is, its tick, its results, the channels left to serve
  latest,     \* the snapshot p.mu guards
  subs,       \* the channels subsMu guards, each named by its client
  client      \* [Clients -> ClientState]

pollerVars == <<poller, latest, subs, client>>

\* A service's state stands for the tick whose probe found it, 0 for UNKNOWN:
\* whether it is OK, DEGRADED or DOWN steers nothing.
Snapshot == [tick: Nat, services: [Services -> Nat]]

\* chan: the channel's buffer; shown: the ticks written to the client so far.
ClientState == [ pc: {"idle", "subscribed", "streaming", "gone", "closed"},
                 chan: Seq(Snapshot), shown: Seq(Nat) ]

Unprobed == [s \in Services |-> 0]

\* fanOut holds subsMu from its first send to its last.
Unlocked == poller.pc # "fanout"

PollerInit ==
  /\ poller = [pc |-> "waiting", tick |-> 0, results |-> Unprobed, done |-> {}, todo |-> {}]
  /\ latest = [tick |-> 0, services |-> Unprobed]
  /\ subs = {}
  /\ client = [c \in Clients |-> [pc |-> "idle", chan |-> <<>>, shown |-> <<>>]]
-----------------------------------------------------------------------------
\* Mutants: tick does not wait for its probes; Unsubscribe closes a channel it
\* leaves listed; fanOut waits for room; the stream handler writes p.Snapshot()
\* whenever its channel yields.
Publish_NoWait ==
  /\ poller.pc = "probing"
  /\ latest' = [tick |-> poller.tick, services |-> poller.results]
  /\ poller' = [poller EXCEPT !.pc = "publish"]
  /\ UNCHANGED <<subs, client>>

Unsubscribe_OnlyCloses(c) ==
  /\ client[c].pc \in {"subscribed", "streaming"}
  /\ Unlocked
  /\ client' = [client EXCEPT ![c].pc = "closed"]
  /\ UNCHANGED <<poller, latest, subs>>

FanOutSend_Blocks ==
  /\ poller.pc = "fanout"
  /\ \E c \in poller.todo :
       /\ Len(client[c].chan) < Capacity
       /\ client' = [client EXCEPT ![c].chan = Append(@, latest)]
       /\ poller' = [poller EXCEPT !.todo = @ \ {c}]
  /\ UNCHANGED <<latest, subs>>

WriteNext_Latest(c) ==
  /\ client[c].pc = "streaming"
  /\ client[c].chan # <<>>
  /\ client' = [client EXCEPT ![c].chan = Tail(@), ![c].shown = Append(@, latest.tick)]
  /\ UNCHANGED <<poller, latest, subs>>
-----------------------------------------------------------------------------
\* The ticker fires, or Run starts: one goroutine per service.
Tick ==
  /\ poller.pc = "waiting"
  /\ poller.tick < MaxTicks
  /\ poller' = [poller EXCEPT !.pc = "probing", !.tick = @ + 1, !.results = Unprobed, !.done = {}]
  /\ UNCHANGED <<latest, subs, client>>

\* A probe answers, fails or runs into the client's timeout.
Probe(s) ==
  /\ poller.pc = "probing"
  /\ s \notin poller.done
  /\ poller' = [poller EXCEPT !.results[s] = poller.tick, !.done = @ \cup {s}]
  /\ UNCHANGED <<latest, subs, client>>

\* wg.Wait returns; latest is replaced and fanOut takes subsMu.
Publish ==
  /\ poller.pc = "probing"
  /\ poller.done = Services
  /\ latest' = [tick |-> poller.tick, services |-> poller.results]
  /\ poller' = [poller EXCEPT !.pc = "publish"]
  /\ UNCHANGED <<subs, client>>

FanOutLock ==
  /\ poller.pc = "publish"
  /\ poller' = [poller EXCEPT !.pc = "fanout", !.todo = subs]
  /\ UNCHANGED <<latest, subs, client>>

\* A full channel loses the snapshot.
FanOutSend ==
  /\ poller.pc = "fanout"
  /\ \E c \in poller.todo :
       /\ client' = [client EXCEPT ![c].chan = IF Len(@) < Capacity THEN Append(@, latest) ELSE @]
       /\ poller' = [poller EXCEPT !.todo = @ \ {c}]
  /\ UNCHANGED <<latest, subs>>

FanOutDone ==
  /\ poller.pc = "fanout"
  /\ poller.todo = {}
  /\ poller' = [poller EXCEPT !.pc = "waiting"]
  /\ UNCHANGED <<latest, subs, client>>
-----------------------------------------------------------------------------
Subscribe(c) ==
  /\ client[c].pc = "idle"
  /\ Unlocked
  /\ subs' = subs \cup {c}
  /\ client' = [client EXCEPT ![c].pc = "subscribed"]
  /\ UNCHANGED <<poller, latest>>

\* The handler writes p.Snapshot() so that the client need not wait a tick.
WriteCurrent(c) ==
  /\ client[c].pc = "subscribed"
  /\ client' = [client EXCEPT ![c].pc = "streaming", ![c].shown = Append(@, latest.tick)]
  /\ UNCHANGED <<poller, latest, subs>>

WriteNext(c) ==
  /\ client[c].pc = "streaming"
  /\ client[c].chan # <<>>
  /\ client' = [client EXCEPT ![c].chan = Tail(@), ![c].shown = Append(@, Head(client[c].chan).tick)]
  /\ UNCHANGED <<poller, latest, subs>>

\* The request's context is done: the deferred Unsubscribe deletes the channel
\* under subsMu and then closes it.
Unsubscribe(c) ==
  /\ client[c].pc \in {"subscribed", "streaming"}
  /\ Unlocked
  /\ subs' = subs \ {c}
  /\ client' = [client EXCEPT ![c].pc = "gone"]
  /\ UNCHANGED <<poller, latest>>

Close(c) ==
  /\ client[c].pc = "gone"
  /\ client' = [client EXCEPT ![c].pc = "closed"]
  /\ UNCHANGED <<poller, latest, subs>>

PollerStep ==
  \/ Tick \/ (\E s \in Services : Probe(s)) \/ Publish \/ FanOutLock \/ FanOutSend \/ FanOutDone

ClientStep(c) ==
  Subscribe(c) \/ WriteCurrent(c) \/ WriteNext(c) \/ Unsubscribe(c) \/ Close(c)

PollerNext == PollerStep \/ \E c \in Clients : ClientStep(c)

PollerSpec == PollerInit /\ [][PollerNext]_pollerVars

\* The ticker fires and every probe has a timeout.  Nothing is assumed of the
\* clients: a client may never read.
PollerFairness == WF_pollerVars(PollerStep)
-----------------------------------------------------------------------------
PollerTypeOK ==
  /\ poller \in [ pc: {"waiting", "probing", "publish", "fanout"}, tick: Nat,
                  results: [Services -> Nat], done: SUBSET Services, todo: SUBSET Clients ]
  /\ latest \in Snapshot
  /\ subs \subseteq Clients
  /\ client \in [Clients -> ClientState]

\* A send on a closed channel panics and ends the process: fanOut never does
\* one, whenever the clients go (Unsubscribe closes outside subsMu).
NoSendOnClosedChannel == \A c \in poller.todo \cup subs : client[c].pc # "closed"

\* What a client sees was found by one poll: no snapshot mixes the results of
\* two ticks or shows a service unprobed once polling has begun (tick's
\* WaitGroup, the goroutines that write results[i]).
SnapshotsAreWhole ==
  LET Whole(snap) == \A s \in Services : snap.services[s] = snap.tick IN
  /\ Whole(latest)
  /\ \A c \in Clients : \A i \in DOMAIN client[c].chan : Whole(client[c].chan[i])

\* After the snapshot a client is greeted with, its display only moves to later
\* polls, although slow clients lose snapshots (fanOut, /api/stream).
StreamMovesForward ==
  \A c \in Clients : \A i \in 2..Len(client[c].shown) - 1 :
    client[c].shown[i] < client[c].shown[i+1]

\* A client that does not read, or goes away, delays no poll ("drop the update
\* if a subscriber is slow rather than slowing every other client").
TickCompletes == \A n \in 1..MaxTicks : poller.tick = n ~> poller.tick = n /\ poller.pc = "waiting"
=============================================================================
