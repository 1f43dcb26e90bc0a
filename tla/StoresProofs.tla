---------------------------- MODULE StoresProofs ----------------------------
(***************************************************************************)
(* The records that are kept: the audit trail, for any number of events,   *)
(* invocations, receives and midnights, and the settings of workspaces,    *)
(* for any number of calls.                                                *)
(***************************************************************************)
EXTENDS AuditTrail, WorkspaceSettings, SequenceTheorems, TLAPS

\* A time is stamped on an event once, by its emitter.
AuditTypes ==
  /\ today \in Days
  /\ letters \subseteq [event: Events, at: Days, n: Nat]
  /\ hot \in [Events -> Days \cup {Unstamped}]
  /\ archive \subseteq [event: Events, day: Days]
  /\ drain \in [Drainers -> DrainState]
  /\ \A w \in Drainers : drain[w].pc # "idle" => drain[w].event \in Events /\ drain[w].at \in Days

\* Nothing knows of the event yet.
Unheard(e) ==
  /\ \A m \in letters : m.event # e
  /\ \A w \in Drainers : drain[w].pc # "idle" => drain[w].event # e
  /\ hot[e] = Unstamped
  /\ \A a \in archive : a.event # e

\* Whatever is known of the event has the same time.
OfTime(e, t) ==
  /\ \A m \in letters : m.event = e => m.at = t
  /\ \A w \in Drainers : drain[w].pc # "idle" /\ drain[w].event = e => drain[w].at = t
  /\ hot[e] \in {Unstamped, t}
  /\ \A a \in archive : a.event = e => a.day = t

\* An event that is known was emitted and is not emitted again.
Emitted(e) == (\E m \in letters : m.event = e) \/ e \in filed \cup lost

\* The row is put before the object, and the object before the message goes.
InOrder ==
  /\ \A w \in Drainers : drain[w].pc \in {"cold", "ack"} => hot[drain[w].event] # Unstamped
  /\ \A w \in Drainers : drain[w].pc = "ack" => \E a \in archive : a.event = drain[w].event
  /\ \A a \in archive : hot[a.event] # Unstamped
  /\ \A e \in filed : \E a \in archive : a.event = e

AuditInv ==
  /\ AuditTypes
  /\ \A e \in Events : Unheard(e) \/ (Emitted(e) /\ \E t \in Days : OfTime(e, t))
  /\ InOrder

LEMMA DaysKnown == 1 \in Days /\ Unstamped \notin Days /\ \A t \in Days : Stamped(t) = t
BY AuditTrailAssumption DEF Days, Unstamped, Stamped

LEMMA AuditTrailStarts == AuditTrailInit => AuditInv
<1>. SUFFICES ASSUME AuditTrailInit PROVE AuditInv
  OBVIOUS
<1>1. AuditTypes
  BY DaysKnown DEF AuditTrailInit, AuditTypes, DrainState
<1>2. \A e \in Events : Unheard(e)
  BY DEF AuditTrailInit, Unheard
<1>3. InOrder
  BY DEF AuditTrailInit, InOrder
<1>. QED  BY <1>1, <1>2, <1>3 DEF AuditInv

\* What stays of one event when another is handled.
LEMMA AuditSteps ==
  ASSUME AuditInv, [AuditTrailNext]_auditVars
  PROVE  AuditInv'
<1>. USE DaysKnown
<1>1. AuditTypes /\ InOrder /\ \A e \in Events : Unheard(e) \/ (Emitted(e) /\ \E t \in Days : OfTime(e, t))
  BY DEF AuditInv
<1>2. CASE UNCHANGED auditVars
  BY <1>1, <1>2 DEF auditVars, AuditInv, AuditTypes, Unheard, OfTime, Emitted, InOrder
<1>3. ASSUME NEW e \in Events, Emit(e) PROVE AuditInv'
  <2>. DEFINE m == [event |-> e, at |-> today, n |-> 0]
  <2>1. letters' = letters \cup {m} /\ UNCHANGED <<today, hot, archive, filed, lost, drain>>
    BY <1>3 DEF Emit, Stamped
  <2>2. m \in [event: Events, at: Days, n: Nat]
    BY <1>1 DEF AuditTypes
  <2>3. AuditTypes' /\ InOrder'
    BY <1>1, <2>1, <2>2 DEF AuditTypes, InOrder
  <2>4. Unheard(e) /\ today \in Days
    BY <1>1, <1>3 DEF Emit, Emitted, AuditTypes
  <2>5. Emitted(e)' /\ \E t \in Days : OfTime(e, t)'
    <3>1. m.event = e /\ m.at = today
      OBVIOUS
    <3>. HIDE DEF m
    <3>3. Emitted(e)'
      BY <2>1, <3>1 DEF Emitted
    <3>4. PICK t \in Days : t = today
      BY <2>4
    <3>5. OfTime(e, t)'
      BY <2>1, <2>4, <3>1, <3>4 DEF OfTime, Unheard
    <3>. QED  BY <3>3, <3>5
  <2>6. ASSUME NEW f \in Events, f # e
        PROVE  Unheard(f)' \/ (Emitted(f)' /\ \E t \in Days : OfTime(f, t)')
    <3>1. Unheard(f) => Unheard(f)'
      BY <2>1, <2>6 DEF Unheard
    <3>2. Emitted(f) => Emitted(f)'
      BY <2>1 DEF Emitted
    <3>3. \A t \in Days : OfTime(f, t) => OfTime(f, t)'
      BY <2>1, <2>6 DEF OfTime
    <3>. QED  BY <1>1, <3>1, <3>2, <3>3
  <2>. QED  BY <2>1, <2>3, <2>4, <2>5, <2>6 DEF AuditInv
<1>4. ASSUME NEW w \in Drainers, TakeLetter(w) PROVE AuditInv'
  <2>1. PICK m \in letters :
          /\ letters' = (letters \ {m}) \cup {[m EXCEPT !.n = @ + 1]}
          /\ drain' = [drain EXCEPT ![w] = [pc |-> "hot", event |-> m.event, at |-> Stamped(m.at)]]
    BY <1>4 DEF TakeLetter
  <2>. DEFINE m1 == [m EXCEPT !.n = @ + 1]
  <2>2. /\ m \in [event: Events, at: Days, n: Nat] /\ m.event \in Events /\ m.at \in Days
        /\ m1 \in [event: Events, at: Days, n: Nat] /\ m1.event = m.event /\ m1.at = m.at
    BY <1>1 DEF AuditTypes
  <2>3. drain' = [drain EXCEPT ![w] = [pc |-> "hot", event |-> m.event, at |-> m.at]]
    BY <2>1, <2>2
  <2>4. UNCHANGED <<today, hot, archive, filed, lost>> /\ letters' = (letters \ {m}) \cup {m1}
    BY <1>4, <2>1 DEF TakeLetter
  <2>5. \A v \in Drainers : drain'[v] = IF v = w THEN [pc |-> "hot", event |-> m.event, at |-> m.at] ELSE drain[v]
    BY <1>1, <2>3 DEF AuditTypes
  <2>. HIDE DEF m1
  <2>6. AuditTypes'
    <3>1. [pc |-> "hot", event |-> m.event, at |-> m.at] \in DrainState
      BY <2>2 DEF DrainState
    <3>2. drain' \in [Drainers -> DrainState]
      BY <1>1, <2>3, <3>1 DEF AuditTypes
    <3>. QED  BY <1>1, <2>2, <2>4, <2>5, <3>2 DEF AuditTypes
  <2>7. InOrder'
    BY <1>1, <2>4, <2>5 DEF InOrder
  <2>8. ASSUME NEW f \in Events
        PROVE  Unheard(f)' \/ (Emitted(f)' /\ \E t \in Days : OfTime(f, t)')
    <3>1. f # m.event /\ Unheard(f) => Unheard(f)'
      BY <2>2, <2>4, <2>5 DEF Unheard
    <3>2. f = m.event => ~Unheard(f)
      BY DEF Unheard
    <3>3. Emitted(f) => Emitted(f)'
      BY <2>2, <2>4 DEF Emitted
    <3>4. \A t \in Days : OfTime(f, t) => OfTime(f, t)'
      BY <2>2, <2>4, <2>5 DEF OfTime
    <3>. QED  BY <1>1, <3>1, <3>2, <3>3, <3>4
  <2>. QED  BY <2>6, <2>7, <2>8 DEF AuditInv
<1>5. ASSUME NEW w \in Drainers, PutHot(w) PROVE AuditInv'
  <2>. DEFINE e == drain[w].event
  <2>1. /\ drain[w].pc = "hot" /\ hot' = [hot EXCEPT ![e] = drain[w].at]
        /\ drain' = [drain EXCEPT ![w].pc = "cold"] /\ UNCHANGED <<today, letters, archive, filed, lost>>
    BY <1>5 DEF PutHot
  <2>2. e \in Events /\ drain[w].at \in Days
    BY <1>1, <2>1 DEF AuditTypes
  <2>3. /\ drain' \in [Drainers -> DrainState]
        /\ \A v \in Drainers : /\ drain'[v].event = drain[v].event /\ drain'[v].at = drain[v].at
                               /\ drain'[v].pc = IF v = w THEN "cold" ELSE drain[v].pc
    BY <1>1, <2>1 DEF AuditTypes, DrainState
  <2>4. hot' \in [Events -> Days \cup {Unstamped}] /\ \A f \in Events : hot'[f] = IF f = e THEN drain[w].at ELSE hot[f]
    BY <1>1, <2>1, <2>2 DEF AuditTypes
  <2>5. AuditTypes'
    BY <1>1, <2>1, <2>2, <2>3, <2>4 DEF AuditTypes
  <2>6. InOrder'
    BY <1>1, <2>1, <2>2, <2>3, <2>4 DEF InOrder, AuditTypes
  <2>7. ASSUME NEW f \in Events
        PROVE  Unheard(f)' \/ (Emitted(f)' /\ \E t \in Days : OfTime(f, t)')
    <3>1. Unheard(f) => Unheard(f)' /\ f # e
      BY <2>1, <2>3, <2>4 DEF Unheard
    <3>2. Emitted(f) => Emitted(f)'
      BY <2>1 DEF Emitted
    <3>3. \A t \in Days : OfTime(f, t) => OfTime(f, t)'
      BY <2>1, <2>3, <2>4 DEF OfTime
    <3>. QED  BY <1>1, <3>1, <3>2, <3>3
  <2>. QED  BY <2>5, <2>6, <2>7 DEF AuditInv
<1>6. ASSUME NEW w \in Drainers, PutCold(w) PROVE AuditInv'
  <2>. DEFINE e == drain[w].event
              a == [event |-> e, day |-> drain[w].at]
  <2>1. /\ drain[w].pc = "cold" /\ archive' = archive \cup {a}
        /\ drain' = [drain EXCEPT ![w].pc = "ack"] /\ UNCHANGED <<today, letters, hot, filed, lost>>
    BY <1>6 DEF PutCold
  <2>2. e \in Events /\ drain[w].at \in Days /\ a \in [event: Events, day: Days]
    BY <1>1, <2>1 DEF AuditTypes
  <2>3. /\ drain' \in [Drainers -> DrainState]
        /\ \A v \in Drainers : /\ drain'[v].event = drain[v].event /\ drain'[v].at = drain[v].at
                               /\ drain'[v].pc = IF v = w THEN "ack" ELSE drain[v].pc
    BY <1>1, <2>1 DEF AuditTypes, DrainState
  <2>4. AuditTypes'
    BY <1>1, <2>1, <2>2, <2>3 DEF AuditTypes
  <2>5. InOrder'
    <3>1. a.event = e /\ hot[e] # Unstamped
      BY <1>1, <2>1 DEF InOrder
    <3>. HIDE DEF a
    <3>. QED  BY <1>1, <2>1, <2>3, <3>1 DEF InOrder
  <2>6. ASSUME NEW f \in Events
        PROVE  Unheard(f)' \/ (Emitted(f)' /\ \E t \in Days : OfTime(f, t)')
    <3>1. Unheard(f) => Unheard(f)' /\ f # e
      BY <2>1, <2>3 DEF Unheard
    <3>2. Emitted(f) => Emitted(f)'
      BY <2>1 DEF Emitted
    <3>3. \A t \in Days : OfTime(f, t) => OfTime(f, t)'
      BY <2>1, <2>3 DEF OfTime
    <3>. QED  BY <1>1, <3>1, <3>2, <3>3
  <2>. QED  BY <2>4, <2>5, <2>6 DEF AuditInv
<1>7. ASSUME NEW w \in Drainers, DropLetter(w) \/ DrainFails(w) PROVE AuditInv'
  <2>. DEFINE e == drain[w].event
  <2>1. /\ drain[w].pc # "idle" /\ drain' = [drain EXCEPT ![w].pc = "idle"] /\ UNCHANGED <<today, hot, archive, lost>>
        /\ \/ letters' = letters /\ filed' = filed
           \/ /\ drain[w].pc = "ack" /\ filed' = filed \cup {e}
              /\ letters' = {m \in letters : m.event # e}
    BY <1>7 DEF DropLetter, DrainFails
  <2>2. e \in Events
    BY <1>1, <2>1 DEF AuditTypes
  <2>3. /\ drain' \in [Drainers -> DrainState]
        /\ \A v \in Drainers : /\ drain'[v].event = drain[v].event /\ drain'[v].at = drain[v].at
                               /\ drain'[v].pc = IF v = w THEN "idle" ELSE drain[v].pc
    BY <1>1, <2>1 DEF AuditTypes, DrainState
  <2>4. AuditTypes'
    BY <1>1, <2>1, <2>3 DEF AuditTypes
  <2>5. InOrder'
    BY <1>1, <2>1, <2>3 DEF InOrder
  <2>6. ASSUME NEW f \in Events
        PROVE  Unheard(f)' \/ (Emitted(f)' /\ \E t \in Days : OfTime(f, t)')
    <3>1. Unheard(f) => Unheard(f)'
      BY <2>1, <2>3 DEF Unheard
    <3>2. Emitted(f) => Emitted(f)'
      BY <2>1 DEF Emitted
    <3>3. \A t \in Days : OfTime(f, t) => OfTime(f, t)'
      BY <2>1, <2>3 DEF OfTime
    <3>. QED  BY <1>1, <3>1, <3>2, <3>3
  <2>. QED  BY <2>4, <2>5, <2>6 DEF AuditInv
<1>8. CASE GiveUp
  <2>1. PICK m \in letters : lost' = lost \cup {m.event} /\ letters' = letters \ {m}
    BY <1>8 DEF GiveUp
  <2>2. UNCHANGED <<today, hot, archive, filed, drain>>
    BY <1>8 DEF GiveUp
  <2>3. AuditTypes' /\ InOrder'
    BY <1>1, <2>1, <2>2 DEF AuditTypes, InOrder
  <2>4. ASSUME NEW f \in Events
        PROVE  Unheard(f)' \/ (Emitted(f)' /\ \E t \in Days : OfTime(f, t)')
    <3>1. Unheard(f) => Unheard(f)'
      BY <2>1, <2>2 DEF Unheard
    <3>2. Emitted(f) => Emitted(f)'
      BY <2>1, <2>2 DEF Emitted
    <3>3. \A t \in Days : OfTime(f, t) => OfTime(f, t)'
      BY <2>1, <2>2 DEF OfTime
    <3>. QED  BY <1>1, <3>1, <3>2, <3>3
  <2>. QED  BY <2>3, <2>4 DEF AuditInv
<1>9. CASE Midnight
  <2>1. today' \in Days
    BY <1>1, <1>9, AuditTrailAssumption DEF Midnight, AuditTypes, Days
  <2>. QED  BY <1>1, <1>9, <2>1 DEF Midnight, AuditInv, AuditTypes, Unheard, OfTime, Emitted, InOrder
<1>. QED  BY <1>2, <1>3, <1>4, <1>5, <1>6, <1>7, <1>8, <1>9 DEF AuditTrailNext

\* Whatever is handled again, by several invocations and after midnight, an
\* event that was filed is in both stores and in the bucket once.
THEOREM EventsAreArchivedOnce == AuditTrailSpec => []ArchivedOnce
<1>1. AuditInv => ArchivedOnce
  <2>. SUFFICES ASSUME AuditInv PROVE ArchivedOnce
    OBVIOUS
  <2>1. AuditTypes /\ InOrder
    BY DEF AuditInv
  <2>2. ASSUME NEW a \in archive
        PROVE  /\ a = [event |-> a.event, day |-> a.day] /\ hot[a.event] = a.day
    <3>1. a \in [event: Events, day: Days]
      BY <2>1 DEF AuditTypes
    <3>2. PICK t \in Days : OfTime(a.event, t)
      BY <3>1 DEF AuditInv, Unheard
    <3>3. hot[a.event] \in {Unstamped, t} /\ a.day = t /\ hot[a.event] # Unstamped
      BY <2>1, <3>2 DEF OfTime, InOrder
    <3>. QED  BY <3>1, <3>3
  <2>3. \A a, b \in archive : a.event = b.event => a = b
    BY <2>2
  <2>. QED  BY <2>1, <2>2, <2>3 DEF ArchivedOnce, InOrder
<1>. QED  BY <1>1, AuditTrailStarts, AuditSteps, PTL DEF AuditTrailSpec

\* An event has one message, on the queue or off it; an invocation's was received.
OneLetter ==
  /\ \A k, m \in letters : k.event = m.event => k = m
  /\ \A m \in letters : m.event \notin filed \cup lost
Taken(e) == e \in filed \cup lost \/ \E m \in letters : m.event = e /\ m.n > 0
LettersInv == AuditInv /\ OneLetter /\ \A w \in Drainers : drain[w].pc # "idle" => Taken(drain[w].event)

InQueue   == {[msg |-> m.event, n |-> m.n] : m \in letters}
InStores  == {e \in Events : hot[e] # Unstamped /\ \E a \in archive : a.event = e}

LEMMA LettersKnown == Letters!Known = {m.event : m \in letters} \cup filed \cup lost
<1>1. \A m \in letters : [msg |-> m.event, n |-> m.n].msg = m.event
  OBVIOUS
<1>2. {e.msg : e \in InQueue} = {m.event : m \in letters}
  BY <1>1 DEF InQueue
<1>. QED  BY <1>2 DEF Letters!Known, InQueue

\* One message leaves the queue.
LEMMA LetterLeaves ==
  ASSUME OneLetter, NEW m \in letters, letters' = letters \ {m}
  PROVE  InQueue' = InQueue \ {[msg |-> m.event, n |-> m.n]}
<1>1. \A k \in letters : [msg |-> k.event, n |-> k.n] = [msg |-> m.event, n |-> m.n] => k = m
  <2>1. \A k \in letters : [msg |-> k.event, n |-> k.n].msg = k.event
    OBVIOUS
  <2>. QED  BY <2>1 DEF OneLetter
<1>. QED  BY <1>1 DEF InQueue

LEMMA LetterSteps ==
  ASSUME LettersInv, [AuditTrailNext]_auditVars
  PROVE  OneLetter' /\ (\A w \in Drainers : drain[w].pc # "idle" => Taken(drain[w].event))'
         /\ [Letters!Next]_(Letters!deliveryVars)
<1>. USE DaysKnown
<1>. DEFINE Received == \A w \in Drainers : drain[w].pc # "idle" => Taken(drain[w].event)
<1>1. AuditTypes /\ InOrder /\ OneLetter /\ Received
  BY DEF LettersInv, AuditInv
<1>2. ASSUME InStores \subseteq InStores', UNCHANGED <<letters, filed, lost>> PROVE Letters!Next
  BY <1>2 DEF Letters!Next, InStores
<1>3. ASSUME UNCHANGED <<hot, archive>> PROVE InStores' = InStores
  BY <1>3 DEF InStores
<1>4. ASSUME UNCHANGED <<letters, filed, lost>>,
             \A w \in Drainers : drain'[w].pc # "idle" => drain[w].pc # "idle" /\ drain'[w].event = drain[w].event
      PROVE  OneLetter' /\ Received'
  BY <1>1, <1>4 DEF OneLetter, Taken
<1>5. CASE UNCHANGED auditVars
  BY <1>2, <1>3, <1>4, <1>5 DEF auditVars
<1>6. ASSUME NEW e \in Events, Emit(e) PROVE OneLetter' /\ Received' /\ Letters!Next
  <2>. DEFINE m == [event |-> e, at |-> today, n |-> 0]
  <2>1. letters' = letters \cup {m} /\ UNCHANGED <<today, hot, archive, filed, lost, drain>>
    BY <1>6 DEF Emit, Stamped
  <2>2. m.event = e /\ m.n = 0
    OBVIOUS
  <2>3. (\A k \in letters : k.event # e) /\ e \notin filed \cup lost
    BY <1>6 DEF Emit
  <2>. HIDE DEF m
  <2>4. OneLetter' /\ Received'
    BY <1>1, <2>1, <2>2, <2>3 DEF OneLetter, Taken
  <2>5. InQueue' = InQueue \cup {[msg |-> e, n |-> 0]}
    BY <2>1, <2>2 DEF InQueue
  <2>6. e \notin Letters!Known
    BY <2>3, LettersKnown
  <2>7. Letters!Send
    <3>1. [msg |-> e, n |-> 0].msg = e
      OBVIOUS
    <3>. QED  BY <2>1, <2>5, <2>6, <3>1 DEF Letters!Send, InQueue
  <2>. QED  BY <1>3, <2>1, <2>4, <2>7 DEF Letters!Next, InStores
<1>7. ASSUME NEW w \in Drainers, TakeLetter(w) PROVE OneLetter' /\ Received' /\ Letters!Next
  <2>1. PICK m \in letters :
          /\ m.n < MaxAuditReceive
          /\ letters' = (letters \ {m}) \cup {[m EXCEPT !.n = @ + 1]}
          /\ drain' = [drain EXCEPT ![w] = [pc |-> "hot", event |-> m.event, at |-> Stamped(m.at)]]
    BY <1>7 DEF TakeLetter
  <2>. DEFINE m1 == [m EXCEPT !.n = @ + 1]
              e  == [msg |-> m.event, n |-> m.n]
              e1 == [msg |-> m.event, n |-> m.n + 1]
  <2>2. m1.event = m.event /\ m1.n = m.n + 1 /\ m.n \in Nat /\ [e EXCEPT !.n = @ + 1] = e1 /\ e.n = m.n
    BY <1>1 DEF AuditTypes
  <2>3. UNCHANGED <<hot, archive, filed, lost>>
    BY <1>7 DEF TakeLetter
  <2>4. \A v \in Drainers : drain'[v].event = IF v = w THEN m.event ELSE drain[v].event
    BY <1>1, <2>1 DEF AuditTypes
  <2>5. \A v \in Drainers \ {w} : drain'[v].pc = drain[v].pc
    BY <1>1, <2>1 DEF AuditTypes
  <2>6. letters' = (letters \ {m}) \cup {m1}
    BY <2>1
  <2>. HIDE DEF m1
  <2>7. OneLetter'
    BY <1>1, <2>2, <2>3, <2>6 DEF OneLetter
  <2>8. Taken(m.event)' /\ \A f : Taken(f) => Taken(f)'
    BY <2>2, <2>3, <2>6 DEF Taken
  <2>9. Received'
    BY <1>1, <2>4, <2>5, <2>8 DEF Taken
  <2>10. InQueue' = (InQueue \ {e}) \cup {e1} /\ e \in InQueue
    <3>1. \A k \in letters : [msg |-> k.event, n |-> k.n] = e => k = m
      <4>1. \A k \in letters : [msg |-> k.event, n |-> k.n].msg = k.event
        OBVIOUS
      <4>. QED  BY <1>1, <4>1 DEF OneLetter
    <3>. QED  BY <2>2, <2>6, <3>1 DEF InQueue
  <2>. HIDE DEF e, e1
  <2>11. Letters!Receive(e)
    BY <2>1, <2>2, <2>3, <2>10 DEF Letters!Receive, InQueue
  <2>. QED  BY <1>3, <2>3, <2>7, <2>9, <2>10, <2>11 DEF Letters!Next, InStores, InQueue
<1>8. ASSUME NEW w \in Drainers, PutHot(w) \/ PutCold(w) PROVE OneLetter' /\ Received' /\ Letters!Next
  <2>1. drain[w].event \in Events /\ drain[w].at \in Days
    BY <1>1, <1>8 DEF AuditTypes, PutHot, PutCold
  <2>2. \A f \in Events : hot[f] # Unstamped => hot'[f] # Unstamped
    BY <1>1, <1>8, <2>1 DEF AuditTypes, PutHot, PutCold
  <2>3. InStores \subseteq InStores' /\ UNCHANGED <<letters, filed, lost>>
    BY <1>8, <2>2 DEF InStores, PutHot, PutCold
  <2>4. \A v \in Drainers : drain'[v].pc # "idle" => drain[v].pc # "idle" /\ drain'[v].event = drain[v].event
    BY <1>1, <1>8 DEF AuditTypes, DrainState, PutHot, PutCold
  <2>. QED  BY <1>2, <1>4, <2>3, <2>4
<1>9. ASSUME NEW w \in Drainers, DropLetter(w) PROVE OneLetter' /\ Received' /\ Letters!Next
  <2>. DEFINE mine == {m \in letters : m.event = drain[w].event}
  <2>1. /\ letters' = letters \ mine /\ filed' = filed \cup {m.event : m \in mine}
        /\ UNCHANGED <<hot, archive, lost>> /\ drain[w].pc = "ack"
    BY <1>9 DEF DropLetter
  <2>2. \A v \in Drainers : drain'[v].event = drain[v].event /\ (drain'[v].pc # "idle" => drain[v].pc # "idle")
    BY <1>1, <1>9 DEF AuditTypes, DrainState, DropLetter
  <2>3. CASE mine = {}
    <3>1. UNCHANGED <<letters, filed>>
      BY <2>1, <2>3
    <3>. QED  BY <1>2, <1>3, <1>4, <2>1, <2>2, <3>1
  <2>4. ASSUME NEW m \in mine PROVE OneLetter' /\ Received' /\ Letters!Next
    <3>. DEFINE e == [msg |-> m.event, n |-> m.n]
    <3>1. mine = {m} /\ m \in letters /\ m.event = drain[w].event
      BY <1>1, <2>4 DEF OneLetter
    <3>2. letters' = letters \ {m} /\ filed' = filed \cup {m.event}
      BY <2>1, <3>1
    <3>3. OneLetter'
      BY <1>1, <2>1, <3>1, <3>2 DEF OneLetter
    <3>4. Received'
      BY <1>1, <2>1, <2>2, <3>2 DEF Taken
    <3>5. m.n > 0
      BY <1>1, <2>1, <3>1 DEF Taken, OneLetter
    <3>6. m.event \in InStores
      BY <1>1, <2>1, <3>1 DEF InOrder, InStores, AuditTypes
    <3>7. InQueue' = InQueue \ {e} /\ e \in InQueue /\ e.msg = m.event /\ e.n = m.n
      BY <1>1, <3>1, <3>2, LetterLeaves DEF InQueue
    <3>. HIDE DEF e
    <3>8. Letters!Delete(e)
      BY <2>1, <3>2, <3>5, <3>6, <3>7 DEF Letters!Delete, InQueue, InStores
    <3>. QED  BY <1>3, <2>1, <3>3, <3>4, <3>7, <3>8 DEF Letters!Next, InStores, InQueue
  <2>. QED  BY <2>3, <2>4
<1>10. ASSUME NEW w \in Drainers, DrainFails(w) PROVE OneLetter' /\ Received' /\ Letters!Next
  <2>1. \A v \in Drainers : drain'[v].pc # "idle" => drain[v].pc # "idle" /\ drain'[v].event = drain[v].event
    BY <1>1, <1>10 DEF AuditTypes, DrainState, DrainFails
  <2>. QED  BY <1>2, <1>3, <1>4, <1>10, <2>1 DEF DrainFails
<1>11. CASE GiveUp
  <2>1. PICK m \in letters : m.n = MaxAuditReceive /\ lost' = lost \cup {m.event} /\ letters' = letters \ {m}
    BY <1>11 DEF GiveUp
  <2>. DEFINE e == [msg |-> m.event, n |-> m.n]
  <2>2. UNCHANGED <<hot, archive, filed, drain>>
    BY <1>11 DEF GiveUp
  <2>3. OneLetter'
    BY <1>1, <2>1, <2>2 DEF OneLetter
  <2>4. Received'
    BY <1>1, <2>1, <2>2 DEF Taken
  <2>5. InQueue' = InQueue \ {e} /\ e \in InQueue /\ e.msg = m.event /\ e.n = m.n
    BY <1>1, <2>1, LetterLeaves DEF InQueue
  <2>. HIDE DEF e
  <2>6. Letters!Bury(e)
    BY <2>1, <2>2, <2>5 DEF Letters!Bury, InQueue
  <2>. QED  BY <1>3, <2>2, <2>3, <2>4, <2>5, <2>6 DEF Letters!Next, InStores, InQueue
<1>12. CASE Midnight
  <2>1. \A v \in Drainers : drain'[v] = drain[v]
    BY <1>12 DEF Midnight
  <2>. QED  BY <1>2, <1>3, <1>4, <1>12, <2>1 DEF Midnight
<1>. QED  BY <1>5, <1>6, <1>7, <1>8, <1>9, <1>10, <1>11, <1>12 DEF AuditTrailNext

\* Whoever handles an event's message, however often and over however many
\* midnights: it is deleted only with the event in both stores, given up only
\* with its receives used up, and in neither case comes back.
THEOREM LettersKeepTheirPromise == AuditTrailSpec => LettersAreDelivered
<1>1. AuditTrailInit => LettersInv /\ Letters!Init
  BY AuditTrailStarts DEF AuditTrailInit, LettersInv, OneLetter, Letters!Init
<1>2. LettersInv /\ [AuditTrailNext]_auditVars => LettersInv' /\ [Letters!Next]_(Letters!deliveryVars)
  BY AuditSteps, LetterSteps DEF LettersInv
<1>. QED  BY <1>1, <1>2, PTL DEF AuditTrailSpec, LettersAreDelivered, Letters!Spec
-----------------------------------------------------------------------------
WorkspaceRow == [set: [Fields -> SettingValues], by: WorkspaceCalls, base: Nat]
CallState == [ pc: {"idle", "create", "put", "done"}, ws: Workspaces \cup {NoWorkspace}, req: Request, base: Nat ]

SettingsTypes ==
  /\ wrows \in [Workspaces -> Seq(WorkspaceRow)]
  /\ wcall \in [WorkspaceCalls -> CallState]

\* A call that is under way knows its workspace, and an update the row it read;
\* a call that put a row is over, so what it asked for is what it asked for then.
CallsInv ==
  /\ \A c \in WorkspaceCalls :
       /\ wcall[c].pc = "create" => wcall[c].ws \in aliases
       /\ wcall[c].pc = "put" => wcall[c].ws \in Workspaces /\ wcall[c].base \in 1..Len(wrows[wcall[c].ws])
  /\ aliases \subseteq Workspaces
  /\ \A w \in Workspaces : \A i \in DOMAIN wrows[w] : wcall[wrows[w][i].by].pc = "done"

SettingsInv == SettingsTypes /\ CallsInv /\ SettingsAreUndoneOnlyByOverlap

\* What the rows of a workspace keep of a setting, given what was asked for.
KeepsSetting(rows, calls, f) ==
  \A i \in DOMAIN rows : \A j \in i..Len(rows) :
    calls[rows[i].by].req[f] # Unset =>
      \/ rows[j].set[f] = rows[i].set[f]
      \/ \E k \in i+1..j : calls[rows[k].by].req[f] # Unset \/ rows[k].base < i

LEMMA SettingsByRows ==
  SettingsAreUndoneOnlyByOverlap <=>
    \A w \in Workspaces : /\ DOMAIN wrows[w] # {} => w \in aliases
                          /\ \A f \in Fields : KeepsSetting(wrows[w], wcall, f)
BY DEF SettingsAreUndoneOnlyByOverlap, KeepsSetting

\* One row more: of a call that names the setting, or of one that copies it from
\* the row it had read.
LEMMA RowKeepsSetting ==
  ASSUME NEW rows \in Seq(WorkspaceRow), NEW calls, NEW f \in Fields, KeepsSetting(rows, calls, f), NEW row \in WorkspaceRow,
         \/ calls[row.by].req[f] # Unset
         \/ row.base = 0
         \/ row.base \in 1..Len(rows) /\ row.set[f] = rows[row.base].set[f]
  PROVE  KeepsSetting(Append(rows, row), calls, f)
<1>. DEFINE more == Append(rows, row)
            n == Len(rows)
<1>1. /\ n \in Nat /\ DOMAIN rows = 1..n /\ Len(more) = n + 1 /\ DOMAIN more = 1..n + 1
      /\ more[n + 1] = row /\ \A i \in 1..n : more[i] = rows[i]
  OBVIOUS
<1>2. \A i \in 1..n : rows[i].base \in Nat
  <2>1. \A i \in 1..n : rows[i] \in WorkspaceRow
    BY <1>1
  <2>. QED  BY <2>1 DEF WorkspaceRow
<1>. HIDE DEF more
<1>. SUFFICES ASSUME NEW i \in 1..n + 1, NEW j \in i..n + 1, calls[more[i].by].req[f] # Unset
              PROVE  \/ more[j].set[f] = more[i].set[f]
                     \/ \E k \in i+1..j : calls[more[k].by].req[f] # Unset \/ more[k].base < i
  BY <1>1 DEF KeepsSetting, more
<1>3. CASE i = n + 1
  BY <1>1, <1>3
<1>4. CASE i \in 1..n /\ j \in i..n
  <2>1. \/ rows[j].set[f] = rows[i].set[f]
        \/ \E k \in i+1..j : calls[rows[k].by].req[f] # Unset \/ rows[k].base < i
    BY <1>1, <1>4 DEF KeepsSetting
  <2>2. \A k \in i..j : more[k] = rows[k]
    BY <1>1, <1>4
  <2>. QED  BY <1>1, <1>4, <2>1, <2>2
<1>5. CASE i \in 1..n /\ j = n + 1
  <2>1. CASE calls[row.by].req[f] # Unset \/ row.base < i
    <3>1. n + 1 \in i+1..j /\ more[n + 1] = row
      BY <1>1, <1>5
    <3>. QED  BY <2>1, <3>1
  <2>2. CASE row.base \in i..n /\ row.set[f] = rows[row.base].set[f]
    <3>1. PICK b \in i..n : b = row.base
      BY <2>2
    <3>2. \/ rows[b].set[f] = rows[i].set[f]
          \/ \E k \in i+1..b : calls[rows[k].by].req[f] # Unset \/ rows[k].base < i
      BY <1>1, <1>5 DEF KeepsSetting
    <3>3. \A k \in i..b : k \in i..j /\ more[k] = rows[k] /\ (k \in i+1..b => k \in i+1..j)
      BY <1>1, <1>5
    <3>4. more[j].set[f] = rows[b].set[f]
      BY <1>1, <1>5, <2>2, <3>1
    <3>. QED  BY <1>1, <1>5, <3>2, <3>3, <3>4
  <2>3. row.base \in Nat
    BY DEF WorkspaceRow
  <2>. QED  BY <1>1, <1>5, <2>1, <2>2, <2>3
<1>. QED  BY <1>1, <1>3, <1>4, <1>5

LEMMA WorkspacesStart == WorkspaceInit => SettingsInv
<1>. SUFFICES ASSUME WorkspaceInit PROVE SettingsInv
  OBVIOUS
<1>1. NoRequestYet \in Request /\ \A w \in Workspaces : wrows[w] = <<>>
  BY DEF WorkspaceInit, NoRequestYet, Request
<1>2. SettingsTypes
  BY <1>1 DEF WorkspaceInit, SettingsTypes, CallState
<1>3. CallsInv
  BY <1>1 DEF WorkspaceInit, CallsInv
<1>4. SettingsAreUndoneOnlyByOverlap
  BY <1>1 DEF SettingsAreUndoneOnlyByOverlap
<1>. QED  BY <1>2, <1>3, <1>4 DEF SettingsInv

\* A call that has put no row moves and puts none.
LEMMA CallMoves ==
  ASSUME SettingsInv, NEW c \in WorkspaceCalls, wcall[c].pc # "done", NEW k \in CallState,
         wcall' = [wcall EXCEPT ![c] = k], UNCHANGED wrows, aliases \subseteq aliases', aliases' \subseteq Workspaces,
         k.pc = "create" => k.ws \in aliases',
         k.pc = "put" => k.ws \in Workspaces /\ k.base \in 1..Len(wrows[k.ws])
  PROVE  SettingsInv'
<1>1. wcall' \in [WorkspaceCalls -> CallState] /\ \A d \in WorkspaceCalls : wcall'[d] = IF d = c THEN k ELSE wcall[d]
  BY DEF SettingsInv, SettingsTypes
<1>2. ASSUME NEW w \in Workspaces, NEW i \in DOMAIN wrows[w]
      PROVE  wrows[w][i].by \in WorkspaceCalls /\ wrows[w][i].by # c
  <2>1. wrows[w] \in Seq(WorkspaceRow)
    BY DEF SettingsInv, SettingsTypes
  <2>2. wrows[w][i] \in WorkspaceRow
    BY <2>1
  <2>. QED  BY <2>2 DEF SettingsInv, CallsInv, WorkspaceRow
<1>3. ASSUME NEW w \in Workspaces, NEW i \in DOMAIN wrows[w]
      PROVE  wcall'[wrows[w][i].by] = wcall[wrows[w][i].by]
  BY <1>1, <1>2
<1>4. SettingsTypes'
  BY <1>1 DEF SettingsInv, SettingsTypes
<1>5. CallsInv'
  BY <1>1, <1>3 DEF SettingsInv, CallsInv
<1>6. SettingsAreUndoneOnlyByOverlap'
  <2>. SUFFICES ASSUME NEW w \in Workspaces PROVE /\ DOMAIN wrows'[w] # {} => w \in aliases'
                                                  /\ \A f \in Fields : KeepsSetting(wrows'[w], wcall', f)
    BY DEF SettingsAreUndoneOnlyByOverlap, KeepsSetting
  <2>1. DOMAIN wrows[w] # {} => w \in aliases
    BY SettingsByRows DEF SettingsInv
  <2>2. \A f \in Fields : KeepsSetting(wrows[w], wcall, f)
    BY SettingsByRows DEF SettingsInv
  <2>3. DOMAIN wrows[w] = 1..Len(wrows[w]) /\ Len(wrows[w]) \in Nat
    BY DEF SettingsInv, SettingsTypes
  <2>4. \A f \in Fields : KeepsSetting(wrows[w], wcall', f)
    BY <1>3, <2>2, <2>3 DEF KeepsSetting
  <2>. QED  BY <2>1, <2>4
<1>. QED  BY <1>4, <1>5, <1>6 DEF SettingsInv

\* A call puts its row and is over.
LEMMA CallPuts ==
  ASSUME SettingsInv, NEW c \in WorkspaceCalls, wcall[c].pc # "done",
         NEW w \in Workspaces, w \in aliases, NEW row \in WorkspaceRow, row.by = c, PutWorkspace(w, row),
         wcall' = [wcall EXCEPT ![c].pc = "done"], UNCHANGED aliases,
         \A f \in Fields : \/ wcall[c].req[f] # Unset
                           \/ row.base = 0
                           \/ row.base \in 1..Len(wrows[w]) /\ row.set[f] = wrows[w][row.base].set[f]
  PROVE  SettingsInv'
<1>. DEFINE more == Append(wrows[w], row)
<1>1. /\ wcall' \in [WorkspaceCalls -> CallState]
      /\ \A d \in WorkspaceCalls : /\ wcall'[d].req = wcall[d].req /\ wcall'[d].ws = wcall[d].ws
                                   /\ wcall'[d].base = wcall[d].base
                                   /\ wcall'[d].pc = IF d = c THEN "done" ELSE wcall[d].pc
  BY DEF SettingsInv, SettingsTypes, CallState
<1>2. wrows[w] \in Seq(WorkspaceRow) /\ more \in Seq(WorkspaceRow) /\ DOMAIN more = DOMAIN wrows[w] \cup {Len(wrows[w]) + 1}
      /\ Len(more) = Len(wrows[w]) + 1 /\ Len(wrows[w]) \in Nat /\ more[Len(wrows[w]) + 1] = row
      /\ \A i \in DOMAIN wrows[w] : more[i] = wrows[w][i]
  BY DEF SettingsInv, SettingsTypes
<1>. HIDE DEF more
<1>3. wrows' \in [Workspaces -> Seq(WorkspaceRow)] /\ \A v \in Workspaces : wrows'[v] = IF v = w THEN more ELSE wrows[v]
  BY <1>2 DEF SettingsInv, SettingsTypes, PutWorkspace, more
<1>4. ASSUME NEW v \in Workspaces, NEW i \in DOMAIN wrows[v]
      PROVE  wrows[v][i].by \in WorkspaceCalls
  <2>1. wrows[v] \in Seq(WorkspaceRow)
    BY DEF SettingsInv, SettingsTypes
  <2>2. wrows[v][i] \in WorkspaceRow
    BY <2>1
  <2>. QED  BY <2>2 DEF WorkspaceRow
<1>5. SettingsTypes'
  BY <1>1, <1>3 DEF SettingsTypes
<1>6. CallsInv'
  <2>1. ASSUME NEW d \in WorkspaceCalls
        PROVE  /\ wcall'[d].pc = "create" => wcall'[d].ws \in aliases'
               /\ wcall'[d].pc = "put" => /\ wcall'[d].ws \in Workspaces
                                          /\ wcall'[d].base \in 1..Len(wrows'[wcall'[d].ws])
    <3>1. wcall'[d].pc = "create" => wcall'[d].ws \in aliases'
      BY <1>1 DEF SettingsInv, CallsInv
    <3>2. CASE wcall'[d].pc = "put"
      <4>1. wcall[d].ws \in Workspaces /\ wcall[d].base \in 1..Len(wrows[wcall[d].ws])
        BY <1>1, <3>2 DEF SettingsInv, CallsInv
      <4>. QED  BY <1>1, <1>2, <1>3, <3>1, <4>1
    <3>. QED  BY <3>1, <3>2
  <2>2. ASSUME NEW v \in Workspaces, NEW i \in DOMAIN wrows'[v] PROVE wcall'[wrows'[v][i].by].pc = "done"
    <3>1. CASE i \in DOMAIN wrows[v] /\ wrows'[v][i] = wrows[v][i]
      BY <1>1, <1>4, <3>1 DEF SettingsInv, CallsInv
    <3>2. CASE wrows'[v][i] = row
      BY <1>1, <3>2
    <3>. QED  BY <1>2, <1>3, <3>1, <3>2
  <2>. QED  BY <2>1, <2>2 DEF SettingsInv, CallsInv
<1>7. SettingsAreUndoneOnlyByOverlap'
  <2>. SUFFICES ASSUME NEW v \in Workspaces PROVE /\ DOMAIN wrows'[v] # {} => v \in aliases'
                                                  /\ \A f \in Fields : KeepsSetting(wrows'[v], wcall', f)
    BY DEF SettingsAreUndoneOnlyByOverlap, KeepsSetting
  <2>1. DOMAIN wrows'[v] # {} => v \in aliases'
    BY <1>3, SettingsByRows DEF SettingsInv
  <2>2. ASSUME NEW f \in Fields PROVE KeepsSetting(wrows'[v], wcall, f)
    <3>1. KeepsSetting(wrows[v], wcall, f)
      BY SettingsByRows DEF SettingsInv
    <3>2. CASE v = w
      <4>1. KeepsSetting(more, wcall, f)
        <5>1. PICK rows \in Seq(WorkspaceRow) : rows = wrows[w]
          BY <1>2
        <5>2. PICK calls : calls = wcall
          OBVIOUS
        <5>3. \/ calls[row.by].req[f] # Unset
              \/ row.base = 0
              \/ row.base \in 1..Len(rows) /\ row.set[f] = rows[row.base].set[f]
          BY <5>1, <5>2
        <5>4. KeepsSetting(rows, calls, f)
          BY <3>1, <3>2, <5>1, <5>2
        <5>5. KeepsSetting(Append(rows, row), calls, f)
          BY <5>3, <5>4, RowKeepsSetting
        <5>. QED  BY <5>1, <5>2, <5>5 DEF more
      <4>. QED  BY <1>3, <3>2, <4>1
    <3>3. CASE v # w
      BY <1>3, <3>1, <3>3
    <3>. QED  BY <3>2, <3>3
  <2>3. \A i \in DOMAIN wrows'[v] : wcall'[wrows'[v][i].by].req = wcall[wrows'[v][i].by].req
    <3>1. wrows'[v] \in Seq(WorkspaceRow)
      BY <1>3
    <3>2. \A i \in DOMAIN wrows'[v] : wrows'[v][i] \in WorkspaceRow
      BY <3>1
    <3>3. \A i \in DOMAIN wrows'[v] : wrows'[v][i].by \in WorkspaceCalls
      BY <3>2 DEF WorkspaceRow
    <3>. QED  BY <1>1, <3>3
  <2>4. DOMAIN wrows'[v] = 1..Len(wrows'[v]) /\ Len(wrows'[v]) \in Nat
    BY <1>3
  <2>5. \A f \in Fields : KeepsSetting(wrows'[v], wcall', f)
    BY <2>2, <2>3, <2>4 DEF KeepsSetting
  <2>. QED  BY <2>1, <2>5
<1>. QED  BY <1>5, <1>6, <1>7 DEF SettingsInv

LEMMA CallSteps ==
  ASSUME SettingsInv, NEW c \in WorkspaceCalls,
         \/ CreateAlias(c) \/ CreateWorkspacePut(c) \/ UpdateWorkspaceGet(c)
         \/ UpdateWorkspacePut(c) \/ WorkspaceCallFails(c)
  PROVE  SettingsInv'
<1>1. /\ wrows \in [Workspaces -> Seq(WorkspaceRow)] /\ wcall \in [WorkspaceCalls -> CallState] /\ wcall[c] \in CallState
      /\ aliases \subseteq Workspaces
      /\ wcall[c].pc = "create" => wcall[c].ws \in aliases
      /\ wcall[c].pc = "put" => wcall[c].ws \in Workspaces /\ wcall[c].base \in 1..Len(wrows[wcall[c].ws])
  BY DEF SettingsInv, SettingsTypes, CallsInv
<1>2. /\ wcall[c].req \in Request /\ wcall[c].base \in Nat
      /\ \A v \in SettingValues \cup {Unset} : OrDefault(v) \in SettingValues
  BY <1>1, SettingsAssumption DEF CallState, OrDefault
<1>3. CASE CreateAlias(c)
  <2>1. PICK w \in Workspaces \ aliases, r \in Request :
          /\ aliases' = aliases \cup {w}
          /\ wcall' = [wcall EXCEPT ![c] = [pc |-> "create", ws |-> w, req |-> r, base |-> 0]]
    BY <1>3 DEF CreateAlias
  <2>. DEFINE k == [pc |-> "create", ws |-> w, req |-> r, base |-> 0]
  <2>2. k \in CallState /\ k.pc = "create" /\ k.ws = w /\ wcall' = [wcall EXCEPT ![c] = k]
    BY <2>1 DEF CallState
  <2>3. UNCHANGED wrows /\ wcall[c].pc = "idle"
    BY <1>3 DEF CreateAlias
  <2>. HIDE DEF k
  <2>. QED  BY <1>1, <2>1, <2>2, <2>3, CallMoves
<1>4. CASE UpdateWorkspaceGet(c)
  <2>1. PICK w \in Workspaces, r \in Request :
          wcall' = [wcall EXCEPT ![c] = [ pc |-> IF wrows[w] # <<>> THEN "put" ELSE "done",
                                          ws |-> w, req |-> r, base |-> Len(wrows[w]) ]]
    BY <1>4 DEF UpdateWorkspaceGet
  <2>. DEFINE p == IF wrows[w] # <<>> THEN "put" ELSE "done"
              k == [pc |-> p, ws |-> w, req |-> r, base |-> Len(wrows[w])]
  <2>2. Len(wrows[w]) \in Nat /\ p \in {"put", "done"} /\ (p = "put" => Len(wrows[w]) \in 1..Len(wrows[w]))
    BY <1>1
  <2>3. wcall' = [wcall EXCEPT ![c] = k]
    BY <2>1
  <2>. HIDE DEF p
  <2>4. k \in CallState /\ k.pc = p /\ k.ws = w /\ k.base = Len(wrows[w])
    BY <2>2 DEF CallState
  <2>5. UNCHANGED <<wrows, aliases>> /\ wcall[c].pc = "idle"
    BY <1>4 DEF UpdateWorkspaceGet
  <2>. HIDE DEF k
  <2>. QED  BY <1>1, <2>2, <2>3, <2>4, <2>5, CallMoves
<1>5. CASE WorkspaceCallFails(c)
  <2>. DEFINE k == [wcall[c] EXCEPT !.pc = "done"]
  <2>1. /\ k \in CallState /\ k.pc = "done" /\ wcall' = [wcall EXCEPT ![c] = k]
        /\ UNCHANGED <<wrows, aliases>> /\ wcall[c].pc # "done"
    BY <1>1, <1>5 DEF CallState, WorkspaceCallFails
  <2>. HIDE DEF k
  <2>. QED  BY <1>1, <2>1, CallMoves
<1>6. CASE CreateWorkspacePut(c)
  <2>. DEFINE s == [f \in Fields |-> OrDefault(wcall[c].req[f])]
              row == [set |-> s, by |-> c, base |-> 0]
  <2>1. /\ wcall[c].pc = "create" /\ PutWorkspace(wcall[c].ws, row)
        /\ wcall' = [wcall EXCEPT ![c].pc = "done"] /\ UNCHANGED aliases
    BY <1>6 DEF CreateWorkspacePut
  <2>2. s \in [Fields -> SettingValues]
    BY <1>2 DEF Request
  <2>. HIDE DEF s
  <2>3. row \in WorkspaceRow /\ row.by = c /\ row.base = 0
    BY <2>2 DEF WorkspaceRow
  <2>4. PICK w \in Workspaces : w = wcall[c].ws /\ w \in aliases
    BY <1>1, <2>1
  <2>. HIDE DEF row
  <2>. QED  BY <2>1, <2>3, <2>4, CallPuts
<1>7. CASE UpdateWorkspacePut(c)
  <2>1. PICK w \in Workspaces : w = wcall[c].ws
    BY <1>1, <1>7 DEF UpdateWorkspacePut
  <2>. DEFINE b == wcall[c].base
              r == wcall[c].req
              s == [f \in Fields |-> IF r[f] # Unset THEN r[f] ELSE wrows[w][b].set[f]]
              row == [set |-> s, by |-> c, base |-> b]
  <2>2. /\ wcall[c].pc = "put" /\ PutWorkspace(w, row)
        /\ wcall' = [wcall EXCEPT ![c].pc = "done"] /\ UNCHANGED aliases
    BY <1>7, <2>1 DEF UpdateWorkspacePut
  <2>3. b \in 1..Len(wrows[w]) /\ b \in Nat
    BY <1>1, <1>2, <2>1, <2>2
  <2>4. wrows[w][b].set \in [Fields -> SettingValues]
    <3>1. wrows[w] \in Seq(WorkspaceRow)
      BY <1>1
    <3>2. wrows[w][b] \in WorkspaceRow
      BY <2>3, <3>1
    <3>. QED  BY <3>2 DEF WorkspaceRow
  <2>5. s \in [Fields -> SettingValues] /\ \A f \in Fields : r[f] # Unset \/ s[f] = wrows[w][b].set[f]
    BY <1>2, <2>4 DEF Request
  <2>. HIDE DEF s
  <2>6. row \in WorkspaceRow /\ row.by = c /\ row.base = b /\ row.set = s
    BY <2>3, <2>5 DEF WorkspaceRow
  <2>7. w \in aliases
    <3>1. wrows[w] \in Seq(WorkspaceRow)
      BY <1>1
    <3>2. b \in DOMAIN wrows[w]
      <4>1. DOMAIN wrows[w] = 1..Len(wrows[w])
        BY <3>1
      <4>. QED  BY <2>3, <4>1
    <3>3. SettingsAreUndoneOnlyByOverlap
      BY DEF SettingsInv
    <3>. QED  BY <3>2, <3>3 DEF SettingsAreUndoneOnlyByOverlap
  <2>. HIDE DEF row
  <2>8. \A f \in Fields : \/ wcall[c].req[f] # Unset
                          \/ row.base = 0
                          \/ row.base \in 1..Len(wrows[w]) /\ row.set[f] = wrows[w][row.base].set[f]
    BY <2>3, <2>5, <2>6
  <2>. HIDE DEF b, r
  <2>. QED  BY <2>1, <2>2, <2>6, <2>7, <2>8, CallPuts
<1>. QED  BY <1>3, <1>4, <1>5, <1>6, <1>7

\* What a caller gave a workspace is changed by a caller that names the setting,
\* or undone by one that had read the workspace before; for any calls.
THEOREM SettingsLast == WorkspaceSpec => []SettingsAreUndoneOnlyByOverlap
<1>1. SettingsInv /\ [WorkspaceNext]_workspaceVars => SettingsInv'
  <2>. SUFFICES ASSUME SettingsInv, [WorkspaceNext]_workspaceVars PROVE SettingsInv'
    OBVIOUS
  <2>1. CASE UNCHANGED workspaceVars
    BY <2>1 DEF workspaceVars, SettingsInv, SettingsTypes, CallsInv, SettingsAreUndoneOnlyByOverlap
  <2>. QED  BY <2>1, CallSteps DEF WorkspaceNext
<1>2. SettingsInv => SettingsAreUndoneOnlyByOverlap
  BY DEF SettingsInv
<1>. QED  BY <1>1, <1>2, WorkspacesStart, PTL DEF WorkspaceSpec
=============================================================================
