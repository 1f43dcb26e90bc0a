---------------------------- MODULE PipelineProofs ----------------------------
(***************************************************************************)
(* What the pipeline keeps for any executions, inputs, services and faults.*)
(***************************************************************************)
EXTENDS Pipeline, Inductions, SequenceTheorems, TLAPS

\* The members of an input have "documentId" until a Catch replaces them, and
\* from then on the execution is on its way to its end.
NamesDocument(x) == "documentId" \in exec[x].has \/ exec[x].at \in {"HandleError", "Broken"}

ExecutionInv ==
  /\ ExecutionTypeOK
  /\ \A x \in Executions : NamesDocument(x)
  /\ DispatchesNameTheirDocument
-----------------------------------------------------------------------------
\* The states that follow are states of the machine.
LEMMA FollowsAreStates ==
  \A s \in DOMAIN Announces \cup DOMAIN Dispatches : Follows[s] \in States
BY DEF Announces, Dispatches, Follows, States, Ends

LEMMA ChoicesAreStates ==
  \A r : RouteChoice(r) \in States /\ DispatchConvert(r) \in States
BY DEF RouteChoice, DispatchConvert, Announces, Dispatches, States, Ends

\* No failed send is called a DocumentProcessingError.
LEMMA CatchGoesToHandleError ==
  ASSUME NEW s, NEW e \in SendErrors
  PROVE  CatchTarget(s, e) = "HandleError"
BY DEF CatchTarget, SendErrors

LEMMA SomeStates == {"HandleError", "Broken", "Notify_FAILED", "Notify_QUEUED"} \subseteq States
BY DEF States, Ends, Announces, Dispatches

LEMMA MessagesAreSent ==
  /\ \A s \in DOMAIN Announces : \A h \in SUBSET Members :
       [queue |-> "state_change", status |-> Announces[s], has |-> h] \in Sent
  /\ \A s \in DOMAIN Dispatches : \A h \in SUBSET Members :
       [queue |-> Dispatches[s], status |-> "", has |-> h] \in Sent
BY DEF Sent

LEMMA MembersKnown == {"documentId"} \in SUBSET Members /\ {"Error"} \in SUBSET Members
BY DEF Members

\* Whatever is sent from an input that names its document names it too.
LEMMA AppendNames ==
  ASSUME NEW s \in Seq(Sent), NEW m \in Sent, "documentId" \in m.has,
         \A i \in DOMAIN s : "documentId" \in s[i].has
  PROVE  /\ Append(s, m) \in Seq(Sent)
         /\ \A i \in DOMAIN Append(s, m) : "documentId" \in Append(s, m)[i].has
<1>1. Append(s, m) \in Seq(Sent)
  OBVIOUS
<1>2. ASSUME NEW i \in DOMAIN Append(s, m) PROVE "documentId" \in Append(s, m)[i].has
  <2>1. i \in 1..Len(s) + 1 /\ DOMAIN s = 1..Len(s)
    OBVIOUS
  <2>2. CASE i \in 1..Len(s)
    <3>1. Append(s, m)[i] = s[i]
      BY <2>2
    <3>. QED  BY <3>1, <2>1, <2>2
  <2>3. CASE i = Len(s) + 1
    BY <2>3
  <2>. QED  BY <2>1, <2>2, <2>3
<1>. QED  BY <1>1, <1>2

-----------------------------------------------------------------------------
\* One execution moves and nothing else does.
LEMMA OneMoves ==
  ASSUME ExecutionInv, NEW x \in Executions, NEW y \in Execution,
         exec' = [exec EXCEPT ![x] = y],
         "documentId" \in y.has \/ y.at \in {"HandleError", "Broken"},
         \A i \in DOMAIN y.sent : "documentId" \in y.sent[i].has
  PROVE  ExecutionInv'
<1>1. exec \in [Executions -> Execution]
  BY DEF ExecutionInv, ExecutionTypeOK
<1>2. exec' \in [Executions -> Execution] /\ \A z \in Executions : exec'[z] = IF z = x THEN y ELSE exec[z]
  BY <1>1
<1>3. (\A z \in Executions : NamesDocument(z))'
  BY <1>2 DEF ExecutionInv, NamesDocument
<1>4. DispatchesNameTheirDocument'
  BY <1>2 DEF ExecutionInv, DispatchesNameTheirDocument
<1>. QED  BY <1>2, <1>3, <1>4 DEF ExecutionInv, ExecutionTypeOK

LEMMA ExecutionSteps ==
  ASSUME ExecutionInv, NEW x \in Executions, Proceed(x) \/ SendFails(x)
  PROVE  ExecutionInv'
<1>. DEFINE s == exec[x].at
<1>0. exec \in [Executions -> Execution] /\ exec[x] \in Execution /\ s \in States
  BY DEF ExecutionInv, ExecutionTypeOK, Execution
<1>1. NamesDocument(x) /\ \A i \in DOMAIN exec[x].sent : "documentId" \in exec[x].sent[i].has
  BY DEF ExecutionInv, DispatchesNameTheirDocument
<1>2. s \in DOMAIN Announces \cup DOMAIN Dispatches \/ s \in {"RouteChoice", "DispatchConvert"}
        => "documentId" \in exec[x].has
  BY <1>1 DEF NamesDocument, Announces, Dispatches
<1>3. ASSUME Break(x) PROVE ExecutionInv'
  <2>. DEFINE y == [exec[x] EXCEPT !.at = "Broken"]
  <2>1. exec' = [exec EXCEPT ![x] = y]
    BY <1>0, <1>3 DEF Break, Execution
  <2>2. y \in Execution /\ y.at = "Broken" /\ y.sent = exec[x].sent
    BY <1>0, SomeStates DEF Execution
  <2>. QED  BY <2>1, <2>2, <1>1, OneMoves
<1>4. CASE Announce(x)
  <2>. DEFINE m == [queue |-> "state_change", status |-> Announces[s], has |-> {"documentId"}]
              y == [exec[x] EXCEPT !.at = Follows[s], !.sent = Append(exec[x].sent, m)]
  <2>1. s \in DOMAIN Announces /\ "documentId" \in exec[x].has
    BY <1>4, <1>2 DEF Announce
  <2>2. exec' = [exec EXCEPT ![x] = y]
    BY <1>0, <1>4, <2>1 DEF Announce, Execution
  <2>3. m \in Sent /\ "documentId" \in m.has
    BY <2>1, MessagesAreSent, MembersKnown
  <2>4. /\ Append(exec[x].sent, m) \in Seq(Sent)
        /\ \A i \in DOMAIN Append(exec[x].sent, m) : "documentId" \in Append(exec[x].sent, m)[i].has
    <3>. HIDE DEF m
    <3>. QED  BY <1>0, <1>1, <2>3, AppendNames DEF Execution
  <2>5. Follows[s] \in States
    BY <2>1, FollowsAreStates
  <2>6. y \in Execution /\ y.has = exec[x].has /\ y.sent = Append(exec[x].sent, m)
    <3>. HIDE DEF m
    <3>. QED  BY <1>0, <2>4, <2>5 DEF Execution
  <2>. HIDE DEF y
  <2>. QED  BY <2>1, <2>2, <2>4, <2>6, OneMoves
<1>5. CASE Dispatch(x)
  <2>. DEFINE m == [queue |-> Dispatches[s], status |-> "", has |-> exec[x].has]
              y == [exec[x] EXCEPT !.at = Follows[s], !.sent = Append(exec[x].sent, m)]
  <2>1. s \in DOMAIN Dispatches /\ "documentId" \in exec[x].has
    BY <1>5, <1>2 DEF Dispatch
  <2>2. exec' = [exec EXCEPT ![x] = y]
    BY <1>0, <1>5, <2>1 DEF Dispatch, Execution
  <2>3. m \in Sent /\ "documentId" \in m.has
    BY <1>0, <2>1, MessagesAreSent DEF Execution
  <2>4. /\ Append(exec[x].sent, m) \in Seq(Sent)
        /\ \A i \in DOMAIN Append(exec[x].sent, m) : "documentId" \in Append(exec[x].sent, m)[i].has
    <3>. HIDE DEF m
    <3>. QED  BY <1>0, <1>1, <2>3, AppendNames DEF Execution
  <2>5. Follows[s] \in States
    BY <2>1, FollowsAreStates
  <2>6. y \in Execution /\ y.has = exec[x].has /\ y.sent = Append(exec[x].sent, m)
    <3>. HIDE DEF m
    <3>. QED  BY <1>0, <2>4, <2>5 DEF Execution
  <2>. HIDE DEF y
  <2>. QED  BY <2>1, <2>2, <2>4, <2>6, OneMoves
<1>6. CASE Choose(x)
  <2>1. CASE "route" \notin exec[x].has
    BY <1>3, <1>6, <2>1 DEF Choose
  <2>2. CASE "route" \in exec[x].has
    <3>. DEFINE r == exec[x].input.route
                t == IF s = "RouteChoice" THEN RouteChoice(r) ELSE DispatchConvert(r)
                y == [exec[x] EXCEPT !.at = t]
    <3>1. s \in {"RouteChoice", "DispatchConvert"} /\ exec' = [exec EXCEPT ![x] = y]
      BY <1>0, <1>6, <2>2 DEF Choose, Execution
    <3>2. t \in States
      BY ChoicesAreStates
    <3>3. y \in Execution /\ y.has = exec[x].has /\ y.sent = exec[x].sent
      <4>. HIDE DEF t
      <4>. QED  BY <1>0, <3>2 DEF Execution
    <3>. HIDE DEF y
    <3>. QED  BY <3>1, <3>3, <1>1, <1>2, OneMoves
  <2>. QED  BY <2>1, <2>2
<1>7. CASE HandleError(x)
  <2>1. CASE ~({"documentId", "Error"} \subseteq exec[x].has)
    BY <1>3, <1>7, <2>1 DEF HandleError
  <2>2. CASE {"documentId", "Error"} \subseteq exec[x].has
    <3>. DEFINE y == [exec[x] EXCEPT !.at = "Notify_FAILED"]
    <3>1. exec' = [exec EXCEPT ![x] = y]
      BY <1>0, <1>7, <2>2 DEF HandleError, Execution
    <3>2. y \in Execution /\ y.has = exec[x].has /\ y.sent = exec[x].sent
      BY <1>0, SomeStates DEF Execution
    <3>. HIDE DEF y
    <3>. QED  BY <3>1, <3>2, <2>2, <1>1, OneMoves
  <2>. QED  BY <2>1, <2>2
<1>8. CASE AnnounceFails(x)
  BY <1>3, <1>8 DEF AnnounceFails
<1>9. CASE DispatchFails(x)
  <2>. DEFINE y == [exec[x] EXCEPT !.at = "HandleError", !.has = {"Error"}]
  <2>1. PICK e \in SendErrors : exec' = [exec EXCEPT ![x].at = CatchTarget(exec[x].at, e), ![x].has = {"Error"}]
    BY <1>9 DEF DispatchFails
  <2>2. CatchTarget(exec[x].at, e) = "HandleError"
    BY CatchGoesToHandleError
  <2>3. exec' = [exec EXCEPT ![x] = y]
    BY <1>0, <2>1, <2>2 DEF Execution
  <2>4. y \in Execution /\ y.at = "HandleError" /\ y.sent = exec[x].sent
    BY <1>0, SomeStates, MembersKnown DEF Execution
  <2>. HIDE DEF y
  <2>. QED  BY <2>3, <2>4, <1>1, OneMoves
<1>. QED  BY <1>4, <1>5, <1>6, <1>7, <1>8, <1>9 DEF Proceed, SendFails

LEMMA InitialExecutions == ExecutionsStart => ExecutionInv
<1>. SUFFICES ASSUME ExecutionsStart PROVE ExecutionInv
  OBVIOUS
<1>1. ASSUME NEW i \in Inputs
      PROVE  [at |-> "Notify_QUEUED", input |-> i, has |-> i.has, sent |-> <<>>] \in Execution
  BY InputsAssumption, SomeStates DEF Execution
<1>. DEFINE Start == {[at |-> "Notify_QUEUED", input |-> i, has |-> i.has, sent |-> <<>>] : i \in Inputs}
<1>2. exec \in [Executions -> Start] /\ Start \subseteq Execution
  BY <1>1 DEF ExecutionsStart
<1>3. ASSUME NEW x \in Executions PROVE exec[x].sent = <<>> /\ "documentId" \in exec[x].has
  BY <1>2, InputsAssumption
<1>. HIDE DEF Start
<1>. QED  BY <1>2, <1>3 DEF ExecutionInv, ExecutionTypeOK, NamesDocument, DispatchesNameTheirDocument

\* Whatever fails, an input without the document's id is sent to nobody, for
\* any executions and inputs.
THEOREM ErrorsReachNoQueue == PipelineSpec => []DispatchesNameTheirDocument
<1>1. PipelineInit => ExecutionInv
  BY InitialExecutions DEF PipelineInit
<1>2. ExecutionInv /\ [PipelineNext]_pipelineVars => ExecutionInv'
  <2>. SUFFICES ASSUME ExecutionInv, [PipelineNext]_pipelineVars PROVE ExecutionInv'
    OBVIOUS
  <2>1. ASSUME UNCHANGED exec PROVE ExecutionInv'
    BY <2>1 DEF ExecutionInv, ExecutionTypeOK, NamesDocument, DispatchesNameTheirDocument
  <2>2. ASSUME NEW x \in Executions, ExecutionProceeds(x) \/ ExecutionFails(x) PROVE ExecutionInv'
    BY <2>2, ExecutionSteps DEF ExecutionProceeds, ExecutionFails
  <2>. QED  BY <2>1, <2>2 DEF PipelineNext, pipelineVars
<1>. QED  BY <1>1, <1>2, PTL DEF PipelineSpec, ExecutionInv

-----------------------------------------------------------------------------
\* The objects that messages name.  A message of the model is a record of five
\* members for one of the queues, and names an object of objs.
IsMessage(m) ==
  /\ m = [queue |-> m.queue, doc |-> m.doc, name |-> m.name, copy |-> m.copy, has |-> m.has]
  /\ m.queue \in Queues

Good(m, objs)  == IsMessage(m) /\ <<m.doc, m.name>> \in objs
GoodEntry(e, objs) == e = [msg |-> e.msg, n |-> e.n] /\ Good(e.msg, objs)

PodFields == {"pc", "msg", "late", "left", "open"}
IsPod(y)  == y = [f \in PodFields |-> y[f]]

\* What a pod is at holds a message that names an object; when it is about to
\* send, so does the message it will send.
GoodPod(y, objs) ==
  /\ IsPod(y)
  /\ y.pc # "idle" => Good(y.msg, objs)
  /\ y.pc = "send" => Good(HandedOn(y.msg), objs)
  /\ \A c \in y.open : IsMessage(c)

InputsStored == \A x \in Executions : <<exec[x].input.doc, exec[x].input.name>> \in objects

WorkersInv ==
  /\ \A e \in mail : GoodEntry(e, objects)
  /\ pod = [p \in Pods |-> pod[p]]
  /\ \A p \in Pods : GoodPod(pod[p], objects)

LEMMA QueuesKnown ==
  /\ {"classification", "pdf_processing", "convert_image", "output_assembly"} \subseteq Queues
  /\ \A r : RouteQueue(r) \in Queues
  /\ \A s \in DOMAIN Dispatches : Dispatches[s] \in Queues
BY DEF Queues, Written, RouteQueue, Dispatches

LEMMA MoreObjects ==
  ASSUME NEW o1, NEW o2, o1 \subseteq o2
  PROVE  /\ \A m : Good(m, o1) => Good(m, o2)
         /\ \A e : GoodEntry(e, o1) => GoodEntry(e, o2)
         /\ \A y : GoodPod(y, o1) => GoodPod(y, o2)
<1>1. \A m : Good(m, o1) => Good(m, o2)
  BY DEF Good
<1>. QED  BY <1>1 DEF GoodEntry, GoodPod

\* Another copy of a message names the same object.
LEMMA CopyIsGood ==
  ASSUME NEW m, NEW k, NEW objs, Good(m, objs)
  PROVE  Good([m EXCEPT !.copy = k], objs)
<1>. DEFINE c == [queue |-> m.queue, doc |-> m.doc, name |-> m.name, copy |-> k, has |-> m.has]
<1>1. [m EXCEPT !.copy = k] = c
  BY DEF Good, IsMessage
<1>2. Good(c, objs)
  BY DEF Good, IsMessage
<1>. QED  BY <1>1, <1>2

LEMMA PostedIsGood ==
  ASSUME \A e \in mail : GoodEntry(e, objects), NEW m, Good(m, objects)
  PROVE  \A e \in Posted(m) : GoodEntry(e, objects)
<1>. DEFINE c == [m EXCEPT !.copy = Cardinality(Copies(m)) + 1]
            e1 == [msg |-> c, n |-> 0]
<1>1. Posted(m) = mail \cup {e1}
  BY DEF Posted
<1>2. Good(c, objects)
  BY CopyIsGood
<1>3. GoodEntry(e1, objects)
  <2>. HIDE DEF c
  <2>. QED  BY <1>2 DEF GoodEntry
<1>. QED  BY <1>1, <1>3

\* The message handed on names the received object, or the one just written.
LEMMA HandedOnIsGood ==
  ASSUME NEW m, NEW objs, Good(m, objs), m.queue \notin Containers, m.queue # "output_assembly",
         m.queue \in DOMAIN Written => <<m.doc, Written[m.queue]>> \in objs
  PROVE  Good(HandedOn(m), objs)
<1>. DEFINE At5(q, n, h) == [queue |-> q, doc |-> m.doc, name |-> n, copy |-> m.copy, has |-> h]
<1>1. \A q \in Queues : \A n, h : <<m.doc, n>> \in objs => Good(At5(q, n, h), objs)
  BY DEF Good, IsMessage
<1>2. m = At5(m.queue, m.name, m.has) /\ m.queue \in Queues /\ <<m.doc, m.name>> \in objs
  BY DEF Good, IsMessage
<1>3. CASE m.queue = "classification"
  <2>1. HandedOn(m) = At5(RouteQueue(Classified(m.name)), m.name, m.has \cup {"route"})
    BY <1>2, <1>3 DEF HandedOn
  <2>. QED  BY <2>1, <1>1, <1>2, QueuesKnown
<1>4. CASE m.queue = "ocr_direct"
  <2>1. HandedOn(m) = At5("pdf_processing", m.name, m.has \cup {"route"})
    BY <1>2, <1>4 DEF HandedOn
  <2>. QED  BY <2>1, <1>1, <1>2, QueuesKnown
<1>5. CASE m.queue = "tiff_cog"
  <2>1. HandedOn(m) = At5("convert_image", "cog.tif", m.has \cup {"route"})
    BY <1>2, <1>5 DEF HandedOn
  <2>2. <<m.doc, "cog.tif">> \in objs
    BY <1>5 DEF Written
  <2>. QED  BY <2>1, <2>2, <1>1, QueuesKnown
<1>6. CASE m.queue = "convert_office"
  <2>1. HandedOn(m) = At5("pdf_processing", "office.pdf", {"documentId", "s3Key"})
    BY <1>2, <1>6 DEF HandedOn
  <2>2. <<m.doc, "office.pdf">> \in objs
    BY <1>6 DEF Written
  <2>. QED  BY <2>1, <2>2, <1>1, QueuesKnown
<1>7. CASE m.queue \notin {"classification", "ocr_direct", "tiff_cog", "convert_office"}
  <2>1. HandedOn(m) = At5("output_assembly", Written[m.queue], (m.has \cap {"documentId"}) \cup {"intermediateKeys"})
    BY <1>2, <1>7 DEF HandedOn
  <2>2. m.queue \in DOMAIN Written
    BY <1>2, <1>7 DEF Queues, Containers
  <2>. QED  BY <2>1, <2>2, <1>1, QueuesKnown
<1>. QED  BY <1>3, <1>4, <1>5, <1>6, <1>7

-----------------------------------------------------------------------------
\* One pod moves; the objects only grow.
LEMMA PodMoves ==
  ASSUME WorkersInv, objects \subseteq objects', NEW p \in Pods, NEW y, GoodPod(y, objects'),
         pod' = [pod EXCEPT ![p] = y],
         \A e \in mail' : GoodEntry(e, objects')
  PROVE  WorkersInv'
<1>1. pod = [q \in Pods |-> pod[q]] /\ \A q \in Pods : GoodPod(pod[q], objects)
  BY DEF WorkersInv
<1>2. pod' = [q \in Pods |-> IF q = p THEN y ELSE pod[q]]
  BY <1>1
<1>3. \A q \in Pods : GoodPod(pod[q], objects')
  BY <1>1, MoreObjects
<1>4. \A q \in Pods : GoodPod(pod'[q], objects')
  BY <1>2, <1>3
<1>5. pod' = [q \in Pods |-> pod'[q]]
  BY <1>2
<1>. QED  BY <1>4, <1>5 DEF WorkersInv

\* Messages go, and nothing else changes.
LEMMA MailShrinks ==
  ASSUME WorkersInv, UNCHANGED <<objects, pod>>, mail' \subseteq mail
  PROVE  WorkersInv'
BY DEF WorkersInv

LEMMA WorkerSteps ==
  ASSUME WorkersInv, NEW p \in Pods, PodWorks(p) \/ PodFails(p)
  PROVE  WorkersInv' /\ objects \subseteq objects'
<1>. DEFINE m == pod[p].msg
            waiting == pod[p].open
<1>1. /\ \A e \in mail : GoodEntry(e, objects)
      /\ pod = [q \in Pods |-> pod[q]]
      /\ GoodPod(pod[p], objects) /\ IsPod(pod[p])
  BY DEF WorkersInv, GoodPod
<1>2. /\ \A c \in waiting : IsMessage(c)
      /\ pod[p].pc # "idle" => Good(m, objects)
      /\ pod[p].pc = "send" => Good(HandedOn(m), objects)
  BY <1>1 DEF GoodPod
<1>3. \A y : IsPod(y) /\ y.pc = "idle" /\ (\A c \in y.open : IsMessage(c)) => GoodPod(y, objects)
  BY DEF GoodPod
<1>4. \A y : (IsPod(y) /\ y.pc \in {"work", "unpack", "delete"} /\ Good(y.msg, objects)
                /\ (\A c \in y.open : IsMessage(c))) => GoodPod(y, objects)
  BY DEF GoodPod
<1>5. CASE Receive(p)
  <2>1. PICK e \in mail :
          /\ mail' = (mail \ {e}) \cup {[e EXCEPT !.n = @ + 1]}
          /\ pod' = [pod EXCEPT ![p].pc = "work", ![p].msg = e.msg, ![p].late = FALSE]
    BY <1>5 DEF Receive
  <2>. DEFINE y == [pod[p] EXCEPT !.pc = "work", !.msg = e.msg, !.late = FALSE]
  <2>2. pod' = [pod EXCEPT ![p] = y] /\ UNCHANGED objects
    BY <1>5, <2>1 DEF Receive
  <2>3. IsPod(y) /\ y.pc = "work" /\ y.msg = e.msg /\ y.open = waiting
    BY <1>1 DEF IsPod, PodFields
  <2>. HIDE DEF y
  <2>4. e = [msg |-> e.msg, n |-> e.n] /\ Good(e.msg, objects)
    BY <1>1 DEF GoodEntry
  <2>5. GoodEntry([e EXCEPT !.n = @ + 1], objects)
    <3>1. [e EXCEPT !.n = @ + 1] = [msg |-> e.msg, n |-> e.n + 1]
      BY <2>4
    <3>. QED  BY <3>1, <2>4 DEF GoodEntry
  <2>6. GoodPod(y, objects)
    BY <1>2, <1>4, <2>3, <2>4
  <2>7. \A f \in mail' : GoodEntry(f, objects)
    BY <1>1, <2>1, <2>5
  <2>. QED  BY <2>2, <2>6, <2>7, PodMoves
<1>6. CASE Refuse(p)
  <2>. DEFINE y == [pod[p] EXCEPT !.pc = "idle", !.msg = NoMessage]
  <2>1. pod' = [pod EXCEPT ![p] = y] /\ UNCHANGED objects
    BY <1>6 DEF Refuse
  <2>2. IsPod(y) /\ y.pc = "idle" /\ y.open = waiting
    BY <1>1 DEF IsPod, PodFields
  <2>. HIDE DEF y
  <2>3. \A e \in mail' : GoodEntry(e, objects)
    BY <1>1, <1>2, <1>6 DEF Refuse
  <2>4. GoodPod(y, objects)
    BY <1>2, <1>3, <2>2, <2>3
  <2>. QED  BY <2>1, <2>3, <2>4, PodMoves
<1>7. CASE Convert(p)
  <2>. DEFINE pc1 == IF m.queue = "output_assembly" THEN "delete" ELSE "send"
              y == [pod[p] EXCEPT !.pc = pc1]
  <2>1. /\ Good(m, objects) /\ m.queue \notin Containers /\ UNCHANGED mail
        /\ objects' = IF m.queue \in DOMAIN Written THEN objects \cup {<<m.doc, Written[m.queue]>>} ELSE objects
        /\ pod' = [pod EXCEPT ![p] = y]
    BY <1>2, <1>7 DEF Convert, At
  <2>2. objects \subseteq objects'
    BY <2>1
  <2>3. Good(m, objects') /\ \A e \in mail' : GoodEntry(e, objects')
    BY <1>1, <2>1, <2>2, MoreObjects
  <2>4. pc1 = "send" => Good(HandedOn(m), objects')
    BY <2>1, <2>3, HandedOnIsGood
  <2>5. IsPod(y) /\ y.pc = pc1 /\ y.msg = m /\ y.open = waiting
    <3>. HIDE DEF pc1
    <3>. QED  BY <1>1 DEF IsPod, PodFields
  <2>6. GoodPod(y, objects')
    <3>. HIDE DEF pc1, y
    <3>. QED  BY <2>3, <2>4, <2>5, <1>2 DEF GoodPod
  <2>. QED  BY <2>1, <2>2, <2>3, <2>6, PodMoves
<1>8. CASE PassOn(p)
  <2>. DEFINE y == [pod[p] EXCEPT !.pc = "delete"]
  <2>1. pod' = [pod EXCEPT ![p] = y] /\ UNCHANGED objects /\ mail' = Posted(HandedOn(m))
    BY <1>8 DEF PassOn
  <2>2. IsPod(y) /\ y.pc = "delete" /\ y.msg = m /\ y.open = waiting
    BY <1>1 DEF IsPod, PodFields
  <2>. HIDE DEF y
  <2>3. Good(m, objects) /\ Good(HandedOn(m), objects)
    BY <1>2, <1>8 DEF PassOn, At
  <2>4. \A e \in mail' : GoodEntry(e, objects)
    BY <1>1, <2>1, <2>3, PostedIsGood
  <2>5. GoodPod(y, objects)
    BY <1>2, <1>4, <2>2, <2>3
  <2>. QED  BY <2>1, <2>4, <2>5, PodMoves
<1>9. CASE Unpack(p)
  <2>. DEFINE y == [pod[p] EXCEPT !.pc = "unpack", !.left = Entries]
  <2>1. pod' = [pod EXCEPT ![p] = y] /\ UNCHANGED objects
    BY <1>9 DEF Unpack
  <2>2. IsPod(y) /\ y.pc = "unpack" /\ y.msg = m /\ y.open = waiting
    BY <1>1 DEF IsPod, PodFields
  <2>. HIDE DEF y
  <2>3. Good(m, objects) /\ \A e \in mail' : GoodEntry(e, objects)
    BY <1>1, <1>2, <1>9 DEF Unpack, At
  <2>4. GoodPod(y, objects)
    BY <1>2, <1>4, <2>2, <2>3
  <2>. QED  BY <2>1, <2>3, <2>4, PodMoves
<1>10. CASE ReadEntry(p)
  <2>. DEFINE c == NewChild(m, Entries - pod[p].left + 1)
              y == [pod[p] EXCEPT !.left = @ - 1, !.open = @ \cup {c}]
  <2>1. pod' = [pod EXCEPT ![p] = y] /\ UNCHANGED <<objects, mail>> /\ pod[p].pc = "unpack"
    BY <1>10 DEF ReadEntry, At
  <2>2. IsMessage(c)
    BY QueuesKnown DEF NewChild, IsMessage
  <2>3. IsPod(y) /\ y.pc = "unpack" /\ y.msg = m /\ y.open = waiting \cup {c}
    <3>. HIDE DEF c
    <3>. QED  BY <1>1, <2>1 DEF IsPod, PodFields
  <2>. HIDE DEF y, c
  <2>4. GoodPod(y, objects)
    BY <1>2, <1>4, <2>1, <2>2, <2>3
  <2>. QED  BY <1>1, <2>1, <2>4, PodMoves
<1>11. CASE StoreChild(p)
  <2>1. objects \subseteq objects' /\ UNCHANGED <<mail, pod>>
    BY <1>11 DEF StoreChild
  <2>. QED  BY <2>1, MoreObjects DEF WorkersInv
<1>12. CASE SendChild(p)
  <2>1. PICK c \in waiting : /\ Stored(c) /\ mail' = Posted(c)
                             /\ pod' = [pod EXCEPT ![p].open = @ \ {c}]
    BY <1>12 DEF SendChild
  <2>. DEFINE y == [pod[p] EXCEPT !.open = @ \ {c}]
  <2>2. pod' = [pod EXCEPT ![p] = y] /\ UNCHANGED objects
    BY <1>12, <2>1 DEF SendChild
  <2>3. IsPod(y) /\ y.pc = pod[p].pc /\ y.msg = m /\ y.open = waiting \ {c}
    BY <1>1 DEF IsPod, PodFields
  <2>. HIDE DEF y
  <2>4. Good(c, objects)
    BY <2>1, <1>2 DEF Good, Stored
  <2>5. \A e \in mail' : GoodEntry(e, objects)
    BY <1>1, <2>1, <2>4, PostedIsGood
  <2>6. GoodPod(y, objects)
    BY <1>2, <2>3 DEF GoodPod
  <2>. QED  BY <2>2, <2>5, <2>6, PodMoves
<1>13. CASE Unpacked(p)
  <2>. DEFINE y == [pod[p] EXCEPT !.pc = "delete"]
  <2>1. pod' = [pod EXCEPT ![p] = y] /\ UNCHANGED objects
    BY <1>13 DEF Unpacked
  <2>2. IsPod(y) /\ y.pc = "delete" /\ y.msg = m /\ y.open = waiting
    BY <1>1 DEF IsPod, PodFields
  <2>. HIDE DEF y
  <2>3. Good(m, objects) /\ \A e \in mail' : GoodEntry(e, objects)
    BY <1>1, <1>2, <1>13 DEF Unpacked, At
  <2>4. GoodPod(y, objects)
    BY <1>2, <1>4, <2>2, <2>3
  <2>. QED  BY <2>1, <2>3, <2>4, PodMoves
<1>14. CASE Delete(p)
  <2>. DEFINE y == [pod[p] EXCEPT !.pc = "idle", !.msg = NoMessage]
  <2>1. pod' = [pod EXCEPT ![p] = y] /\ UNCHANGED objects
    BY <1>14 DEF Delete
  <2>2. IsPod(y) /\ y.pc = "idle" /\ y.open = waiting
    BY <1>1 DEF IsPod, PodFields
  <2>. HIDE DEF y
  <2>3. \A e \in mail' : GoodEntry(e, objects)
    BY <1>1, <1>2, <1>14 DEF Delete
  <2>4. GoodPod(y, objects)
    BY <1>2, <1>3, <2>2, <2>3
  <2>. QED  BY <2>1, <2>3, <2>4, PodMoves
<1>15. CASE Throw(p)
  <2>. DEFINE y == [Idle EXCEPT !.open = IF m.queue = "archive" THEN waiting ELSE {}]
  <2>1. pod' = [pod EXCEPT ![p] = y] /\ UNCHANGED objects
    BY <1>15 DEF Throw
  <2>2. IsPod(y) /\ y.pc = "idle" /\ y.open \subseteq waiting
    BY <1>1 DEF IsPod, PodFields, Idle
  <2>. HIDE DEF y
  <2>3. \A e \in mail' : GoodEntry(e, objects)
    BY <1>1, <1>2, <1>15 DEF Throw
  <2>4. GoodPod(y, objects)
    BY <1>2, <1>3, <2>2, <2>3
  <2>. QED  BY <2>1, <2>3, <2>4, PodMoves
<1>16. CASE Crash(p)
  <2>. DEFINE y == Idle
  <2>1. pod' = [pod EXCEPT ![p] = y] /\ UNCHANGED objects
    BY <1>16 DEF Crash
  <2>2. IsPod(y) /\ y.pc = "idle" /\ y.open = {}
    BY <1>1 DEF IsPod, PodFields, Idle
  <2>. HIDE DEF y
  <2>3. \A e \in mail' : GoodEntry(e, objects)
    BY <1>1, <1>2, <1>16 DEF Crash
  <2>4. GoodPod(y, objects)
    BY <1>2, <1>3, <2>2, <2>3
  <2>. QED  BY <2>1, <2>3, <2>4, PodMoves
<1>17. CASE Expire(p)
  <2>. DEFINE y == [pod[p] EXCEPT !.late = TRUE]
  <2>1. pod' = [pod EXCEPT ![p] = y] /\ UNCHANGED <<objects, mail>>
    BY <1>17 DEF Expire
  <2>2. IsPod(y) /\ y.pc = pod[p].pc /\ y.msg = m /\ y.open = waiting
    BY <1>1 DEF IsPod, PodFields
  <2>. HIDE DEF y
  <2>3. GoodPod(y, objects)
    BY <1>2, <2>2 DEF GoodPod
  <2>. QED  BY <1>1, <2>1, <2>3, PodMoves
<1>. QED  BY <1>5, <1>6, <1>7, <1>8, <1>9, <1>10, <1>11, <1>12, <1>13, <1>14, <1>15, <1>16, <1>17
          DEF PodWorks, PodFails

-----------------------------------------------------------------------------
\* What an execution sends names its uploaded object.
LEMMA DeliveriesAreGood ==
  ASSUME ExecutionTypeOK, ExecutionTypeOK', WorkersInv, InputsStored, NEW x \in Executions,
         Deliver(x), UNCHANGED <<objects, pod>>
  PROVE  WorkersInv'
<1>. DEFINE sent == exec'[x].sent
            last == sent[Len(sent)]
            i    == exec[x].input
            msg  == [ queue |-> last.queue, doc |-> i.doc, name |-> i.name, copy |-> 0, has |-> last.has ]
<1>1. CASE Len(sent) > Len(exec[x].sent) /\ last.queue # "state_change"
  <2>1. mail' = Posted(msg)
    BY <1>1 DEF Deliver
  <2>2. exec[x] \in Execution /\ exec'[x] \in Execution
    BY DEF ExecutionTypeOK
  <2>3. last.queue \in Queues
    <3>1. sent \in Seq(Sent) /\ Len(exec[x].sent) \in Nat
      BY <2>2 DEF Execution
    <3>2. last \in Sent
      BY <1>1, <3>1
    <3>. QED  BY <1>1, <3>2, QueuesKnown DEF Sent
  <2>4. Good(msg, objects)
    <3>. HIDE DEF last
    <3>. QED  BY <2>3 DEF Good, IsMessage, InputsStored
  <2>5. \A e \in mail' : GoodEntry(e, objects)
    <3>. HIDE DEF msg
    <3>. QED  BY <2>1, <2>4, PostedIsGood DEF WorkersInv
  <2>. QED  BY <2>5 DEF WorkersInv
<1>2. CASE ~(Len(sent) > Len(exec[x].sent) /\ last.queue # "state_change")
  BY <1>2 DEF Deliver, WorkersInv
<1>. QED  BY <1>1, <1>2

\* No step changes what an execution was started with.
LEMMA InputsAreKept ==
  ASSUME ExecutionTypeOK, NEW x \in Executions, Proceed(x) \/ SendFails(x)
  PROVE  \A z \in Executions : exec'[z].input = exec[z].input
<1>1. exec \in [Executions -> Execution]
  BY DEF ExecutionTypeOK
<1>2. ASSUME Break(x) PROVE \A z \in Executions : exec'[z].input = exec[z].input
  BY <1>1, <1>2 DEF Break, Execution
<1>3. CASE Announce(x)
  BY <1>1, <1>2, <1>3 DEF Announce, Execution
<1>4. CASE Dispatch(x)
  BY <1>1, <1>4 DEF Dispatch, Execution
<1>5. CASE Choose(x)
  BY <1>1, <1>2, <1>5 DEF Choose, Execution
<1>6. CASE HandleError(x)
  BY <1>1, <1>2, <1>6 DEF HandleError, Execution
<1>7. CASE AnnounceFails(x)
  BY <1>2, <1>7 DEF AnnounceFails
<1>8. CASE DispatchFails(x)
  BY <1>1, <1>8 DEF DispatchFails, Execution
<1>. QED  BY <1>3, <1>4, <1>5, <1>6, <1>7, <1>8 DEF Proceed, SendFails

PipelineInv == ExecutionInv /\ WorkersInv /\ InputsStored

LEMMA PipelineStarts == PipelineInit => PipelineInv
<1>. SUFFICES ASSUME PipelineInit PROVE PipelineInv
  OBVIOUS
<1>1. ExecutionInv
  BY InitialExecutions DEF PipelineInit
<1>2. InputsStored
  BY DEF PipelineInit, InputsStored
<1>3. GoodPod(Idle, objects)
  BY DEF GoodPod, Idle, IsPod, PodFields
<1>4. WorkersInv
  <2>. HIDE DEF Idle
  <2>. QED  BY <1>3 DEF PipelineInit, WorkersInv
<1>. QED  BY <1>1, <1>2, <1>4 DEF PipelineInv

LEMMA PipelineGoesOn == PipelineInv /\ [PipelineNext]_pipelineVars => PipelineInv'
<1>. SUFFICES ASSUME PipelineInv, [PipelineNext]_pipelineVars PROVE PipelineInv'
  OBVIOUS
<1>1. CASE UNCHANGED pipelineVars
  BY <1>1 DEF PipelineInv, ExecutionInv, ExecutionTypeOK, NamesDocument, DispatchesNameTheirDocument,
              WorkersInv, InputsStored, pipelineVars, workerVars
<1>2. CASE \E x \in Executions : ExecutionProceeds(x) \/ ExecutionFails(x)
  <2>1. PICK x \in Executions : ExecutionProceeds(x) \/ ExecutionFails(x)
    BY <1>2
  <2>2. (Proceed(x) \/ SendFails(x)) /\ UNCHANGED <<objects, pod>>
    BY <2>1 DEF ExecutionProceeds, ExecutionFails
  <2>3. ExecutionInv'
    BY <2>2, ExecutionSteps DEF PipelineInv
  <2>4. InputsStored'
    BY <2>2, InputsAreKept DEF PipelineInv, ExecutionInv, InputsStored
  <2>5. WorkersInv'
    <3>1. CASE ExecutionProceeds(x)
      BY <3>1, <2>3, DeliveriesAreGood DEF ExecutionProceeds, PipelineInv, ExecutionInv
    <3>2. CASE ExecutionFails(x)
      BY <3>2 DEF ExecutionFails, PipelineInv, WorkersInv
    <3>. QED  BY <2>1, <3>1, <3>2
  <2>. QED  BY <2>3, <2>4, <2>5 DEF PipelineInv
<1>3. CASE WorkersNext /\ UNCHANGED exec
  <2>1. ExecutionInv'
    BY <1>3 DEF PipelineInv, ExecutionInv, ExecutionTypeOK, NamesDocument, DispatchesNameTheirDocument
  <2>2. WorkersInv' /\ objects \subseteq objects'
    <3>1. CASE Redrive
      BY <3>1, MailShrinks DEF Redrive, PipelineInv
    <3>2. CASE \E p \in Pods : PodWorks(p) \/ PodFails(p)
      BY <3>2, WorkerSteps DEF PipelineInv
    <3>. QED  BY <1>3, <3>1, <3>2 DEF WorkersNext
  <2>3. InputsStored'
    BY <1>3, <2>2 DEF PipelineInv, InputsStored
  <2>. QED  BY <2>1, <2>2, <2>3 DEF PipelineInv
<1>. QED  BY <1>1, <1>2, <1>3 DEF PipelineNext

\* No message names an object that is not there, for any number of pods,
\* documents, entries, receives and faults.
THEOREM MessagesNameWhatIsThere == PipelineSpec => []MessagesNameObjects
<1>1. PipelineInit => PipelineInv
  BY PipelineStarts
<1>2. PipelineInv /\ [PipelineNext]_pipelineVars => PipelineInv'
  BY PipelineGoesOn
<1>3. PipelineInv => MessagesNameObjects
  BY DEF PipelineInv, WorkersInv, GoodEntry, Good, MessagesNameObjects, Stored
<1>. QED  BY <1>1, <1>2, <1>3, PTL DEF PipelineSpec
-----------------------------------------------------------------------------
\* Where an execution is before, while and after its route is acted on.
Undecided == {"Notify_QUEUED", "Classify", "Notify_CLASSIFYING", "RouteChoice", "Notify_CONVERT_QUEUED",
              "DispatchConvert", "Notify_OCR_QUEUED", "Notify_SLIPSHEETING"}
Choosing == {"ConvertOffice", "ConvertHTML", "ConvertImage", "ConvertTIFF", "OCRDirect", "Slipsheet",
             "Notify_EMAIL_PROCESSING", "Notify_ARCHIVE_PROCESSING", "Notify_MEDIA_PROCESSING"}
Decided == {"Notify_CONVERT_PROCESSING", "Notify_OCR_PROCESSING", "Notify_PDF_PROCESSING",
            "Notify_ASSEMBLING", "Notify_COMPLETED", "Succeeded"}

\* The queues and the statuses of a list of what was sent.
SentTo(sent) == {sent[i].queue : i \in DOMAIN sent}
Statuses(sent) == {sent[i].status : i \in DOMAIN sent}

\* What an execution has sent agrees with where it is.
RouteKept(e) ==
  LET chosen == SentTo(e.sent) \cap Conversions
      right  == RouteQueue(e.input.route) IN
  /\ chosen \subseteq {right}
  /\ e.at \in Undecided \cup Choosing => chosen = {}
  /\ e.at \in Decided => right \in chosen
  /\ e.at \in Choosing => Dispatches[e.at] = right
  /\ e.at = "Notify_OCR_QUEUED" => right = "ocr_direct"
  /\ e.at = "Notify_SLIPSHEETING" => right = "slipsheet"
  /\ "COMPLETED" \in Statuses(e.sent) => e.at = "Succeeded"

RouteInv == ExecutionTypeOK /\ \A x \in Executions : RouteKept(exec[x])

LEMMA AppendSends ==
  ASSUME NEW s \in Seq(Sent), NEW m \in Sent
  PROVE  /\ Append(s, m) \in Seq(Sent)
         /\ SentTo(Append(s, m)) = SentTo(s) \cup {m.queue}
         /\ Statuses(Append(s, m)) = Statuses(s) \cup {m.status}
<1>. HIDE DEF Sent
<1>1. Append(s, m) \in Seq(Sent) /\ DOMAIN s = 1..Len(s) /\ Len(s) \in Nat /\ DOMAIN Append(s, m) = 1..Len(s) + 1
  OBVIOUS
<1>2. (\A i \in 1..Len(s) : Append(s, m)[i] = s[i]) /\ Append(s, m)[Len(s) + 1] = m
  OBVIOUS
<1>3. \A i \in 1..Len(s) + 1 : i \in 1..Len(s) \/ i = Len(s) + 1
  BY <1>1
<1>4. PICK t : t = Append(s, m)
  OBVIOUS
<1>5. SentTo(t) = SentTo(s) \cup {m.queue} /\ Statuses(t) = Statuses(s) \cup {m.status}
  BY <1>1, <1>2, <1>3, <1>4 DEF SentTo, Statuses
<1>. QED  BY <1>1, <1>4, <1>5

\* The queues a route chooses are those of the choosing states.
LEMMA ConversionsKnown ==
  /\ Conversions \cap {"state_change", "classification", "pdf_processing", "output_assembly"} = {}
  /\ \A s \in DOMAIN Dispatches \ Choosing : Dispatches[s] \notin Conversions
  /\ \A s \in Choosing : s \in DOMAIN Dispatches /\ Dispatches[s] # "state_change"
  /\ \A r \in Route : RouteQueue(r) \in Conversions
BY DEF Conversions, Route, RouteQueue, Dispatches, Choosing

LEMMA AnnouncesFollow ==
  ASSUME NEW s \in DOMAIN Announces
  PROVE  /\ s \notin Choosing
         /\ s \in Undecided => Follows[s] \in {"Classify", "RouteChoice", "DispatchConvert", "OCRDirect", "Slipsheet"}
         /\ Follows[s] = "OCRDirect" => s = "Notify_OCR_QUEUED"
         /\ Follows[s] = "Slipsheet" => s = "Notify_SLIPSHEETING"
         /\ s \notin Undecided => Follows[s] \notin Undecided \cup Choosing
         /\ Follows[s] \in Decided => s \in Decided
         /\ Announces[s] = "COMPLETED" => Follows[s] = "Succeeded"
<1>1. s \in {"Notify_QUEUED", "Notify_CLASSIFYING", "Notify_CONVERT_QUEUED", "Notify_OCR_QUEUED",
            "Notify_CONVERT_PROCESSING", "Notify_OCR_PROCESSING", "Notify_SLIPSHEETING",
            "Notify_COMPLETED", "Notify_FAILED"}
  BY DEF Announces
<1>2. /\ Follows["Notify_QUEUED"] = "Classify" /\ Follows["Notify_CLASSIFYING"] = "RouteChoice"
      /\ Follows["Notify_CONVERT_QUEUED"] = "DispatchConvert" /\ Follows["Notify_OCR_QUEUED"] = "OCRDirect"
      /\ Follows["Notify_CONVERT_PROCESSING"] = "Notify_PDF_PROCESSING"
      /\ Follows["Notify_OCR_PROCESSING"] = "Notify_PDF_PROCESSING"
      /\ Follows["Notify_SLIPSHEETING"] = "Slipsheet" /\ Follows["Notify_COMPLETED"] = "Succeeded"
      /\ Follows["Notify_FAILED"] = "Failed"
  BY DEF Follows
<1>3. Announces[s] = "COMPLETED" => s = "Notify_COMPLETED"
  BY <1>1 DEF Announces
<1>4. CASE s \in {"Notify_QUEUED", "Notify_CLASSIFYING", "Notify_CONVERT_QUEUED", "Notify_OCR_QUEUED", "Notify_SLIPSHEETING"}
  BY <1>2, <1>3, <1>4 DEF Choosing, Undecided, Decided
<1>5. CASE s \in {"Notify_CONVERT_PROCESSING", "Notify_OCR_PROCESSING", "Notify_COMPLETED", "Notify_FAILED"}
  BY <1>2, <1>3, <1>5 DEF Choosing, Undecided, Decided
<1>. QED  BY <1>1, <1>4, <1>5

LEMMA DispatchesFollow ==
  ASSUME NEW s \in DOMAIN Dispatches
  PROVE  /\ s \notin Choosing => (s = "Classify" /\ Follows[s] = "Notify_CLASSIFYING") \/ s \in Decided
         /\ s # "Classify" => Follows[s] \in Decided /\ s \notin Undecided
         /\ Follows[s] # "Succeeded"
BY DEF Dispatches, Choosing, Undecided, Follows, Decided

\* RouteChoice and DispatchConvert take a route to the state that sends to its queue.
LEMMA ChoicesFollow ==
  ASSUME NEW r \in Route, NEW t \in {RouteChoice(r), DispatchConvert(r)}
  PROVE  /\ t \in Undecided \cup Choosing \cup {"HandleError"}
         /\ t \in Choosing => Dispatches[t] = RouteQueue(r)
         /\ t = "Notify_OCR_QUEUED" => RouteQueue(r) = "ocr_direct"
         /\ t = "Notify_SLIPSHEETING" => RouteQueue(r) = "slipsheet"
<1>1. t = RouteChoice(r) \/ t = DispatchConvert(r)
  OBVIOUS
<1>. QED  BY <1>1 DEF Route, RouteChoice, DispatchConvert, Undecided, Choosing, Dispatches, RouteQueue

LEMMA RouteSteps ==
  ASSUME RouteInv, NEW x \in Executions, Proceed(x) \/ SendFails(x)
  PROVE  RouteInv'
<1>. DEFINE s == exec[x].at
            right == RouteQueue(exec[x].input.route)
<1>0. exec \in [Executions -> Execution] /\ exec[x] \in Execution /\ RouteKept(exec[x])
  BY DEF RouteInv, ExecutionTypeOK
<1>1. exec[x].input.route \in Route /\ right \in Conversions /\ exec[x].sent \in Seq(Sent)
  BY <1>0, InputsAssumption, ConversionsKnown DEF Execution
<1>2. ASSUME NEW y \in Execution, exec' = [exec EXCEPT ![x] = y], RouteKept(y) PROVE RouteInv'
  BY <1>0, <1>2 DEF RouteInv, ExecutionTypeOK
<1>3. \A y \in Execution : /\ y.sent = exec[x].sent /\ y.input = exec[x].input
                            /\ y.at \in {"HandleError", "Broken", "Notify_FAILED"} /\ s # "Succeeded"
                           => RouteKept(y)
  BY <1>0 DEF RouteKept, Undecided, Choosing, Decided
<1>4. ASSUME Break(x), s # "Succeeded" PROVE RouteInv'
  <2>. DEFINE y == [exec[x] EXCEPT !.at = "Broken"]
  <2>1. exec' = [exec EXCEPT ![x] = y]
    BY <1>0, <1>4 DEF Break, Execution
  <2>2. y \in Execution /\ y.at = "Broken" /\ y.sent = exec[x].sent /\ y.input = exec[x].input
    BY <1>0, SomeStates DEF Execution
  <2>. HIDE DEF y
  <2>. QED  BY <1>2, <1>3, <1>4, <2>1, <2>2
<1>5. s \in DOMAIN Announces \cup DOMAIN Dispatches \cup {"RouteChoice", "DispatchConvert", "HandleError"}
        => s # "Succeeded"
  BY DEF Announces, Dispatches
<1>6. CASE Announce(x)
  <2>1. CASE "documentId" \notin exec[x].has
    BY <1>4, <1>5, <1>6, <2>1 DEF Announce
  <2>2. CASE "documentId" \in exec[x].has
    <3>. DEFINE m == [queue |-> "state_change", status |-> Announces[s], has |-> {"documentId"}]
                more == Append(exec[x].sent, m)
                y == [exec[x] EXCEPT !.at = Follows[s], !.sent = more]
    <3>1. s \in DOMAIN Announces
      BY <1>6 DEF Announce
    <3>2. exec' = [exec EXCEPT ![x] = y]
      BY <1>0, <1>6, <2>2 DEF Announce, Execution
    <3>3. m \in Sent /\ m.queue = "state_change" /\ m.status = Announces[s]
      BY <3>1, MessagesAreSent, MembersKnown
    <3>4. /\ more \in Seq(Sent) /\ SentTo(more) = SentTo(exec[x].sent) \cup {"state_change"}
          /\ Statuses(more) = Statuses(exec[x].sent) \cup {Announces[s]}
      <4>. HIDE DEF m
      <4>. QED  BY <1>1, <3>3, AppendSends
    <3>5. Follows[s] \in States
      BY <3>1, FollowsAreStates
    <3>6. y \in Execution /\ y.at = Follows[s] /\ y.sent = more /\ y.input = exec[x].input
      <4>. HIDE DEF m, more
      <4>. QED  BY <1>0, <3>4, <3>5 DEF Execution
    <3>. HIDE DEF m, more, y
    <3>7. SentTo(y.sent) \cap Conversions = SentTo(exec[x].sent) \cap Conversions
      BY <3>4, <3>6, ConversionsKnown
    <3>8. s # "Succeeded" /\ "COMPLETED" \notin Statuses(exec[x].sent)
      BY <1>0, <1>5, <3>1 DEF RouteKept
    <3>9. RouteKept(y)
      <4>1. /\ s \in Undecided \cup Choosing => SentTo(exec[x].sent) \cap Conversions = {}
            /\ SentTo(exec[x].sent) \cap Conversions \subseteq {right}
            /\ s \in Decided => right \in SentTo(exec[x].sent) \cap Conversions
            /\ s = "Notify_OCR_QUEUED" => right = "ocr_direct"
            /\ s = "Notify_SLIPSHEETING" => right = "slipsheet"
        BY <1>0 DEF RouteKept
      <4>2. Dispatches["OCRDirect"] = "ocr_direct" /\ Dispatches["Slipsheet"] = "slipsheet"
        BY DEF Dispatches
      <4>3. y.at \in Undecided \cup Choosing => SentTo(y.sent) \cap Conversions = {}
        BY <3>1, <3>6, <3>7, <4>1, AnnouncesFollow
      <4>4. y.at \in Decided => right \in SentTo(y.sent) \cap Conversions
        BY <3>1, <3>6, <3>7, <4>1, AnnouncesFollow
      <4>5. y.at \in Choosing => Dispatches[y.at] = right
        BY <3>1, <3>6, <4>1, <4>2, AnnouncesFollow DEF Undecided, Choosing
      <4>6. y.at # "Notify_OCR_QUEUED" /\ y.at # "Notify_SLIPSHEETING"
        BY <3>1, <3>6, AnnouncesFollow DEF Undecided
      <4>7. "COMPLETED" \in Statuses(y.sent) => y.at = "Succeeded"
        BY <3>1, <3>4, <3>6, <3>8, AnnouncesFollow
      <4>. QED  BY <3>6, <3>7, <4>1, <4>3, <4>4, <4>5, <4>6, <4>7 DEF RouteKept
    <3>. QED  BY <1>2, <3>2, <3>6, <3>9
  <2>. QED  BY <2>1, <2>2
<1>7. CASE Dispatch(x)
  <2>. DEFINE m == [queue |-> Dispatches[s], status |-> "", has |-> exec[x].has]
              more == Append(exec[x].sent, m)
              y == [exec[x] EXCEPT !.at = Follows[s], !.sent = more]
  <2>1. s \in DOMAIN Dispatches
    BY <1>7 DEF Dispatch
  <2>2. exec' = [exec EXCEPT ![x] = y]
    BY <1>0, <1>7 DEF Dispatch, Execution
  <2>3. m \in Sent /\ m.queue = Dispatches[s] /\ m.status = ""
    BY <1>0, <2>1, MessagesAreSent DEF Execution
  <2>4. /\ more \in Seq(Sent) /\ SentTo(more) = SentTo(exec[x].sent) \cup {Dispatches[s]}
        /\ Statuses(more) = Statuses(exec[x].sent) \cup {""}
    <3>. HIDE DEF m
    <3>. QED  BY <1>1, <2>3, AppendSends
  <2>5. Follows[s] \in States
    BY <2>1, FollowsAreStates
  <2>6. y \in Execution /\ y.at = Follows[s] /\ y.sent = more /\ y.input = exec[x].input
    <3>. HIDE DEF m, more
    <3>. QED  BY <1>0, <2>4, <2>5 DEF Execution
  <2>. HIDE DEF m, more, y
  <2>7. "COMPLETED" \notin Statuses(y.sent)
    <3>1. "COMPLETED" \notin Statuses(exec[x].sent)
      BY <1>0, <1>5, <2>1 DEF RouteKept
    <3>2. "COMPLETED" # ""
      OBVIOUS
    <3>3. Statuses(y.sent) = Statuses(exec[x].sent) \cup {""}
      BY <2>4, <2>6
    <3>. QED  BY <3>1, <3>2, <3>3, Zenon
  <2>8. CASE s \in Choosing
    <3>1. Dispatches[s] = right /\ SentTo(exec[x].sent) \cap Conversions = {}
      BY <1>0, <2>8 DEF RouteKept
    <3>2. SentTo(y.sent) \cap Conversions = {right}
      BY <1>1, <2>4, <2>6, <3>1
    <3>3. y.at \in Decided
      BY <2>1, <2>6, <2>8, DispatchesFollow DEF Choosing
    <3>4. RouteKept(y)
      BY <2>6, <2>7, <3>2, <3>3 DEF RouteKept, Decided, Undecided, Choosing
    <3>. QED  BY <1>2, <2>2, <2>6, <3>4
  <2>9. CASE s \notin Choosing
    <3>1. SentTo(y.sent) \cap Conversions = SentTo(exec[x].sent) \cap Conversions
      BY <2>1, <2>4, <2>6, <2>9, ConversionsKnown
    <3>2. CASE s = "Classify"
      <4>1. y.at = "Notify_CLASSIFYING"
        BY <2>1, <2>6, <2>9, <3>2, DispatchesFollow DEF Decided
      <4>2. SentTo(y.sent) \cap Conversions = {}
        BY <1>0, <3>1, <3>2 DEF RouteKept, Undecided
      <4>. QED  BY <1>2, <2>2, <2>6, <2>7, <4>1, <4>2 DEF RouteKept, Undecided, Choosing, Decided
    <3>3. CASE s \in Decided
      <4>1. y.at \in Decided
        BY <2>1, <2>6, <3>3, DispatchesFollow DEF Decided
      <4>2. right \in SentTo(y.sent) \cap Conversions /\ SentTo(y.sent) \cap Conversions \subseteq {right}
        BY <1>0, <3>1, <3>3 DEF RouteKept
      <4>3. RouteKept(y)
        BY <2>6, <2>7, <4>1, <4>2 DEF RouteKept, Undecided, Choosing, Decided
      <4>. QED  BY <1>2, <2>2, <2>6, <4>3
    <3>. QED  BY <2>1, <2>9, <3>2, <3>3, DispatchesFollow
  <2>. QED  BY <2>8, <2>9
<1>8. CASE Choose(x)
  <2>1. CASE "route" \notin exec[x].has
    BY <1>4, <1>5, <1>8, <2>1 DEF Choose
  <2>2. CASE "route" \in exec[x].has
    <3>. DEFINE r == exec[x].input.route
                t == IF s = "RouteChoice" THEN RouteChoice(r) ELSE DispatchConvert(r)
                y == [exec[x] EXCEPT !.at = t]
    <3>1. s \in {"RouteChoice", "DispatchConvert"} /\ exec' = [exec EXCEPT ![x] = y]
      BY <1>0, <1>8, <2>2 DEF Choose, Execution
    <3>2. t \in States /\ t \in {RouteChoice(r), DispatchConvert(r)}
      BY ChoicesAreStates
    <3>3. y \in Execution /\ y.at = t /\ y.sent = exec[x].sent /\ y.input = exec[x].input
      <4>. HIDE DEF t
      <4>. QED  BY <1>0, <3>2 DEF Execution
    <3>4. /\ t \in Undecided \cup Choosing \cup {"HandleError"}
          /\ t \in Choosing => Dispatches[t] = right
          /\ t = "Notify_OCR_QUEUED" => right = "ocr_direct"
          /\ t = "Notify_SLIPSHEETING" => right = "slipsheet"
      <4>. HIDE DEF t
      <4>. QED  BY <1>1, <3>2, ChoicesFollow
    <3>. HIDE DEF t, y
    <3>5. SentTo(exec[x].sent) \cap Conversions = {} /\ "COMPLETED" \notin Statuses(exec[x].sent)
      BY <1>0, <1>5, <3>1 DEF RouteKept, Undecided
    <3>6. RouteKept(y)
      <4>1. t \notin Decided
        BY <3>4 DEF Undecided, Choosing, Decided
      <4>. QED  BY <3>3, <3>4, <3>5, <4>1 DEF RouteKept
    <3>. QED  BY <1>2, <3>1, <3>3, <3>6
  <2>. QED  BY <2>1, <2>2
<1>9. CASE HandleError(x)
  <2>1. CASE ~({"documentId", "Error"} \subseteq exec[x].has)
    BY <1>4, <1>5, <1>9, <2>1 DEF HandleError
  <2>2. CASE {"documentId", "Error"} \subseteq exec[x].has
    <3>. DEFINE y == [exec[x] EXCEPT !.at = "Notify_FAILED"]
    <3>1. s = "HandleError" /\ exec' = [exec EXCEPT ![x] = y]
      BY <1>0, <1>9, <2>2 DEF HandleError, Execution
    <3>2. y \in Execution /\ y.at = "Notify_FAILED" /\ y.sent = exec[x].sent /\ y.input = exec[x].input
      BY <1>0, SomeStates DEF Execution
    <3>. HIDE DEF y
    <3>. QED  BY <1>2, <1>3, <3>1, <3>2
  <2>. QED  BY <2>1, <2>2
<1>10. CASE AnnounceFails(x)
  BY <1>4, <1>5, <1>10 DEF AnnounceFails
<1>11. CASE DispatchFails(x)
  <2>. DEFINE y == [exec[x] EXCEPT !.at = "HandleError", !.has = {"Error"}]
  <2>1. PICK e \in SendErrors : exec' = [exec EXCEPT ![x].at = CatchTarget(exec[x].at, e), ![x].has = {"Error"}]
    BY <1>11 DEF DispatchFails
  <2>2. CatchTarget(exec[x].at, e) = "HandleError"
    BY CatchGoesToHandleError
  <2>3. exec' = [exec EXCEPT ![x] = y]
    BY <1>0, <2>1, <2>2 DEF Execution
  <2>4. y \in Execution /\ y.at = "HandleError" /\ y.sent = exec[x].sent /\ y.input = exec[x].input
    BY <1>0, SomeStates, MembersKnown DEF Execution
  <2>5. s \in DOMAIN Dispatches
    BY <1>11 DEF DispatchFails
  <2>. HIDE DEF y
  <2>. QED  BY <1>2, <1>3, <1>5, <2>3, <2>4, <2>5
<1>. QED  BY <1>6, <1>7, <1>8, <1>9, <1>10, <1>11 DEF Proceed, SendFails

\* The state machine sends a document where its route goes and nowhere else, and
\* announces COMPLETED after that: for any executions, inputs and failures.
THEOREM RoutesAreFollowed == PipelineSpec => []RoutesAgree
<1>1. PipelineInit => RouteInv
  <2>. SUFFICES ASSUME PipelineInit PROVE RouteInv
    OBVIOUS
  <2>1. ExecutionTypeOK
    BY InitialExecutions DEF PipelineInit, ExecutionInv
  <2>2. ASSUME NEW x \in Executions PROVE exec[x].at = "Notify_QUEUED" /\ exec[x].sent = <<>>
    BY DEF PipelineInit, ExecutionsStart
  <2>3. SentTo(<<>>) = {} /\ Statuses(<<>>) = {}
    BY DEF SentTo, Statuses
  <2>. QED  BY <2>1, <2>2, <2>3 DEF RouteInv, RouteKept, Undecided, Choosing, Decided
<1>2. RouteInv /\ [PipelineNext]_pipelineVars => RouteInv'
  <2>. SUFFICES ASSUME RouteInv, [PipelineNext]_pipelineVars PROVE RouteInv'
    OBVIOUS
  <2>1. ASSUME UNCHANGED exec PROVE RouteInv'
    BY <2>1 DEF RouteInv, ExecutionTypeOK
  <2>2. ASSUME NEW x \in Executions, ExecutionProceeds(x) \/ ExecutionFails(x) PROVE RouteInv'
    BY <2>2, RouteSteps DEF ExecutionProceeds, ExecutionFails
  <2>. QED  BY <2>1, <2>2 DEF PipelineNext, pipelineVars
<1>3. RouteInv => RoutesAgree
  <2>. SUFFICES ASSUME RouteInv, NEW x \in Executions
               PROVE  /\ SentTo(exec[x].sent) \cap Conversions \subseteq {RouteQueue(exec[x].input.route)}
                      /\ "COMPLETED" \in Announced(x)
                           => SentTo(exec[x].sent) \cap Conversions = {RouteQueue(exec[x].input.route)}
    BY DEF RoutesAgree, SentTo
  <2>1. "COMPLETED" \in Announced(x) => "COMPLETED" \in Statuses(exec[x].sent)
    BY DEF Announced, Statuses
  <2>. QED  BY <2>1 DEF RouteInv, RouteKept, Decided
<1>. QED  BY <1>1, <1>2, <1>3, PTL DEF PipelineSpec
-----------------------------------------------------------------------------
(***************************************************************************)
(* The types.  What needs an argument is that the numbers the model counts *)
(* out exist: a message's copies are numbered, and a child document gets   *)
(* the first id that is free, because only finitely many were made.        *)
(***************************************************************************)
Posts == mail \cup acked \cup dead
Opened == UNION {pod[p].open : p \in Pods}
ChildObjects == {o \in objects : o[1][2] # 0}

MailOK ==
  /\ mail \subseteq Entry /\ acked \subseteq Entry /\ dead \subseteq Entry
  /\ IsFiniteSet(Posts)

ObjectsOK == objects \subseteq Document \X Names /\ IsFiniteSet(ChildObjects)

PodTyped(y) ==
  /\ y \in PodState
  /\ y.pc # "idle" => y.msg \in Message
  /\ y.pc = "unpack" => y.msg.queue \in Containers
  /\ y.pc = "send" => y.msg.queue \notin Containers \cup {"output_assembly"}

PodsOK ==
  /\ pod \in [Pods -> PodState]
  /\ \A p \in Pods : PodTyped(pod[p])
  /\ IsFiniteSet(Opened)

WorkersTyped == MailOK /\ ObjectsOK /\ PodsOK /\ faults \in 0..MaxFaults

\* The least of the numbers that are left.
LEMMA MinIsLeast ==
  ASSUME NEW S \in SUBSET Nat, S # {}
  PROVE  Min(S) \in S
<1>1. \E m \in S : \A k \in S : m <= k
  BY NatLeast
<1>. QED  BY <1>1 DEF Min

\* Finitely many messages have finitely many copies.
LEMMA CopiesFinite ==
  ASSUME MailOK, NEW m
  PROVE  IsFiniteSet(Ever) /\ IsFiniteSet(Copies(m)) /\ Cardinality(Copies(m)) \in Nat
<1>. DEFINE f == [e \in Posts |-> e.msg]
<1>2. Ever = {f[e] : e \in Posts}
  BY DEF Ever, Posts
<1>1. IsFiniteSet(Ever)
  <2>. HIDE DEF f
  <2>. QED  BY <1>2, FiniteImage DEF MailOK
<1>3. Copies(m) \in SUBSET Ever
  BY DEF Copies
<1>4. IsFiniteSet(Copies(m))
  BY <1>1, <1>2, <1>3, FS_Subset
<1>. QED  BY <1>1, <1>2, <1>4, FS_CardinalityType

LEMMA PostedTyped ==
  ASSUME MailOK, NEW m \in Message, mail' = Posted(m), UNCHANGED <<acked, dead>>
  PROVE  MailOK'
<1>. DEFINE k == Cardinality(Copies(m)) + 1
            e1 == [msg |-> [m EXCEPT !.copy = k], n |-> 0]
<1>1. k \in Nat
  BY CopiesFinite
<1>2. [m EXCEPT !.copy = k] \in Message
  <2>. HIDE DEF k
  <2>. QED  BY <1>1 DEF Message
<1>3. e1 \in Entry /\ mail' = mail \cup {e1}
  <2>1. 0 \in 0..MaxReceive
    BY WorkersAssumption
  <2>. QED  BY <1>2, <2>1 DEF Entry, Posted
<1>4. Posts' = Posts \cup {e1}
  BY <1>3 DEF Posts
<1>5. IsFiniteSet(Posts')
  <2>. HIDE DEF e1
  <2>. QED  BY <1>4, FS_AddElement DEF MailOK
<1>. QED  BY <1>3, <1>5 DEF MailOK

LEMMA ObjectTyped ==
  ASSUME ObjectsOK, NEW o \in Document \X Names, objects' = objects \cup {o}
  PROVE  ObjectsOK'
<1>1. ChildObjects' \in SUBSET (ChildObjects \cup {o})
  BY DEF ChildObjects
<1>2. IsFiniteSet(ChildObjects \cup {o})
  BY FS_AddElement DEF ObjectsOK
<1>3. IsFiniteSet(ChildObjects')
  BY <1>1, <1>2, FS_Subset
<1>. QED  BY <1>3 DEF ObjectsOK

LEMMA PodTypedMoves ==
  ASSUME PodsOK, NEW p \in Pods, NEW y, PodTyped(y), NEW c, y.open \subseteq pod[p].open \cup {c},
         pod' = [pod EXCEPT ![p] = y]
  PROVE  PodsOK'
<1>1. /\ pod' \in [Pods -> PodState]
      /\ \A q \in Pods : pod'[q] = IF q = p THEN y ELSE pod[q]
  BY DEF PodsOK, PodTyped
<1>2. Opened' \in SUBSET (Opened \cup {c})
  BY <1>1 DEF Opened
<1>3. IsFiniteSet(Opened \cup {c})
  BY FS_AddElement DEF PodsOK
<1>4. IsFiniteSet(Opened')
  BY <1>2, <1>3, FS_Subset
<1>5. \A q \in Pods : PodTyped(pod'[q])
  BY <1>1 DEF PodsOK
<1>. QED  BY <1>1, <1>4, <1>5 DEF PodsOK

\* What is handed on is a message again.
LEMMA HandedOnTyped ==
  ASSUME NEW m \in Message, m.queue \notin Containers \cup {"output_assembly"}
  PROVE  HandedOn(m) \in Message
<1>. DEFINE members == {"documentId", "s3Key", "workspaceId", "route", "Error", "intermediateKeys"}
            At5(q, n, h) == [queue |-> q, doc |-> m.doc, name |-> n, copy |-> m.copy, has |-> h]
<1>1. \A q \in Queues, n \in Names, h \in SUBSET members : At5(q, n, h) \in Message
  BY DEF Message
<1>2. m = At5(m.queue, m.name, m.has) /\ m.queue \in Queues /\ m.name \in Names /\ m.has \in SUBSET members
  BY DEF Message
<1>3. \A q \in DOMAIN Written : Written[q] \in Names
  BY DEF Names
<1>4. m.has \cup {"route"} \in SUBSET members /\ {"documentId", "s3Key"} \in SUBSET members
      /\ (m.has \cap {"documentId"}) \cup {"intermediateKeys"} \in SUBSET members
  BY <1>2
<1>5. CASE m.queue = "classification"
  <2>1. HandedOn(m) = At5(RouteQueue(Classified(m.name)), m.name, m.has \cup {"route"})
    BY <1>2, <1>5 DEF HandedOn
  <2>. HIDE DEF At5, members
  <2>. QED  BY <2>1, <1>1, <1>2, <1>4, QueuesKnown
<1>6. CASE m.queue = "ocr_direct"
  <2>1. HandedOn(m) = At5("pdf_processing", m.name, m.has \cup {"route"})
    BY <1>2, <1>6 DEF HandedOn
  <2>. HIDE DEF At5, members
  <2>. QED  BY <2>1, <1>1, <1>2, <1>4, QueuesKnown
<1>7. CASE m.queue = "tiff_cog"
  <2>1. HandedOn(m) = At5("convert_image", "cog.tif", m.has \cup {"route"})
    BY <1>2, <1>7 DEF HandedOn
  <2>2. "cog.tif" \in Names
    BY <1>3 DEF Written
  <2>. HIDE DEF At5, members
  <2>. QED  BY <2>1, <2>2, <1>1, <1>4, QueuesKnown
<1>8. CASE m.queue = "convert_office"
  <2>1. HandedOn(m) = At5("pdf_processing", "office.pdf", {"documentId", "s3Key"})
    BY <1>2, <1>8 DEF HandedOn
  <2>2. "office.pdf" \in Names
    BY <1>3 DEF Written
  <2>. HIDE DEF At5, members
  <2>. QED  BY <2>1, <2>2, <1>1, <1>4, QueuesKnown
<1>9. CASE m.queue \notin {"classification", "ocr_direct", "tiff_cog", "convert_office"}
  <2>1. HandedOn(m) = At5("output_assembly", Written[m.queue], (m.has \cap {"documentId"}) \cup {"intermediateKeys"})
    BY <1>2, <1>9 DEF HandedOn
  <2>2. m.queue \in DOMAIN Written
    BY <1>2, <1>9 DEF Queues, Containers
  <2>. HIDE DEF At5, members
  <2>. QED  BY <2>1, <2>2, <1>1, <1>3, <1>4, QueuesKnown
<1>. QED  BY <1>5, <1>6, <1>7, <1>8, <1>9

\* A child document has an id that no object and no message to come has.
LEMMA FreshChild ==
  ASSUME WorkersTyped, NEW m \in Message, NEW i \in 1..Entries
  PROVE  \E k \in Nat :
           /\ NewChild(m, i) = [ queue |-> "classification", doc |-> <<m.doc[1], i, k>>, name |-> EntryKind,
                                 copy |-> 0, has |-> {"documentId", "s3Key"} \cup (m.has \cap {"workspaceId"}) ]
           /\ <<m.doc[1], i, k>> \in Document
           /\ \A o \in objects : o[1] # <<m.doc[1], i, k>>
           /\ \A c \in Opened : c.doc # <<m.doc[1], i, k>>
<1>. DEFINE root == m.doc[1]
            mine == {o \in objects : o[1][1] = root /\ o[1][2] = i}
            sons == {c \in Opened : c.doc[1] = root /\ c.doc[2] = i}
            docs == {c.doc : c \in sons}
            all  == Children(root, i) \cup docs
            ids  == {c[3] : c \in all}
            k    == Min((1..Cardinality(ids) + 1) \ ids)
<1>1. i \in Nat /\ i # 0 /\ i \in 0..Entries /\ m.doc \in Document
  BY WorkersAssumption DEF Message
<1>2. IsFiniteSet(Children(root, i))
  <2>1. mine \in SUBSET ChildObjects
    BY <1>1 DEF ChildObjects
  <2>2. IsFiniteSet(mine)
    BY <2>1, FS_Subset DEF WorkersTyped, ObjectsOK
  <2>. DEFINE f == [o \in mine |-> o[1]]
  <2>3. Children(root, i) = {f[o] : o \in mine}
    BY DEF Children
  <2>. HIDE DEF f, mine
  <2>. QED  BY <2>2, <2>3, FiniteImage
<1>3. IsFiniteSet(docs)
  <2>1. sons \in SUBSET Opened
    OBVIOUS
  <2>2. IsFiniteSet(sons)
    BY <2>1, FS_Subset DEF WorkersTyped, PodsOK
  <2>. DEFINE f == [c \in sons |-> c.doc]
  <2>3. docs = {f[c] : c \in sons}
    OBVIOUS
  <2>. HIDE DEF f, sons, docs
  <2>. QED  BY <2>2, <2>3, FiniteImage
<1>4. IsFiniteSet(all)
  <2>. HIDE DEF docs
  <2>. QED  BY <1>2, <1>3, FS_Union
<1>5. IsFiniteSet(ids)
  <2>. DEFINE f == [c \in all |-> c[3]]
  <2>1. ids = {f[c] : c \in all}
    OBVIOUS
  <2>. HIDE DEF f, all, ids
  <2>. QED  BY <1>4, <2>1, FiniteImage
<1>6. k \in Nat /\ k \notin ids
  <2>. HIDE DEF ids
  <2>1. Cardinality(ids) \in Nat
    BY <1>5, FS_CardinalityType
  <2>2. (1..Cardinality(ids) + 1) \ ids \in SUBSET Nat
    BY <2>1
  <2>3. (1..Cardinality(ids) + 1) \ ids # {}
    BY <1>5, OneIsFree
  <2>4. k \in (1..Cardinality(ids) + 1) \ ids
    BY <2>2, <2>3, MinIsLeast
  <2>. QED  BY <2>1, <2>4
<1>7. NewChild(m, i) = [ queue |-> "classification", doc |-> <<root, i, k>>, name |-> EntryKind,
                         copy |-> 0, has |-> {"documentId", "s3Key"} \cup (m.has \cap {"workspaceId"}) ]
  BY DEF NewChild, Opened
<1>8. <<root, i, k>> \in Document
  <2>. HIDE DEF k
  <2>. QED  BY <1>1, <1>6 DEF Document
<1>9. \A o \in objects : o[1] # <<root, i, k>>
  <2>. HIDE DEF k
  <2>. SUFFICES ASSUME NEW o \in objects, o[1] = <<root, i, k>> PROVE FALSE
    OBVIOUS
  <2>1. o[1] \in Children(root, i) /\ o[1][3] = k
    BY DEF Children
  <2>. QED  BY <2>1, <1>6
<1>10. \A c \in Opened : c.doc # <<root, i, k>>
  <2>. HIDE DEF k
  <2>. SUFFICES ASSUME NEW c \in Opened, c.doc = <<root, i, k>> PROVE FALSE
    OBVIOUS
  <2>1. c \in sons /\ c.doc[3] = k
    OBVIOUS
  <2>2. c.doc \in all
    BY <2>1
  <2>. QED  BY <2>1, <2>2, <1>6
<1>. HIDE DEF k
<1>. QED  BY <1>6, <1>7, <1>8, <1>9, <1>10

\* Each step of a service keeps the types.
LEMMA TypedSteps ==
  ASSUME WorkersTyped, NEW p \in Pods, PodWorks(p) \/ PodFails(p)
  PROVE  WorkersTyped'
<1>. DEFINE m == pod[p].msg
            waiting == pod[p].open
<1>1. /\ pod \in [Pods -> PodState] /\ PodTyped(pod[p])
      /\ mail \subseteq Entry /\ IsFiniteSet(Posts)
  BY DEF WorkersTyped, PodsOK, MailOK
<1>2. /\ pod[p].pc # "idle" => m \in Message
      /\ pod[p].pc = "unpack" => m.queue \in Containers
      /\ pod[p].pc = "send" => m.queue \notin Containers \cup {"output_assembly"}
      /\ waiting \subseteq Message /\ pod[p].left \in 0..Entries /\ pod[p].late \in BOOLEAN
  BY <1>1 DEF PodTyped, PodState
<1>3. /\ UNCHANGED <<mail, acked, dead>> => MailOK'
      /\ UNCHANGED objects => ObjectsOK'
      /\ UNCHANGED pod => PodsOK'
  BY DEF WorkersTyped, MailOK, Posts, ObjectsOK, ChildObjects, PodsOK, PodTyped, Opened
<1>4. /\ UNCHANGED faults => faults' \in 0..MaxFaults
      /\ Fault => faults' \in 0..MaxFaults
  BY WorkersAssumption DEF WorkersTyped, Fault
<1>5. \A y : PodTyped(y) /\ y.open \subseteq waiting /\ pod' = [pod EXCEPT ![p] = y] => PodsOK'
  BY PodTypedMoves DEF WorkersTyped
<1>6. CASE Receive(p)
  <2>1. PICK e \in mail :
          /\ e.n < MaxReceive
          /\ mail' = (mail \ {e}) \cup {[e EXCEPT !.n = @ + 1]}
          /\ pod' = [pod EXCEPT ![p].pc = "work", ![p].msg = e.msg, ![p].late = FALSE]
    BY <1>6 DEF Receive
  <2>. DEFINE y == [pod[p] EXCEPT !.pc = "work", !.msg = e.msg, !.late = FALSE]
              f == [e EXCEPT !.n = @ + 1]
  <2>2. e.msg \in Message /\ e.n \in 0..MaxReceive /\ f \in Entry
    BY <1>1, <2>1, WorkersAssumption DEF Entry
  <2>3. y \in PodState /\ y.pc = "work" /\ y.msg = e.msg /\ y.open = waiting
    BY <1>1, <2>2 DEF PodState
  <2>4. PodsOK'
    <3>1. pod' = [pod EXCEPT ![p] = y]
      BY <1>1, <2>1 DEF PodState
    <3>. HIDE DEF y
    <3>. QED  BY <1>5, <2>2, <2>3, <3>1 DEF PodTyped
  <2>5. MailOK'
    <3>1. Posts' \in SUBSET (Posts \cup {f}) /\ UNCHANGED <<acked, dead>>
      BY <1>6, <2>1 DEF Posts, Receive
    <3>2. IsFiniteSet(Posts')
      <4>. HIDE DEF f
      <4>1. IsFiniteSet(Posts \cup {f})
        BY <1>1, FS_AddElement
      <4>. QED  BY <3>1, <4>1, FS_Subset
    <3>. HIDE DEF f
    <3>3. mail' \subseteq Entry
      BY <1>1, <2>1, <2>2 DEF f
    <3>. QED  BY <3>1, <3>2, <3>3 DEF MailOK, WorkersTyped
  <2>. QED  BY <1>3, <1>4, <1>6, <2>4, <2>5 DEF Receive, WorkersTyped
<1>7. CASE Refuse(p)
  <2>. DEFINE y == [pod[p] EXCEPT !.pc = "idle", !.msg = NoMessage]
  <2>1. y \in PodState /\ y.pc = "idle" /\ y.open = waiting /\ pod' = [pod EXCEPT ![p] = y]
    BY <1>1, <1>7 DEF PodState, Refuse
  <2>. HIDE DEF y
  <2>2. PodsOK'
    BY <1>5, <2>1 DEF PodTyped
  <2>. QED  BY <1>3, <1>4, <1>7, <2>2 DEF Refuse, WorkersTyped
<1>8. CASE Convert(p)
  <2>. DEFINE pc1 == IF m.queue = "output_assembly" THEN "delete" ELSE "send"
              y == [pod[p] EXCEPT !.pc = pc1]
  <2>1. m \in Message /\ m.queue \notin Containers
    BY <1>2, <1>8 DEF Convert, At
  <2>2. pc1 \in {"delete", "send"} /\ (pc1 = "send" => m.queue # "output_assembly")
    OBVIOUS
  <2>3. pod' = [pod EXCEPT ![p] = y] /\ UNCHANGED <<mail, acked, dead, faults>>
    BY <1>1, <1>8 DEF Convert, PodState
  <2>4. y \in PodState /\ y.pc = pc1 /\ y.msg = m /\ y.open = waiting
    <3>. HIDE DEF pc1
    <3>. QED  BY <1>1, <2>2 DEF PodState
  <2>5. PodsOK'
    <3>. HIDE DEF y, pc1
    <3>. QED  BY <1>5, <2>1, <2>2, <2>3, <2>4 DEF PodTyped
  <2>6. ObjectsOK'
    <3>1. CASE m.queue \in DOMAIN Written
      <4>1. <<m.doc, Written[m.queue]>> \in Document \X Names
        BY <2>1, <3>1 DEF Message, Names
      <4>2. objects' = objects \cup {<<m.doc, Written[m.queue]>>}
        BY <1>8, <3>1 DEF Convert
      <4>. QED  BY <4>1, <4>2, ObjectTyped DEF WorkersTyped
    <3>2. CASE m.queue \notin DOMAIN Written
      BY <1>3, <1>8, <3>2 DEF Convert
    <3>. QED  BY <3>1, <3>2
  <2>. QED  BY <1>3, <1>4, <2>3, <2>5, <2>6 DEF WorkersTyped
<1>9. CASE PassOn(p)
  <2>. DEFINE y == [pod[p] EXCEPT !.pc = "delete"]
  <2>1. /\ mail' = Posted(HandedOn(m)) /\ UNCHANGED <<acked, dead, objects, faults>>
        /\ pod' = [pod EXCEPT ![p] = y] /\ pod[p].pc = "send"
    BY <1>1, <1>9 DEF PassOn, At, PodState
  <2>2. y \in PodState /\ y.pc = "delete" /\ y.msg = m /\ y.open = waiting
    BY <1>1 DEF PodState
  <2>3. HandedOn(m) \in Message
    BY <1>2, <2>1, HandedOnTyped
  <2>4. MailOK'
    BY <2>1, <2>3, PostedTyped DEF WorkersTyped
  <2>5. PodsOK'
    <3>. HIDE DEF y
    <3>. QED  BY <1>2, <1>5, <2>1, <2>2 DEF PodTyped
  <2>. QED  BY <1>3, <1>4, <2>1, <2>4, <2>5 DEF WorkersTyped
<1>10. CASE Unpack(p)
  <2>. DEFINE y == [pod[p] EXCEPT !.pc = "unpack", !.left = Entries]
  <2>1. /\ UNCHANGED <<mail, acked, dead, objects, faults>>
        /\ pod' = [pod EXCEPT ![p] = y] /\ pod[p].pc = "work" /\ m.queue \in Containers
    BY <1>1, <1>10 DEF Unpack, At, PodState
  <2>2. y \in PodState /\ y.pc = "unpack" /\ y.msg = m /\ y.open = waiting
    <3>1. Entries \in 0..Entries
      BY WorkersAssumption
    <3>. QED  BY <1>1, <3>1 DEF PodState
  <2>3. PodsOK'
    <3>. HIDE DEF y
    <3>. QED  BY <1>2, <1>5, <2>1, <2>2 DEF PodTyped
  <2>. QED  BY <1>3, <1>4, <2>1, <2>3 DEF WorkersTyped
<1>11. CASE ReadEntry(p)
  <2>. DEFINE i == Entries - pod[p].left + 1
              c == NewChild(m, i)
              y == [pod[p] EXCEPT !.left = @ - 1, !.open = @ \cup {c}]
  <2>1. /\ UNCHANGED <<mail, acked, dead, objects, faults>>
        /\ pod' = [pod EXCEPT ![p] = y] /\ pod[p].pc = "unpack" /\ pod[p].left > 0
    BY <1>1, <1>11 DEF ReadEntry, At, PodState
  <2>2. i \in 1..Entries /\ pod[p].left - 1 \in 0..Entries
    BY <1>2, <2>1, WorkersAssumption
  <2>3. c \in Message
    <3>. HIDE DEF i
    <3>1. PICK k \in Nat :
            /\ c = [ queue |-> "classification", doc |-> <<m.doc[1], i, k>>, name |-> EntryKind,
                     copy |-> 0, has |-> {"documentId", "s3Key"} \cup (m.has \cap {"workspaceId"}) ]
            /\ <<m.doc[1], i, k>> \in Document
      BY <1>2, <2>1, <2>2, FreshChild
    <3>2. EntryKind \in Names /\ "classification" \in Queues
      BY EntriesAssumption, QueuesKnown DEF Names
    <3>. HIDE DEF c
    <3>. QED  BY <3>1, <3>2 DEF Message
  <2>. HIDE DEF c
  <2>4. y \in PodState /\ y.pc = "unpack" /\ y.msg = m /\ y.open = waiting \cup {c}
    BY <1>1, <1>2, <2>1, <2>2, <2>3 DEF PodState
  <2>. HIDE DEF y
  <2>5. PodTyped(y)
    BY <1>2, <2>1, <2>4 DEF PodTyped
  <2>6. PodsOK'
    BY <2>1, <2>4, <2>5, PodTypedMoves DEF WorkersTyped
  <2>. QED  BY <1>3, <1>4, <2>1, <2>6 DEF WorkersTyped
<1>12. CASE StoreChild(p)
  <2>1. PICK c \in waiting : objects' = objects \cup {<<c.doc, c.name>>}
    BY <1>12 DEF StoreChild
  <2>2. <<c.doc, c.name>> \in Document \X Names
    BY <1>2 DEF Message
  <2>3. ObjectsOK'
    BY <2>1, <2>2, ObjectTyped DEF WorkersTyped
  <2>. QED  BY <1>3, <1>4, <1>12, <2>3 DEF StoreChild, WorkersTyped
<1>13. CASE SendChild(p)
  <2>1. PICK c \in waiting : mail' = Posted(c) /\ pod' = [pod EXCEPT ![p].open = @ \ {c}]
    BY <1>13 DEF SendChild
  <2>. DEFINE y == [pod[p] EXCEPT !.open = @ \ {c}]
  <2>2. /\ y \in PodState /\ y.pc = pod[p].pc /\ y.msg = m /\ y.open = waiting \ {c}
        /\ pod' = [pod EXCEPT ![p] = y] /\ UNCHANGED <<acked, dead, objects, faults>>
    BY <1>1, <1>13, <2>1 DEF PodState, SendChild
  <2>3. MailOK'
    BY <1>2, <2>1, <2>2, PostedTyped DEF WorkersTyped
  <2>4. PodsOK'
    <3>. HIDE DEF y
    <3>. QED  BY <1>2, <1>5, <2>2 DEF PodTyped
  <2>. QED  BY <1>3, <1>4, <2>2, <2>3, <2>4 DEF WorkersTyped
<1>14. CASE Unpacked(p)
  <2>. DEFINE y == [pod[p] EXCEPT !.pc = "delete"]
  <2>1. /\ UNCHANGED <<mail, acked, dead, objects, faults>>
        /\ pod' = [pod EXCEPT ![p] = y] /\ pod[p].pc = "unpack"
    BY <1>1, <1>14 DEF Unpacked, At, PodState
  <2>2. y \in PodState /\ y.pc = "delete" /\ y.msg = m /\ y.open = waiting
    BY <1>1 DEF PodState
  <2>3. PodsOK'
    <3>. HIDE DEF y
    <3>. QED  BY <1>2, <1>5, <2>1, <2>2 DEF PodTyped
  <2>. QED  BY <1>3, <1>4, <2>1, <2>3 DEF WorkersTyped
<1>15. CASE Delete(p)
  <2>. DEFINE y == [pod[p] EXCEPT !.pc = "idle", !.msg = NoMessage]
  <2>1. y \in PodState /\ y.pc = "idle" /\ y.open = waiting /\ pod' = [pod EXCEPT ![p] = y]
    BY <1>1, <1>15 DEF PodState, Delete
  <2>. HIDE DEF y
  <2>2. PodsOK'
    BY <1>5, <2>1 DEF PodTyped
  <2>3. Posts' = Posts /\ mail' \subseteq mail /\ acked' \subseteq acked \cup mail /\ UNCHANGED <<dead, objects, faults>>
    BY <1>15 DEF Posts, Delete
  <2>4. MailOK'
    BY <1>1, <2>3 DEF MailOK, WorkersTyped
  <2>. QED  BY <1>3, <1>4, <2>2, <2>3, <2>4 DEF WorkersTyped
<1>16. CASE PodFails(p)
  <2>1. PICK y : /\ y \in PodState /\ y.open \subseteq waiting /\ pod' = [pod EXCEPT ![p] = y]
                 /\ y.pc = "idle" \/ (y.pc = pod[p].pc /\ y.msg = m)
    <3>1. CASE Throw(p)
      <4>. DEFINE o == IF m.queue = "archive" THEN waiting ELSE {}
                  y == [Idle EXCEPT !.open = o]
      <4>1. o \subseteq waiting /\ pod' = [pod EXCEPT ![p] = y]
        BY <3>1 DEF Throw
      <4>2. y \in PodState /\ y.open = o /\ y.pc = "idle"
        <5>1. o \in SUBSET Message /\ 0 \in 0..Entries
          BY <1>2, <4>1, WorkersAssumption
        <5>. HIDE DEF o
        <5>. QED  BY <5>1 DEF Idle, PodState
      <4>. HIDE DEF o, y
      <4>. QED  BY <4>1, <4>2
    <3>2. CASE Crash(p)
      <4>1. Idle \in PodState /\ Idle.open \subseteq waiting /\ Idle.pc = "idle"
        BY WorkersAssumption DEF Idle, PodState
      <4>. QED  BY <3>2, <4>1 DEF Crash
    <3>3. CASE Expire(p)
      <4>. DEFINE y == [pod[p] EXCEPT !.late = TRUE]
      <4>1. /\ y \in PodState /\ y.open = waiting /\ y.pc = pod[p].pc /\ y.msg = m
            /\ pod' = [pod EXCEPT ![p] = y]
        BY <1>1, <3>3 DEF PodState, Expire
      <4>. QED  BY <4>1
    <3>. QED  BY <1>16, <3>1, <3>2, <3>3 DEF PodFails
  <2>2. PodsOK'
    BY <1>2, <1>5, <2>1 DEF PodTyped
  <2>. QED  BY <1>3, <1>4, <1>16, <2>2 DEF PodFails, Throw, Crash, Expire, WorkersTyped
<1>. QED  BY <1>6, <1>7, <1>8, <1>9, <1>10, <1>11, <1>12, <1>13, <1>14, <1>15, <1>16 DEF PodWorks

TypeInv == ExecutionTypeOK /\ WorkersTyped

\* What an execution sends is a message for the document it was started for.
LEMMA DeliversAMessage ==
  ASSUME TypeInv, ExecutionTypeOK', NEW x \in Executions, Deliver(x)
  PROVE  mail' = mail \/ \E m \in Message : mail' = Posted(m)
<1>. DEFINE sent == exec'[x].sent
            last == sent[Len(sent)]
            i    == exec[x].input
            msg  == [ queue |-> last.queue, doc |-> i.doc, name |-> i.name, copy |-> 0, has |-> last.has ]
<1>1. CASE Len(sent) > Len(exec[x].sent) /\ last.queue # "state_change"
  <2>1. mail' = Posted(msg)
    BY <1>1 DEF Deliver
  <2>2. exec[x] \in Execution /\ exec'[x] \in Execution
    BY DEF TypeInv, ExecutionTypeOK
  <2>3. last \in Sent
    <3>1. sent \in Seq(Sent) /\ Len(exec[x].sent) \in Nat
      BY <2>2 DEF Execution
    <3>. QED  BY <1>1, <3>1
  <2>4. last.queue \in Queues /\ last.has \in SUBSET Members
    BY <1>1, <2>3, QueuesKnown DEF Sent
  <2>5. i.doc \in Document /\ i.name \in Names
    <3>1. i \in Inputs
      BY <2>2 DEF Execution
    <3>. QED  BY <3>1, UploadedAssumption, WorkersAssumption DEF Document, Names
  <2>6. msg \in Message
    <3>. HIDE DEF last, i
    <3>. QED  BY <2>4, <2>5 DEF Message, Members
  <2>. HIDE DEF msg
  <2>. QED  BY <2>1, <2>6
<1>2. CASE ~(Len(sent) > Len(exec[x].sent) /\ last.queue # "state_change")
  BY <1>2 DEF Deliver
<1>. QED  BY <1>1, <1>2

LEMMA DeliveryTyped ==
  ASSUME TypeInv, ExecutionTypeOK', NEW x \in Executions, Deliver(x), UNCHANGED <<acked, dead>>
  PROVE  MailOK'
<1>1. CASE mail' = mail
  BY <1>1 DEF TypeInv, WorkersTyped, MailOK, Posts
<1>2. ASSUME NEW m \in Message, mail' = Posted(m) PROVE MailOK'
  BY <1>2, PostedTyped DEF TypeInv, WorkersTyped
<1>. QED  BY <1>1, <1>2, DeliversAMessage

LEMMA InitialTypes == PipelineInit => TypeInv
<1>. SUFFICES ASSUME PipelineInit PROVE TypeInv
  OBVIOUS
<1>1. ExecutionTypeOK
  BY InitialExecutions DEF PipelineInit, ExecutionInv
<1>2. \A x \in Executions : exec[x].input \in Inputs
  BY <1>1 DEF ExecutionTypeOK, Execution
<1>3. MailOK
  BY FS_EmptySet DEF PipelineInit, MailOK, Posts
<1>4. ObjectsOK
  <2>1. ASSUME NEW x \in Executions
        PROVE  /\ exec[x].input.doc \in Document /\ exec[x].input.doc[2] = 0
               /\ exec[x].input.name \in Names
    BY <1>2, UploadedAssumption, WorkersAssumption DEF Document, Names
  <2>2. objects \subseteq Document \X Names /\ ChildObjects = {}
    BY <2>1 DEF PipelineInit, ChildObjects
  <2>. QED  BY <2>2, FS_EmptySet DEF ObjectsOK
<1>5. PodsOK
  <2>1. Idle \in PodState /\ Idle.pc = "idle" /\ Idle.open = {}
    BY WorkersAssumption DEF Idle, PodState
  <2>2. pod = [p \in Pods |-> Idle] /\ PodTyped(Idle)
    BY <2>1 DEF PipelineInit, PodTyped
  <2>3. Opened = {}
    <3>. HIDE DEF Idle
    <3>. QED  BY <2>1, <2>2 DEF Opened
  <2>. QED  BY <2>1, <2>2, <2>3, FS_EmptySet DEF PodsOK
<1>6. faults \in 0..MaxFaults
  BY WorkersAssumption DEF PipelineInit
<1>. QED  BY <1>1, <1>3, <1>4, <1>5, <1>6 DEF TypeInv, WorkersTyped

LEMMA NextTypes == TypeInv /\ ExecutionInv /\ [PipelineNext]_pipelineVars => TypeInv' /\ ExecutionInv'
<1>. SUFFICES ASSUME TypeInv, ExecutionInv, [PipelineNext]_pipelineVars
              PROVE  TypeInv' /\ ExecutionInv'
  OBVIOUS
<1>1. ASSUME UNCHANGED exec PROVE ExecutionInv'
  BY <1>1 DEF ExecutionInv, ExecutionTypeOK, NamesDocument, DispatchesNameTheirDocument
<1>2. CASE UNCHANGED pipelineVars
  <2>1. UNCHANGED <<exec, mail, acked, dead, objects, pod, faults>>
    BY <1>2 DEF pipelineVars, workerVars
  <2>. QED  BY <1>1, <2>1 DEF TypeInv, ExecutionTypeOK, WorkersTyped, MailOK, Posts, ObjectsOK, ChildObjects,
                PodsOK, PodTyped, Opened
<1>3. ASSUME NEW x \in Executions, ExecutionProceeds(x) \/ ExecutionFails(x)
      PROVE  TypeInv' /\ ExecutionInv'
  <2>1. ExecutionInv'
    BY <1>3, ExecutionSteps DEF ExecutionProceeds, ExecutionFails
  <2>2. UNCHANGED <<acked, dead, objects, pod>>
    BY <1>3 DEF ExecutionProceeds, ExecutionFails
  <2>3. ObjectsOK' /\ PodsOK'
    BY <2>2 DEF TypeInv, WorkersTyped, ObjectsOK, ChildObjects, PodsOK, PodTyped, Opened
  <2>4. faults' \in 0..MaxFaults
    BY <1>3, WorkersAssumption DEF ExecutionProceeds, ExecutionFails, Fault, TypeInv, WorkersTyped
  <2>5. MailOK'
    <3>1. CASE ExecutionProceeds(x)
      BY <2>1, <3>1, DeliveryTyped DEF ExecutionProceeds, ExecutionInv
    <3>2. CASE ExecutionFails(x)
      BY <3>2 DEF ExecutionFails, TypeInv, WorkersTyped, MailOK, Posts
    <3>. QED  BY <1>3, <3>1, <3>2
  <2>. QED  BY <2>1, <2>3, <2>4, <2>5 DEF TypeInv, WorkersTyped, ExecutionInv
<1>4. CASE WorkersNext /\ UNCHANGED exec
  <2>1. WorkersTyped'
    <3>1. CASE \E p \in Pods : PodWorks(p) \/ PodFails(p)
      BY <3>1, TypedSteps DEF TypeInv
    <3>2. CASE Redrive
      <4>1. Posts' = Posts /\ mail' \subseteq mail /\ dead' \subseteq dead \cup mail
        BY <3>2 DEF Redrive, Posts
      <4>2. MailOK'
        BY <3>2, <4>1 DEF Redrive, TypeInv, WorkersTyped, MailOK
      <4>. QED  BY <3>2, <4>2 DEF Redrive, TypeInv, WorkersTyped, ObjectsOK, ChildObjects, PodsOK, PodTyped, Opened
    <3>. QED  BY <1>4, <3>1, <3>2 DEF WorkersNext
  <2>. QED  BY <1>1, <1>4, <2>1 DEF TypeInv, ExecutionTypeOK
<1>. QED  BY <1>2, <1>3, <1>4 DEF PipelineNext

\* Whatever is delivered twice, late or never: every message has a queue of its
\* own kind, every child a document's id, every count its bound.
THEOREM PipelineTypeCorrect == PipelineSpec => []PipelineTypeOK
<1>1. PipelineInit => TypeInv /\ ExecutionInv
  BY InitialTypes, InitialExecutions DEF PipelineInit
<1>2. TypeInv /\ ExecutionInv /\ [PipelineNext]_pipelineVars => TypeInv' /\ ExecutionInv'
  BY NextTypes
<1>3. TypeInv => PipelineTypeOK
  BY DEF TypeInv, WorkersTyped, MailOK, ObjectsOK, PodsOK, PipelineTypeOK, WorkersTypeOK
<1>. QED  BY <1>1, <1>2, <1>3, PTL DEF PipelineSpec
-----------------------------------------------------------------------------
(***************************************************************************)
(* Handing on.  Objects and messages are never taken back, so what a       *)
(* service has done for a document when it comes to delete its message     *)
(* stays done, whoever deletes the message.                                *)
(***************************************************************************)
\* Served, of some objects and some messages.
ServedBy(m, objs, ever) ==
  CASE m.queue = "output_assembly" -> <<m.doc, "searchable.pdf">> \in objs
    [] m.queue = "email" -> \A i \in 1..Entries : \E c \in ever : c.doc[1] = m.doc[1] /\ c.doc[2] = i
    [] m.queue = "archive" -> TRUE
    [] OTHER -> \E x \in ever : [x EXCEPT !.copy = 0] = [HandedOn(m) EXCEPT !.copy = 0]

\* A pod that is about to delete its message has served it; one that reads a
\* mail has sent, or still holds, a message for each attachment read so far.
HandsOn(y, objs, ever) ==
  /\ y.pc = "delete" => ServedBy(y.msg, objs, ever)
  /\ y.pc = "unpack" /\ y.msg.queue = "email" =>
       \A i \in 1..(Entries - y.left) : \E c \in ever \cup y.open : c.doc[1] = y.msg.doc[1] /\ c.doc[2] = i

HandInv ==
  /\ \A p \in Pods : HandsOn(pod[p], objects, Ever)
  /\ \A e \in acked : ServedBy(e.msg, objects, Ever)

LEMMA ServedIsServedBy == \A m : Served(m) <=> ServedBy(m, objects, Ever)
<1>. SUFFICES ASSUME NEW m PROVE Served(m) <=> ServedBy(m, objects, Ever)
  OBVIOUS
<1>1. Copies(HandedOn(m)) # {} <=> \E x \in Ever : [x EXCEPT !.copy = 0] = [HandedOn(m) EXCEPT !.copy = 0]
  BY DEF Copies
<1>2. CASE m.queue \in {"output_assembly", "email", "archive"}
  BY <1>2 DEF Served, ServedBy
<1>3. CASE m.queue \notin {"output_assembly", "email", "archive"}
  BY <1>1, <1>3 DEF Served, ServedBy
<1>. QED  BY <1>2, <1>3

LEMMA ServedStays ==
  ASSUME NEW o1, NEW o2, o1 \subseteq o2, NEW e1, NEW e2, e1 \subseteq e2
  PROVE  /\ \A m : ServedBy(m, o1, e1) => ServedBy(m, o2, e2)
         /\ \A y : HandsOn(y, o1, e1) => HandsOn(y, o2, e2)
<1>1. ASSUME NEW m, ServedBy(m, o1, e1) PROVE ServedBy(m, o2, e2)
  <2>1. CASE m.queue = "output_assembly"
    BY <1>1, <2>1 DEF ServedBy
  <2>2. CASE m.queue = "email"
    BY <1>1, <2>2 DEF ServedBy
  <2>3. CASE m.queue = "archive"
    BY <2>3 DEF ServedBy
  <2>4. CASE m.queue \notin {"output_assembly", "email", "archive"}
    BY <1>1, <2>4 DEF ServedBy
  <2>. QED  BY <2>1, <2>2, <2>3, <2>4
<1>. QED  BY <1>1 DEF HandsOn

\* One pod moves; objects and messages only come to be.
LEMMA HandMoves ==
  ASSUME HandInv, PodsOK, objects \subseteq objects', Ever \subseteq Ever',
         NEW p \in Pods, NEW y, HandsOn(y, objects', Ever'), pod' = [pod EXCEPT ![p] = y],
         \A e \in acked' : e \in acked \/ ServedBy(e.msg, objects', Ever')
  PROVE  HandInv'
<1>1. \A q \in Pods : pod'[q] = IF q = p THEN y ELSE pod[q]
  BY DEF PodsOK
<1>2. \A q \in Pods : HandsOn(pod[q], objects', Ever')
  BY ServedStays DEF HandInv
<1>3. \A e \in acked : ServedBy(e.msg, objects', Ever')
  BY ServedStays DEF HandInv
<1>. QED  BY <1>1, <1>2, <1>3 DEF HandInv

\* A message that is posted is there afterwards, as a copy of it.
LEMMA PostedIsThere ==
  ASSUME NEW m \in Message, mail' = Posted(m), UNCHANGED <<acked, dead>>
  PROVE  /\ Ever \subseteq Ever'
         /\ \E x \in Ever' : x.doc = m.doc /\ [x EXCEPT !.copy = 0] = [m EXCEPT !.copy = 0]
<1>. DEFINE k == Cardinality(Copies(m)) + 1
            x == [m EXCEPT !.copy = k]
            e == [msg |-> x, n |-> 0]
<1>1. mail' = mail \cup {e}
  BY DEF Posted
<1>. HIDE DEF k
<1>2. x.doc = m.doc /\ [x EXCEPT !.copy = 0] = [m EXCEPT !.copy = 0]
  BY DEF Message
<1>. HIDE DEF x
<1>3. Ever \subseteq Ever'
  BY <1>1 DEF Ever
<1>5. x \in Ever'
  <2>1. e \in mail' /\ e.msg = x
    BY <1>1
  <2>. HIDE DEF e
  <2>2. Ever' = {f.msg : f \in mail' \cup acked' \cup dead'}
    BY DEF Ever
  <2>. QED  BY <2>1, <2>2
<1>4. \E z \in Ever' : z.doc = m.doc /\ [z EXCEPT !.copy = 0] = [m EXCEPT !.copy = 0]
  BY <1>2, <1>5, Zenon
<1>. QED  BY <1>3, <1>4

LEMMA HandingSteps ==
  ASSUME WorkersTyped, HandInv, NEW p \in Pods, PodWorks(p) \/ PodFails(p)
  PROVE  HandInv'
<1>. DEFINE m == pod[p].msg
            waiting == pod[p].open
<1>1. /\ pod \in [Pods -> PodState] /\ PodTyped(pod[p]) /\ PodsOK
      /\ mail \subseteq Entry
      /\ HandsOn(pod[p], objects, Ever)
  BY DEF WorkersTyped, PodsOK, MailOK, HandInv
<1>2. /\ pod[p].pc # "idle" => m \in Message
      /\ pod[p].pc = "unpack" => m.queue \in Containers
      /\ pod[p].pc = "send" => m.queue \notin Containers \cup {"output_assembly"}
      /\ waiting \subseteq Message /\ pod[p].left \in 0..Entries
  BY <1>1 DEF PodTyped, PodState
<1>3. UNCHANGED <<mail, acked, dead>> => Ever \subseteq Ever'
  BY DEF Ever
<1>4. ASSUME NEW y, pod' = [pod EXCEPT ![p] = y], HandsOn(y, objects', Ever'),
             objects \subseteq objects', Ever \subseteq Ever', UNCHANGED acked
      PROVE  HandInv'
  BY <1>1, <1>4, HandMoves
<1>5. \A y : y.pc \in {"idle", "work", "send"} => HandsOn(y, objects', Ever')
  BY DEF HandsOn
<1>6. CASE Receive(p)
  <2>1. PICK e \in mail :
          /\ mail' = (mail \ {e}) \cup {[e EXCEPT !.n = @ + 1]}
          /\ pod' = [pod EXCEPT ![p].pc = "work", ![p].msg = e.msg, ![p].late = FALSE]
    BY <1>6 DEF Receive
  <2>. DEFINE y == [pod[p] EXCEPT !.pc = "work", !.msg = e.msg, !.late = FALSE]
  <2>2. y.pc = "work" /\ pod' = [pod EXCEPT ![p] = y]
    BY <1>1, <2>1 DEF PodState
  <2>3. [e EXCEPT !.n = @ + 1].msg = e.msg
    BY <1>1 DEF Entry
  <2>4. Ever \subseteq Ever' /\ UNCHANGED <<acked, objects>>
    BY <1>6, <2>1, <2>3 DEF Ever, Receive
  <2>. HIDE DEF y
  <2>5. HandsOn(y, objects', Ever')
    BY <1>5, <2>2
  <2>. QED  BY <1>4, <2>2, <2>4, <2>5
<1>7. CASE Refuse(p)
  <2>. DEFINE y == [pod[p] EXCEPT !.pc = "idle", !.msg = NoMessage]
  <2>1. y.pc = "idle" /\ pod' = [pod EXCEPT ![p] = y] /\ UNCHANGED <<mail, acked, dead, objects>>
    BY <1>1, <1>7 DEF PodState, Refuse
  <2>. HIDE DEF y
  <2>2. HandsOn(y, objects', Ever')
    BY <1>5, <2>1
  <2>. QED  BY <1>3, <1>4, <2>1, <2>2
<1>8. CASE Convert(p)
  <2>. DEFINE pc1 == IF m.queue = "output_assembly" THEN "delete" ELSE "send"
              y == [pod[p] EXCEPT !.pc = pc1]
  <2>1. /\ y.pc = pc1 /\ y.msg = m /\ pod' = [pod EXCEPT ![p] = y]
        /\ UNCHANGED <<mail, acked, dead>>
        /\ objects' = IF m.queue \in DOMAIN Written THEN objects \cup {<<m.doc, Written[m.queue]>>} ELSE objects
    BY <1>1, <1>8 DEF PodState, Convert
  <2>2. m.queue = "output_assembly" => <<m.doc, "searchable.pdf">> \in objects'
    BY <2>1 DEF Written
  <2>. HIDE DEF y
  <2>3. HandsOn(y, objects', Ever')
    <3>1. CASE m.queue = "output_assembly"
      BY <2>1, <2>2, <3>1 DEF HandsOn, ServedBy
    <3>2. CASE m.queue # "output_assembly"
      BY <1>5, <2>1, <3>2
    <3>. QED  BY <3>1, <3>2
  <2>. QED  BY <1>3, <1>4, <2>1, <2>3
<1>9. CASE PassOn(p)
  <2>. DEFINE y == [pod[p] EXCEPT !.pc = "delete"]
  <2>1. /\ y.pc = "delete" /\ y.msg = m /\ pod' = [pod EXCEPT ![p] = y] /\ pod[p].pc = "send"
        /\ mail' = Posted(HandedOn(m)) /\ UNCHANGED <<acked, dead, objects>>
    BY <1>1, <1>9 DEF PodState, PassOn, At
  <2>. HIDE DEF y
  <2>2. m \in Message /\ m.queue \notin Containers \cup {"output_assembly"}
    BY <1>2, <2>1
  <2>3. Ever \subseteq Ever' /\ \E x \in Ever' : [x EXCEPT !.copy = 0] = [HandedOn(m) EXCEPT !.copy = 0]
    BY <2>1, <2>2, HandedOnTyped, PostedIsThere
  <2>4. ServedBy(m, objects', Ever')
    BY <2>2, <2>3 DEF ServedBy, Containers
  <2>5. HandsOn(y, objects', Ever')
    BY <2>1, <2>4 DEF HandsOn
  <2>. QED  BY <1>4, <2>1, <2>3, <2>5
<1>10. CASE Unpack(p)
  <2>. DEFINE y == [pod[p] EXCEPT !.pc = "unpack", !.left = Entries]
  <2>1. /\ y.pc = "unpack" /\ y.msg = m /\ y.left = Entries /\ pod' = [pod EXCEPT ![p] = y]
        /\ UNCHANGED <<mail, acked, dead, objects>>
    BY <1>1, <1>10 DEF PodState, Unpack
  <2>. HIDE DEF y
  <2>2. HandsOn(y, objects', Ever')
    BY <2>1, WorkersAssumption DEF HandsOn
  <2>. QED  BY <1>3, <1>4, <2>1, <2>2
<1>11. CASE ReadEntry(p)
  <2>. DEFINE i == Entries - pod[p].left + 1
              c == NewChild(m, i)
              y == [pod[p] EXCEPT !.left = @ - 1, !.open = @ \cup {c}]
  <2>1. /\ UNCHANGED <<mail, acked, dead, objects>>
        /\ pod' = [pod EXCEPT ![p] = y] /\ pod[p].pc = "unpack" /\ pod[p].left > 0
    BY <1>1, <1>11 DEF ReadEntry, At, PodState
  <2>2. i \in 1..Entries /\ 1..(Entries - (pod[p].left - 1)) = 1..(Entries - pod[p].left) \cup {i}
    BY <1>2, <2>1, WorkersAssumption
  <2>3. c.doc[1] = m.doc[1] /\ c.doc[2] = i
    BY DEF NewChild
  <2>. HIDE DEF c, i
  <2>4. y.pc = "unpack" /\ y.msg = m /\ y.left = pod[p].left - 1 /\ y.open = waiting \cup {c}
    BY <1>1, <2>1 DEF PodState
  <2>. HIDE DEF y
  <2>5. m.queue = "email" =>
          \A j \in 1..(Entries - pod[p].left) : \E d \in Ever \cup waiting : d.doc[1] = m.doc[1] /\ d.doc[2] = j
    BY <1>1, <2>1 DEF HandsOn
  <2>6. Ever' = Ever
    BY <2>1 DEF Ever
  <2>7. HandsOn(y, objects', Ever')
    BY <2>2, <2>3, <2>4, <2>5, <2>6 DEF HandsOn
  <2>. QED  BY <1>4, <2>1, <2>6, <2>7
<1>12. CASE StoreChild(p)
  <2>1. objects \subseteq objects' /\ UNCHANGED <<mail, acked, dead, pod>>
    BY <1>12 DEF StoreChild
  <2>2. pod' = [pod EXCEPT ![p] = pod[p]]
    BY <1>1, <2>1
  <2>3. HandsOn(pod[p], objects', Ever')
    BY <1>1, <1>3, <2>1, ServedStays
  <2>. QED  BY <1>3, <1>4, <2>1, <2>2, <2>3
<1>13. CASE SendChild(p)
  <2>1. PICK c \in waiting : mail' = Posted(c) /\ pod' = [pod EXCEPT ![p].open = @ \ {c}]
    BY <1>13 DEF SendChild
  <2>. DEFINE y == [pod[p] EXCEPT !.open = @ \ {c}]
  <2>2. /\ y.pc = pod[p].pc /\ y.msg = m /\ y.left = pod[p].left /\ y.open = waiting \ {c}
        /\ pod' = [pod EXCEPT ![p] = y] /\ UNCHANGED <<acked, dead, objects>>
    BY <1>1, <1>13, <2>1 DEF PodState, SendChild
  <2>. HIDE DEF y
  <2>3. Ever \subseteq Ever' /\ \E x \in Ever' : x.doc = c.doc
    BY <1>2, <2>1, <2>2, PostedIsThere
  <2>4. HandsOn(pod[p], objects', Ever')
    BY <1>1, <2>2, <2>3, ServedStays
  <2>5. HandsOn(y, objects', Ever')
    <3>1. ASSUME y.pc = "unpack", y.msg.queue = "email", NEW i \in 1..(Entries - y.left)
          PROVE  \E d \in Ever' \cup y.open : d.doc[1] = y.msg.doc[1] /\ d.doc[2] = i
      <4>1. PICK d \in Ever' \cup waiting : d.doc[1] = m.doc[1] /\ d.doc[2] = i
        BY <2>2, <2>4, <3>1 DEF HandsOn
      <4>2. CASE d = c
        BY <2>2, <2>3, <4>1, <4>2
      <4>3. CASE d # c
        BY <2>2, <4>1, <4>3
      <4>. QED  BY <4>2, <4>3
    <3>2. y.pc = "delete" => ServedBy(y.msg, objects', Ever')
      BY <2>2, <2>4 DEF HandsOn
    <3>. QED  BY <3>1, <3>2 DEF HandsOn
  <2>. QED  BY <1>4, <2>2, <2>3, <2>5
<1>14. CASE Unpacked(p)
  <2>. DEFINE y == [pod[p] EXCEPT !.pc = "delete"]
  <2>1. /\ y.pc = "delete" /\ y.msg = m /\ pod' = [pod EXCEPT ![p] = y]
        /\ UNCHANGED <<mail, acked, dead, objects>>
        /\ pod[p].pc = "unpack" /\ pod[p].left = 0 /\ ~Waits(p)
    BY <1>1, <1>14 DEF PodState, Unpacked, At
  <2>. HIDE DEF y
  <2>2. Ever' = Ever
    BY <2>1 DEF Ever
  <2>3. ServedBy(m, objects', Ever')
    <3>1. CASE m.queue = "email"
      <4>1. Entries - pod[p].left = Entries
        BY <2>1, WorkersAssumption
      <4>2. \A c \in waiting : c.doc[1] # m.doc[1]
        BY <2>1, <3>1 DEF Waits
      <4>3. \A i \in 1..Entries : \E c \in Ever : c.doc[1] = m.doc[1] /\ c.doc[2] = i
        BY <1>1, <2>1, <3>1, <4>1, <4>2 DEF HandsOn
      <4>. QED  BY <2>2, <3>1, <4>3 DEF ServedBy
    <3>2. CASE m.queue = "archive"
      BY <3>2 DEF ServedBy
    <3>. QED  BY <1>2, <2>1, <3>1, <3>2 DEF Containers
  <2>4. HandsOn(y, objects', Ever')
    BY <2>1, <2>3 DEF HandsOn
  <2>. QED  BY <1>4, <2>1, <2>2, <2>4
<1>15. CASE Delete(p)
  <2>. DEFINE y == [pod[p] EXCEPT !.pc = "idle", !.msg = NoMessage]
              mine == {e \in mail : e.msg = m}
  <2>1. /\ y.pc = "idle" /\ pod' = [pod EXCEPT ![p] = y] /\ pod[p].pc = "delete"
        /\ mail' = mail \ mine /\ acked' = acked \cup mine /\ UNCHANGED <<dead, objects>>
    BY <1>1, <1>15 DEF PodState, Delete, At
  <2>. HIDE DEF y
  <2>2. Ever' = Ever
    BY <2>1 DEF Ever
  <2>3. ServedBy(m, objects', Ever')
    BY <1>1, <2>1, <2>2 DEF HandsOn
  <2>4. \A e \in acked' : e \in acked \/ ServedBy(e.msg, objects', Ever')
    BY <2>1, <2>3
  <2>5. HandsOn(y, objects', Ever')
    BY <1>5, <2>1
  <2>. QED  BY <1>1, <2>1, <2>2, <2>4, <2>5, HandMoves
<1>16. CASE Throw(p)
  <2>. DEFINE y == [Idle EXCEPT !.open = IF m.queue = "archive" THEN waiting ELSE {}]
  <2>1. y.pc = "idle" /\ pod' = [pod EXCEPT ![p] = y] /\ UNCHANGED <<mail, acked, dead, objects>>
    BY <1>16 DEF Throw, Idle
  <2>. HIDE DEF y
  <2>2. HandsOn(y, objects', Ever')
    BY <1>5, <2>1
  <2>. QED  BY <1>3, <1>4, <2>1, <2>2
<1>17. CASE Crash(p)
  <2>1. Idle.pc = "idle" /\ pod' = [pod EXCEPT ![p] = Idle] /\ UNCHANGED <<mail, acked, dead, objects>>
    BY <1>17 DEF Crash, Idle
  <2>2. HandsOn(Idle, objects', Ever')
    BY <1>5, <2>1
  <2>. QED  BY <1>3, <1>4, <2>1, <2>2
<1>18. CASE Expire(p)
  <2>. DEFINE y == [pod[p] EXCEPT !.late = TRUE]
  <2>1. /\ y.pc = pod[p].pc /\ y.msg = m /\ y.left = pod[p].left /\ y.open = waiting
        /\ pod' = [pod EXCEPT ![p] = y] /\ UNCHANGED <<mail, acked, dead, objects>>
    BY <1>1, <1>18 DEF PodState, Expire
  <2>. HIDE DEF y
  <2>2. HandsOn(y, objects', Ever')
    BY <1>1, <2>1 DEF HandsOn, Ever
  <2>. QED  BY <1>3, <1>4, <2>1, <2>2
<1>. QED  BY <1>6, <1>7, <1>8, <1>9, <1>10, <1>11, <1>12, <1>13, <1>14, <1>15, <1>16, <1>17, <1>18
          DEF PodWorks, PodFails

\* What an execution sends is one message more.
LEMMA DeliveriesGrow ==
  ASSUME NEW x \in Executions, Deliver(x), UNCHANGED <<acked, dead>>
  PROVE  Ever \subseteq Ever'
BY DEF Deliver, Posted, Ever

LEMMA NextHands ==
  ASSUME TypeInv, HandInv, [PipelineNext]_pipelineVars
  PROVE  HandInv'
<1>1. ASSUME UNCHANGED <<acked, objects, pod>>, Ever \subseteq Ever' PROVE HandInv'
  BY <1>1, ServedStays DEF HandInv
<1>2. CASE UNCHANGED pipelineVars
  BY <1>1, <1>2 DEF pipelineVars, workerVars, Ever
<1>3. ASSUME NEW x \in Executions, ExecutionProceeds(x) \/ ExecutionFails(x) PROVE HandInv'
  <2>1. CASE ExecutionProceeds(x)
    BY <1>1, <2>1, DeliveriesGrow DEF ExecutionProceeds
  <2>2. CASE ExecutionFails(x)
    BY <1>1, <2>2 DEF ExecutionFails, Ever
  <2>. QED  BY <1>3, <2>1, <2>2
<1>4. CASE WorkersNext
  <2>1. CASE \E p \in Pods : PodWorks(p) \/ PodFails(p)
    BY <2>1, HandingSteps DEF TypeInv
  <2>2. CASE Redrive
    <3>1. Ever' = Ever /\ UNCHANGED <<acked, objects, pod>>
      BY <2>2 DEF Redrive, Ever
    <3>. QED  BY <1>1, <3>1
  <2>. QED  BY <1>4, <2>1, <2>2 DEF WorkersNext
<1>. QED  BY <1>2, <1>3, <1>4 DEF PipelineNext

\* No service deletes the message of a document it has not handed on, whichever
\* delivery of it comes to the delete, for any number of pods, entries and faults.
THEOREM NothingIsDropped == PipelineSpec => []AckedWasHandedOn
<1>1. PipelineInit => TypeInv /\ ExecutionInv /\ HandInv
  <2>. SUFFICES ASSUME PipelineInit PROVE HandInv
    BY InitialTypes, InitialExecutions DEF PipelineInit
  <2>1. Idle.pc = "idle"
    BY DEF Idle
  <2>. QED  BY <2>1 DEF PipelineInit, HandInv, HandsOn
<1>2. TypeInv /\ ExecutionInv /\ HandInv /\ [PipelineNext]_pipelineVars => TypeInv' /\ ExecutionInv' /\ HandInv'
  BY NextTypes, NextHands
<1>3. HandInv => AckedWasHandedOn
  BY ServedIsServedBy DEF HandInv, AckedWasHandedOn
<1>. QED  BY <1>1, <1>2, <1>3, PTL DEF PipelineSpec
-----------------------------------------------------------------------------
(***************************************************************************)
(* Counting children.  Each receive of a container pays for one reading of *)
(* it, and one reading makes at most one document of an entry: what was    *)
(* made of an entry, and what the readings under way may still make of it, *)
(* is no more than the receives of the containers of its root.             *)
(***************************************************************************)
\* Messages are told apart by their bodies and their copies' numbers, and a
\* message is on a queue or has left it.
MessagesDistinct ==
  /\ \A x \in Ever : x.copy \in 1..Cardinality(Copies(x))
  /\ \A e, f \in Posts : e.msg = f.msg => e = f
  /\ mail \cap (acked \cup dead) = {}

\* The documents made of the ith entry of a root, sent or still held by a pod.
Born(r, i) == Children(r, i) \cup {c.doc : c \in {c \in Opened : c.doc[1] = r /\ c.doc[2] = i}}

\* A pod that handles a container and has not read its ith entry yet.
Owes(y, r, i) ==
  /\ y.pc \in {"work", "unpack"} /\ y.msg.queue \in Containers /\ y.msg.doc[1] = r
  /\ y.pc = "unpack" => i \notin 1..(Entries - y.left)
Owed(r, i) == {p \in Pods : Owes(pod[p], r, i)}

Counted(r, i) ==
  /\ IsFiniteSet(Owed(r, i))
  /\ Cardinality(Born(r, i)) + Cardinality(Owed(r, i)) <= Receives(ContainersOf(r))

CountInv == MessagesDistinct /\ \A r \in Roots, i \in 1..Entries : Counted(r, i)

\* The sum that Receives chooses an order for, as a function of the subsets of
\* any set of entries.
LEMMA ReceivesIsASum ==
  ASSUME NEW D \in SUBSET Entry, IsFiniteSet(D)
  PROVE  \E g \in [SUBSET D -> Nat] :
           /\ \A s \in SUBSET D : Receives(s) = g[s]
           /\ g[{}] = 0
           /\ \A s \in SUBSET D : \A x \in s : g[s] = x.n + g[s \ {x}]
<1>. DEFINE c == [s \in SUBSET D |-> CHOOSE x \in s : TRUE]
            W == [e \in D |-> e.n]
<1>1. \A s \in SUBSET D : s # {} => c[s] \in s /\ c[s] = CHOOSE x \in s : TRUE
  OBVIOUS
<1>2. W \in [D -> Nat] /\ \A e \in D : W[e] = e.n /\ e.n \in Nat
  BY WorkersAssumption DEF Entry
<1>. HIDE DEF c, W
<1>3. Takes(c, D)
  BY <1>1 DEF Takes
<1>4. PICK g \in [SUBSET D -> Nat] : Sums(g, D, W, c) /\ AnyOrder(g, D, W)
  BY <1>2, <1>3, Summing
<1>5. g[{}] = 0 /\ \A s \in SUBSET D : \A x \in s : g[s] = x.n + g[s \ {x}]
  BY <1>2, <1>4 DEF Sums, AnyOrder
<1>6. ASSUME NEW s \in SUBSET D PROVE Receives(s) = g[s]
  <2>. DEFINE Rec(h) == [t \in SUBSET s |-> IF t = {} THEN 0 ELSE (CHOOSE x \in t : TRUE).n + h[t \ {CHOOSE x \in t : TRUE}]]
              it == CHOOSE h : h = Rec(h)
              gs == [t \in SUBSET s |-> g[t]]
  <2>1. Receives(s) = it[s]
    BY DEF Receives, MapThenSumSet, MapThenFoldSet
  <2>2. ASSUME NEW t \in SUBSET s, t # {}
        PROVE  t \in SUBSET D /\ c[t] \in t /\ c[t] = (CHOOSE x \in t : TRUE) /\ W[c[t]] = c[t].n
    BY <1>1, <1>2, <2>2
  <2>3. gs = Rec(gs)
    <3>1. ASSUME NEW t \in SUBSET s, t # {} PROVE gs[t] = c[t].n + gs[t \ {c[t]}]
      BY <1>4, <2>2, <3>1 DEF Sums
    <3>2. ASSUME NEW t \in SUBSET s PROVE gs[t] = Rec(gs)[t]
      <4>1. CASE t = {}
        BY <1>5, <4>1
      <4>2. CASE t # {}
        <5>. HIDE DEF gs
        <5>. QED  BY <2>2, <3>1, <4>2
      <4>. QED  BY <4>1, <4>2
    <3>. QED  BY <3>2
  <2>4. it = Rec(it)
    <3>. HIDE DEF gs, Rec
    <3>. QED  BY <2>3
  <2>5. Sums(it, s, W, c)
    <3>. HIDE DEF it
    <3>. SUFFICES ASSUME NEW t \in SUBSET s
                  PROVE  it[t] = IF t = {} THEN 0 ELSE W[c[t]] + it[t \ {c[t]}]
      BY DEF Sums
    <3>1. it[t] = Rec(it)[t]
      BY <2>4
    <3>. QED  BY <2>2, <3>1
  <2>6. Sums(g, s, W, c)
    BY <1>4 DEF Sums
  <2>7. Takes(c, s) /\ IsFiniteSet(s)
    BY <1>1, FS_Subset DEF Takes
  <2>8. it[s] = g[s]
    <3>. HIDE DEF it
    <3>. QED  BY <2>5, <2>6, <2>7, SumsAgree
  <2>. QED  BY <2>1, <2>8
<1>. QED  BY <1>4, <1>5, <1>6

LEMMA ReceivesAdds ==
  ASSUME NEW S \in SUBSET Entry, IsFiniteSet(S), NEW x \in Entry, x \notin S
  PROVE  /\ Receives(S) \in Nat
         /\ Receives(S \cup {x}) = x.n + Receives(S)
<1>. DEFINE D == S \cup {x}
<1>1. D \in SUBSET Entry /\ IsFiniteSet(D) /\ S = D \ {x} /\ x \in D
  BY FS_AddElement
<1>. HIDE DEF D
<1>2. PICK g \in [SUBSET D -> Nat] :
        /\ \A s \in SUBSET D : Receives(s) = g[s]
        /\ \A s \in SUBSET D : \A y \in s : g[s] = y.n + g[s \ {y}]
  BY <1>1, ReceivesIsASum
<1>3. S \in SUBSET D /\ D \in SUBSET D /\ g[D] = x.n + g[S]
  BY <1>1, <1>2
<1>. QED  BY <1>2, <1>3 DEF D

\* The entries of containers are finitely many.
LEMMA ContainersFinite ==
  ASSUME MailOK, NEW r
  PROVE  ContainersOf(r) \in SUBSET Entry /\ IsFiniteSet(ContainersOf(r))
<1>1. ContainersOf(r) \in SUBSET Posts /\ Posts \subseteq Entry
  BY DEF ContainersOf, Posts, MailOK
<1>. QED  BY <1>1, FS_Subset DEF MailOK

\* What was made of an entry is finitely much.
LEMMA BornFinite ==
  ASSUME WorkersTyped, NEW r, NEW i \in 1..Entries
  PROVE  IsFiniteSet(Born(r, i))
<1>. DEFINE mine == {o \in objects : o[1][1] = r /\ o[1][2] = i}
            sons == {c \in Opened : c.doc[1] = r /\ c.doc[2] = i}
            docs == {c.doc : c \in sons}
<1>1. i # 0
  BY WorkersAssumption
<1>2. IsFiniteSet(mine) /\ IsFiniteSet(sons)
  <2>1. mine \in SUBSET ChildObjects /\ sons \in SUBSET Opened
    BY <1>1 DEF ChildObjects
  <2>. HIDE DEF mine, sons
  <2>. QED  BY <2>1, FS_Subset DEF WorkersTyped, ObjectsOK, PodsOK
<1>3. IsFiniteSet(Children(r, i))
  <2>. DEFINE f == [o \in mine |-> o[1]]
  <2>1. Children(r, i) = {f[o] : o \in mine}
    BY DEF Children
  <2>. HIDE DEF f, mine
  <2>. QED  BY <1>2, <2>1, FiniteImage
<1>4. IsFiniteSet(docs)
  <2>. DEFINE f == [c \in sons |-> c.doc]
  <2>1. docs = {f[c] : c \in sons}
    OBVIOUS
  <2>. HIDE DEF f, sons, docs
  <2>. QED  BY <1>2, <2>1, FiniteImage
<1>5. Born(r, i) = Children(r, i) \cup docs
  BY DEF Born
<1>. HIDE DEF docs
<1>. QED  BY <1>3, <1>4, <1>5, FS_Union

\* A posted message is one more, with a number that no copy of it has.
LEMMA PostedIsNew ==
  ASSUME MailOK, MessagesDistinct, NEW m \in Message, mail' = Posted(m), UNCHANGED <<acked, dead>>
  PROVE  /\ MessagesDistinct'
         /\ \E e \in Entry : e.n = 0 /\ mail' = mail \cup {e} /\ e \notin Posts
<1>. DEFINE n == Cardinality(Copies(m))
            x == [m EXCEPT !.copy = n + 1]
            e == [msg |-> x, n |-> 0]
            Alike(y) == {z \in Ever : [z EXCEPT !.copy = 0] = [y EXCEPT !.copy = 0]}
<1>1. n \in Nat /\ IsFiniteSet(Copies(m)) /\ IsFiniteSet(Ever)
  BY CopiesFinite
<1>2. mail' = mail \cup {e}
  BY DEF Posted
<1>3. x \in Message /\ x.copy = n + 1 /\ [x EXCEPT !.copy = 0] = [m EXCEPT !.copy = 0]
  <2>1. n + 1 \in Nat
    BY <1>1
  <2>2. ASSUME NEW k \in Nat
        PROVE  /\ [m EXCEPT !.copy = k] \in Message /\ [m EXCEPT !.copy = k].copy = k
               /\ [[m EXCEPT !.copy = k] EXCEPT !.copy = 0] = [m EXCEPT !.copy = 0]
    BY DEF Message
  <2>. HIDE DEF n
  <2>. QED  BY <2>1, <2>2
<1>4. \A y : Copies(y) = Alike(y)
  BY DEF Copies
<1>5. Copies(x) = Copies(m)
  <2>. HIDE DEF x
  <2>. QED  BY <1>3 DEF Copies
<1>6. x \notin Ever
  <2>. SUFFICES ASSUME x \in Ever PROVE FALSE
    OBVIOUS
  <2>1. x.copy \in 1..n
    <3>1. x.copy \in 1..Cardinality(Copies(x))
      <4>. HIDE DEF x
      <4>. QED  BY DEF MessagesDistinct
    <3>. HIDE DEF x
    <3>. QED  BY <1>5, <3>1
  <2>. HIDE DEF x, n
  <2>. QED  BY <1>1, <1>3, <2>1
<1>. HIDE DEF x
<1>7. e \in Entry /\ e.n = 0 /\ e.msg = x
  <2>1. 0 \in 0..MaxReceive
    BY WorkersAssumption
  <2>. QED  BY <1>3, <2>1 DEF Entry
<1>8. e \notin Posts
  <2>. HIDE DEF e
  <2>. QED  BY <1>6, <1>7 DEF Posts, Ever
<1>. HIDE DEF e
<1>9. Ever' = Ever \cup {x} /\ Posts' = Posts \cup {e}
  <2>1. Posts' = Posts \cup {e}
    BY <1>2 DEF Posts
  <2>2. Ever' = {f.msg : f \in Posts'} /\ Ever = {f.msg : f \in Posts}
    BY DEF Ever, Posts
  <2>. QED  BY <1>7, <2>1, <2>2
<1>10. ASSUME NEW y \in Ever'
       PROVE  y.copy \in 1..Cardinality(Copies(y)')
  <2>1. Copies(y)' = {z \in Ever' : [z EXCEPT !.copy = 0] = [y EXCEPT !.copy = 0]}
    BY DEF Copies
  <2>2. IsFiniteSet(Copies(y)) /\ Cardinality(Copies(y)) \in Nat
    BY CopiesFinite
  <2>3. CASE [x EXCEPT !.copy = 0] = [y EXCEPT !.copy = 0]
    <3>1. Copies(y)' = Copies(y) \cup {x} /\ Copies(y) = Copies(m) /\ x \notin Copies(y)
      BY <1>3, <1>6, <1>9, <2>1, <2>3 DEF Copies
    <3>2. Cardinality(Copies(y)') = n + 1
      BY <1>1, <2>2, <3>1, FS_AddElement
    <3>3. CASE y = x
      BY <1>1, <1>3, <3>2, <3>3
    <3>4. CASE y # x
      <4>1. y.copy \in 1..Cardinality(Copies(y))
        BY <1>9, <3>4 DEF MessagesDistinct
      <4>. QED  BY <1>1, <3>1, <3>2, <4>1
    <3>. QED  BY <3>3, <3>4
  <2>4. CASE [x EXCEPT !.copy = 0] # [y EXCEPT !.copy = 0]
    <3>1. Copies(y)' = Copies(y) /\ y \in Ever
      BY <1>9, <2>1, <2>4 DEF Copies
    <3>. QED  BY <3>1 DEF MessagesDistinct
  <2>. QED  BY <2>3, <2>4
<1>11. \A d, f \in Posts' : d.msg = f.msg => d = f
  <2>1. \A d \in Posts : d.msg # e.msg
    BY <1>6, <1>7 DEF Posts, Ever
  <2>. QED  BY <1>9, <2>1 DEF MessagesDistinct
<1>12. mail' \cap (acked' \cup dead') = {}
  BY <1>2, <1>8 DEF Posts, MessagesDistinct
<1>13. MessagesDistinct'
  BY <1>10, <1>11, <1>12 DEF MessagesDistinct
<1>. QED  BY <1>2, <1>7, <1>8, <1>13

\* It is on no container's account yet.
LEMMA PostedCostsNothing ==
  ASSUME MailOK, MessagesDistinct, NEW m \in Message, mail' = Posted(m), UNCHANGED <<acked, dead>>, NEW r
  PROVE  Receives(ContainersOf(r))' = Receives(ContainersOf(r))
<1>1. PICK e \in Entry : e.n = 0 /\ mail' = mail \cup {e} /\ e \notin Posts
  BY PostedIsNew
<1>. DEFINE S == ContainersOf(r)
            T == ContainersOf(r)'
<1>2. S \in SUBSET Entry /\ IsFiniteSet(S) /\ e \notin S
  BY <1>1, ContainersFinite DEF ContainersOf, Posts
<1>3. T = S \/ T = S \cup {e}
  BY <1>1 DEF ContainersOf
<1>4. Receives(S \cup {e}) = Receives(S)
  <2>. HIDE DEF S
  <2>. QED  BY <1>1, <1>2, ReceivesAdds
<1>5. Receives(ContainersOf(r))' = Receives(T)
  OBVIOUS
<1>. HIDE DEF S, T
<1>6. Receives(T) = Receives(S)
  BY <1>3, <1>4
<1>. QED  BY <1>5, <1>6 DEF S

LEMMA ReceivesCounts ==
  ASSUME MailOK, NEW r
  PROVE  Receives(ContainersOf(r)) \in Nat
<1>1. PICK D \in SUBSET Entry : D = ContainersOf(r) /\ IsFiniteSet(D)
  BY ContainersFinite
<1>2. PICK g \in [SUBSET D -> Nat] : \A s \in SUBSET D : Receives(s) = g[s]
  BY <1>1, ReceivesIsASum
<1>. QED  BY <1>1, <1>2

\* No more is made of an entry or owed, and as much has been received.
LEMMA CountKept ==
  ASSUME WorkersTyped, NEW r \in Roots, NEW i \in 1..Entries, Counted(r, i),
         Born(r, i)' \subseteq Born(r, i), Owed(r, i)' \subseteq Owed(r, i),
         Receives(ContainersOf(r))' = Receives(ContainersOf(r))
  PROVE  Counted(r, i)'
<1>. DEFINE B == Born(r, i)
            O == Owed(r, i)
            B1 == Born(r, i)'
            O1 == Owed(r, i)'
            R == Receives(ContainersOf(r))
<1>1. /\ IsFiniteSet(B) /\ IsFiniteSet(O) /\ B1 \in SUBSET B /\ O1 \in SUBSET O
      /\ Cardinality(B) + Cardinality(O) <= R /\ R \in Nat
  BY BornFinite, ReceivesCounts DEF Counted, WorkersTyped
<1>. HIDE DEF B, O, B1, O1, R
<1>2. IsFiniteSet(O1) /\ Cardinality(B1) <= Cardinality(B) /\ Cardinality(O1) <= Cardinality(O)
  BY <1>1, FS_Subset
<1>3. /\ Cardinality(B) \in Nat /\ Cardinality(O) \in Nat
      /\ Cardinality(B1) \in Nat /\ Cardinality(O1) \in Nat
  BY <1>1, FS_Subset, FS_CardinalityType
<1>4. Cardinality(B1) + Cardinality(O1) <= R
  BY <1>1, <1>2, <1>3
<1>. QED  BY <1>2, <1>4 DEF Counted, B1, O1, R

LEMMA OneOwes ==
  ASSUME PodsOK, NEW p \in Pods, NEW y, pod' = [pod EXCEPT ![p] = y], NEW r, NEW i
  PROVE  /\ Owes(y, r, i) => Owed(r, i)' = Owed(r, i) \cup {p}
         /\ ~Owes(y, r, i) => Owed(r, i)' = Owed(r, i) \ {p}
<1>1. \A q \in Pods : pod'[q] = IF q = p THEN y ELSE pod[q]
  BY DEF PodsOK
<1>2. Owed(r, i)' = {q \in Pods : Owes(pod'[q], r, i)}
  BY DEF Owed, Owes
<1>. QED  BY <1>1, <1>2 DEF Owed

\* A pod moves, makes nothing of any entry and reads none.
LEMMA QuietMove ==
  ASSUME WorkersTyped, CountInv, NEW p \in Pods, NEW y, pod' = [pod EXCEPT ![p] = y],
         MessagesDistinct', \A r \in Roots : Receives(ContainersOf(r))' = Receives(ContainersOf(r)),
         \A r \in Roots, i \in 1..Entries : Owes(y, r, i) => Owes(pod[p], r, i),
         \A r \in Roots, i \in 1..Entries : Born(r, i)' \subseteq Born(r, i)
  PROVE  CountInv'
<1>. SUFFICES ASSUME NEW r \in Roots, NEW i \in 1..Entries PROVE Counted(r, i)'
  BY DEF CountInv
<1>1. /\ Owes(y, r, i) => Owed(r, i)' = Owed(r, i) \cup {p}
      /\ ~Owes(y, r, i) => Owed(r, i)' = Owed(r, i) \ {p}
  <2>1. PodsOK
    BY DEF WorkersTyped
  <2>. QED  BY <2>1, OneOwes
<1>2. Owes(y, r, i) => p \in Owed(r, i)
  BY DEF Owed
<1>3. Owed(r, i)' \subseteq Owed(r, i)
  BY <1>1, <1>2
<1>4. Counted(r, i)
  BY DEF CountInv
<1>. QED  BY <1>3, <1>4, CountKept

\* The same objects and no other messages to come: no other children.
LEMMA NothingBorn ==
  ASSUME PodsOK, NEW p \in Pods, NEW y, pod' = [pod EXCEPT ![p] = y], y.open \subseteq pod[p].open, UNCHANGED objects
  PROVE  \A r \in Roots, i \in 1..Entries : Born(r, i)' \subseteq Born(r, i)
<1>1. \A q \in Pods : pod'[q] = IF q = p THEN y ELSE pod[q]
  BY DEF PodsOK
<1>2. Opened' \subseteq Opened
  BY <1>1 DEF Opened
<1>3. \A r, i : Children(r, i)' = Children(r, i)
  BY DEF Children
<1>. QED  BY <1>2, <1>3 DEF Born

LEMMA SameMessages ==
  ASSUME MessagesDistinct, Posts' = Posts, mail' \subseteq mail, mail' \cap (acked' \cup dead') = {}
  PROVE  MessagesDistinct' /\ \A r : Receives(ContainersOf(r))' = Receives(ContainersOf(r))
<1>1. Ever' = Ever
  BY DEF Ever, Posts
<1>2. \A y : Copies(y)' = Copies(y)
  BY <1>1 DEF Copies
<1>3. \A r : ContainersOf(r)' = ContainersOf(r)
  BY DEF ContainersOf, Posts
<1>4. MessagesDistinct'
  BY <1>1, <1>2 DEF MessagesDistinct
<1>. QED  BY <1>3, <1>4

LEMMA CountingSteps ==
  ASSUME WorkersTyped, WorkersInv, CountInv, NEW p \in Pods, PodWorks(p) \/ PodFails(p)
  PROVE  CountInv'
<1>. DEFINE m == pod[p].msg
            waiting == pod[p].open
<1>1. /\ pod \in [Pods -> PodState] /\ PodTyped(pod[p]) /\ PodsOK
      /\ mail \subseteq Entry /\ MailOK /\ MessagesDistinct
  BY DEF WorkersTyped, PodsOK, MailOK, CountInv
<1>2. /\ pod[p].pc # "idle" => m \in Message
      /\ pod[p].pc = "unpack" => m.queue \in Containers
      /\ pod[p].pc = "send" => m.queue \notin Containers \cup {"output_assembly"}
      /\ waiting \subseteq Message /\ pod[p].left \in 0..Entries
  BY <1>1 DEF PodTyped, PodState
<1>3. ASSUME UNCHANGED <<mail, acked, dead>>
      PROVE  MessagesDistinct' /\ \A r \in Roots : Receives(ContainersOf(r))' = Receives(ContainersOf(r))
  <2>1. Posts' = Posts /\ mail' \subseteq mail /\ mail' \cap (acked' \cup dead') = {}
    BY <1>1, <1>3 DEF Posts, MessagesDistinct
  <2>. QED  BY <1>1, <2>1, SameMessages
<1>4. \A y : y.pc \in {"idle", "send", "delete"} => \A r \in Roots, i \in 1..Entries : ~Owes(y, r, i)
  BY DEF Owes
<1>5. ASSUME NEW y, pod' = [pod EXCEPT ![p] = y], y.open \subseteq waiting, UNCHANGED <<mail, acked, dead, objects>>,
             \A r \in Roots, i \in 1..Entries : Owes(y, r, i) => Owes(pod[p], r, i)
      PROVE  CountInv'
  <2>1. \A r \in Roots, i \in 1..Entries : Born(r, i)' \subseteq Born(r, i)
    BY <1>1, <1>5, NothingBorn
  <2>. QED  BY <1>3, <1>5, <2>1, QuietMove
<1>6. CASE Refuse(p)
  <2>. DEFINE y == [pod[p] EXCEPT !.pc = "idle", !.msg = NoMessage]
  <2>1. y.pc = "idle" /\ y.open = waiting /\ pod' = [pod EXCEPT ![p] = y] /\ UNCHANGED <<mail, acked, dead, objects>>
    BY <1>1, <1>6 DEF PodState, Refuse
  <2>. HIDE DEF y
  <2>2. \A r \in Roots, i \in 1..Entries : ~Owes(y, r, i)
    BY <1>4, <2>1
  <2>. QED  BY <1>5, <2>1, <2>2
<1>7. CASE Convert(p)
  <2>. DEFINE pc1 == IF m.queue = "output_assembly" THEN "delete" ELSE "send"
              y == [pod[p] EXCEPT !.pc = pc1]
  <2>1. /\ y.pc = pc1 /\ y.open = waiting /\ pod' = [pod EXCEPT ![p] = y] /\ UNCHANGED <<mail, acked, dead>>
        /\ objects' = IF m.queue \in DOMAIN Written THEN objects \cup {<<m.doc, Written[m.queue]>>} ELSE objects
        /\ pod[p].pc = "work"
    BY <1>1, <1>7 DEF PodState, Convert, At
  <2>. HIDE DEF y
  <2>2. \A r \in Roots, i \in 1..Entries : ~Owes(y, r, i)
    BY <1>4, <2>1
  <2>3. <<m.doc, m.name>> \in objects
    BY <2>1 DEF WorkersInv, GoodPod, Good
  <2>4. \A r, i : Children(r, i)' = Children(r, i)
    <3>. SUFFICES ASSUME NEW r, NEW i PROVE Children(r, i)' = Children(r, i)
      OBVIOUS
    <3>1. \A o \in objects' : \E q \in objects : q[1] = o[1]
      BY <2>1, <2>3
    <3>2. objects \subseteq objects'
      BY <2>1
    <3>. QED  BY <3>1, <3>2 DEF Children
  <2>5. \A q \in Pods : pod'[q].open = pod[q].open
    BY <1>1, <2>1
  <2>6. \A r \in Roots, i \in 1..Entries : Born(r, i)' \subseteq Born(r, i)
    <3>1. Opened' = Opened
      BY <2>5 DEF Opened
    <3>. QED  BY <2>4, <3>1 DEF Born
  <2>. QED  BY <1>3, <2>1, <2>2, <2>6, QuietMove
<1>8. CASE PassOn(p)
  <2>. DEFINE y == [pod[p] EXCEPT !.pc = "delete"]
  <2>1. /\ y.pc = "delete" /\ y.open = waiting /\ pod' = [pod EXCEPT ![p] = y] /\ pod[p].pc = "send"
        /\ mail' = Posted(HandedOn(m)) /\ UNCHANGED <<acked, dead, objects>>
    BY <1>1, <1>8 DEF PodState, PassOn, At
  <2>. HIDE DEF y
  <2>2. HandedOn(m) \in Message
    BY <1>2, <2>1, HandedOnTyped
  <2>3. PICK h \in Message : h = HandedOn(m)
    BY <2>2
  <2>4. MessagesDistinct' /\ \A r \in Roots : Receives(ContainersOf(r))' = Receives(ContainersOf(r))
    BY <1>1, <2>1, <2>3, PostedIsNew, PostedCostsNothing
  <2>5. \A r \in Roots, i \in 1..Entries : ~Owes(y, r, i)
    BY <1>4, <2>1
  <2>6. \A r \in Roots, i \in 1..Entries : Born(r, i)' \subseteq Born(r, i)
    BY <1>1, <2>1, NothingBorn
  <2>. QED  BY <2>1, <2>4, <2>5, <2>6, QuietMove
<1>9. CASE Unpack(p)
  <2>. DEFINE y == [pod[p] EXCEPT !.pc = "unpack", !.left = Entries]
  <2>1. /\ y.pc = "unpack" /\ y.msg = m /\ y.open = waiting /\ pod' = [pod EXCEPT ![p] = y]
        /\ pod[p].pc = "work" /\ UNCHANGED <<mail, acked, dead, objects>>
    BY <1>1, <1>9 DEF PodState, Unpack, At
  <2>. HIDE DEF y
  <2>2. \A r \in Roots, i \in 1..Entries : Owes(y, r, i) => Owes(pod[p], r, i)
    BY <2>1 DEF Owes
  <2>. QED  BY <1>5, <2>1, <2>2
<1>10. CASE Unpacked(p)
  <2>. DEFINE y == [pod[p] EXCEPT !.pc = "delete"]
  <2>1. /\ y.pc = "delete" /\ y.open = waiting /\ pod' = [pod EXCEPT ![p] = y]
        /\ UNCHANGED <<mail, acked, dead, objects>>
    BY <1>1, <1>10 DEF PodState, Unpacked
  <2>. HIDE DEF y
  <2>2. \A r \in Roots, i \in 1..Entries : ~Owes(y, r, i)
    BY <1>4, <2>1
  <2>. QED  BY <1>5, <2>1, <2>2
<1>11. CASE Throw(p)
  <2>. DEFINE o == IF m.queue = "archive" THEN waiting ELSE {}
              y == [Idle EXCEPT !.open = o]
  <2>1. y.pc = "idle" /\ y.open = o /\ o \subseteq waiting /\ pod' = [pod EXCEPT ![p] = y]
        /\ UNCHANGED <<mail, acked, dead, objects>>
    BY <1>11 DEF Throw, Idle
  <2>. HIDE DEF y, o
  <2>2. \A r \in Roots, i \in 1..Entries : ~Owes(y, r, i)
    BY <1>4, <2>1
  <2>. QED  BY <1>5, <2>1, <2>2
<1>12. CASE Crash(p)
  <2>1. Idle.pc = "idle" /\ Idle.open \subseteq waiting /\ pod' = [pod EXCEPT ![p] = Idle]
        /\ UNCHANGED <<mail, acked, dead, objects>>
    BY <1>12 DEF Crash, Idle
  <2>2. \A r \in Roots, i \in 1..Entries : ~Owes(Idle, r, i)
    BY <1>4, <2>1
  <2>. QED  BY <1>5, <2>1, <2>2
<1>13. CASE Expire(p)
  <2>. DEFINE y == [pod[p] EXCEPT !.late = TRUE]
  <2>1. /\ y.pc = pod[p].pc /\ y.msg = m /\ y.left = pod[p].left /\ y.open = waiting
        /\ pod' = [pod EXCEPT ![p] = y] /\ UNCHANGED <<mail, acked, dead, objects>>
    BY <1>1, <1>13 DEF PodState, Expire
  <2>. HIDE DEF y
  <2>2. \A r \in Roots, i \in 1..Entries : Owes(y, r, i) => Owes(pod[p], r, i)
    BY <2>1 DEF Owes
  <2>. QED  BY <1>5, <2>1, <2>2
<1>14. CASE Delete(p)
  <2>. DEFINE y == [pod[p] EXCEPT !.pc = "idle", !.msg = NoMessage]
              mine == {e \in mail : e.msg = m}
  <2>1. /\ y.pc = "idle" /\ y.open = waiting /\ pod' = [pod EXCEPT ![p] = y]
        /\ mail' = mail \ mine /\ acked' = acked \cup mine /\ UNCHANGED <<dead, objects>>
    BY <1>1, <1>14 DEF PodState, Delete
  <2>. HIDE DEF y
  <2>2. Posts' = Posts /\ mail' \subseteq mail /\ mail' \cap (acked' \cup dead') = {}
    BY <1>1, <2>1 DEF Posts, MessagesDistinct
  <2>3. MessagesDistinct' /\ \A r \in Roots : Receives(ContainersOf(r))' = Receives(ContainersOf(r))
    BY <1>1, <2>2, SameMessages
  <2>4. \A r \in Roots, i \in 1..Entries : ~Owes(y, r, i)
    BY <1>4, <2>1
  <2>5. \A r \in Roots, i \in 1..Entries : Born(r, i)' \subseteq Born(r, i)
    BY <1>1, <2>1, NothingBorn
  <2>. QED  BY <2>1, <2>3, <2>4, <2>5, QuietMove
<1>15. CASE StoreChild(p)
  <2>1. PICK c \in waiting : objects' = objects \cup {<<c.doc, c.name>>} /\ UNCHANGED <<mail, acked, dead, pod>>
    BY <1>15 DEF StoreChild
  <2>2. c \in Opened /\ Opened' = Opened
    BY <2>1 DEF Opened
  <2>3. \A r \in Roots, i \in 1..Entries : Born(r, i)' \subseteq Born(r, i)
    <3>. SUFFICES ASSUME NEW r \in Roots, NEW i \in 1..Entries, NEW d \in Born(r, i)'
                  PROVE  d \in Born(r, i)
      OBVIOUS
    <3>1. CASE d = c.doc /\ c.doc[1] = r /\ c.doc[2] = i
      BY <2>2, <3>1 DEF Born
    <3>2. CASE ~(d = c.doc /\ c.doc[1] = r /\ c.doc[2] = i)
      BY <2>1, <2>2, <3>2 DEF Born, Children
    <3>. QED  BY <3>1, <3>2
  <2>4. pod' = [pod EXCEPT ![p] = pod[p]]
    BY <1>1, <2>1
  <2>. QED  BY <1>3, <2>1, <2>3, <2>4, QuietMove
<1>16. CASE SendChild(p)
  <2>1. PICK c \in waiting : Stored(c) /\ mail' = Posted(c) /\ pod' = [pod EXCEPT ![p].open = @ \ {c}]
    BY <1>16 DEF SendChild
  <2>. DEFINE y == [pod[p] EXCEPT !.open = @ \ {c}]
  <2>2. /\ y.pc = pod[p].pc /\ y.msg = m /\ y.left = pod[p].left /\ y.open = waiting \ {c}
        /\ pod' = [pod EXCEPT ![p] = y] /\ UNCHANGED <<acked, dead, objects>>
    BY <1>1, <1>16, <2>1 DEF PodState, SendChild
  <2>. HIDE DEF y
  <2>3. c \in Message
    BY <1>2
  <2>4. MessagesDistinct' /\ \A r \in Roots : Receives(ContainersOf(r))' = Receives(ContainersOf(r))
    BY <1>1, <2>1, <2>2, <2>3, PostedIsNew, PostedCostsNothing
  <2>5. \A r \in Roots, i \in 1..Entries : Owes(y, r, i) => Owes(pod[p], r, i)
    BY <2>2 DEF Owes
  <2>6. \A r \in Roots, i \in 1..Entries : Born(r, i)' \subseteq Born(r, i)
    BY <1>1, <2>2, NothingBorn
  <2>. QED  BY <2>2, <2>4, <2>5, <2>6, QuietMove
<1>17. CASE Receive(p)
  <2>1. PICK e \in mail :
          /\ e.n < MaxReceive
          /\ mail' = (mail \ {e}) \cup {[e EXCEPT !.n = @ + 1]}
          /\ pod' = [pod EXCEPT ![p].pc = "work", ![p].msg = e.msg, ![p].late = FALSE]
    BY <1>17 DEF Receive
  <2>. DEFINE y == [pod[p] EXCEPT !.pc = "work", !.msg = e.msg, !.late = FALSE]
              f == [e EXCEPT !.n = @ + 1]
  <2>2. f \in Entry /\ f.msg = e.msg /\ f.n = e.n + 1 /\ e \in Entry /\ e.n \in Nat
    BY <1>1, <2>1, WorkersAssumption DEF Entry
  <2>3. y.pc = "work" /\ y.msg = e.msg /\ y.open = waiting /\ pod' = [pod EXCEPT ![p] = y]
    BY <1>1, <2>1 DEF PodState
  <2>4. UNCHANGED <<acked, dead, objects>> /\ pod[p].pc = "idle"
    BY <1>17 DEF Receive, At
  <2>6. mail' = (mail \ {e}) \cup {f}
    BY <2>1
  <2>. HIDE DEF y, f
  <2>5. f \notin Posts
    <3>1. e \in Posts /\ f # e
      BY <2>1, <2>2 DEF Posts
    <3>. QED  BY <1>1, <2>2, <3>1 DEF MessagesDistinct
  <2>7. Posts' = (Posts \ {e}) \cup {f}
    BY <1>1, <2>1, <2>4, <2>6 DEF Posts, MessagesDistinct
  <2>8. MessagesDistinct'
    <3>1. Ever' = {d.msg : d \in Posts'} /\ Ever = {d.msg : d \in Posts} /\ e \in Posts
      BY <2>1 DEF Ever, Posts
    <3>2. Ever' = Ever
      BY <2>2, <2>7, <3>1
    <3>3. \A z : Copies(z)' = Copies(z)
      BY <3>2 DEF Copies
    <3>4. \A d, g \in Posts' : d.msg = g.msg => d = g
      BY <1>1, <2>2, <2>7, <3>1 DEF MessagesDistinct
    <3>5. mail' \cap (acked' \cup dead') = {}
      BY <1>1, <2>4, <2>5, <2>6 DEF MessagesDistinct, Posts
    <3>. QED  BY <1>1, <3>2, <3>3, <3>4, <3>5 DEF MessagesDistinct
  <2>9. ASSUME NEW r \in Roots, NEW i \in 1..Entries PROVE Counted(r, i)'
    <3>1. Born(r, i)' \subseteq Born(r, i)
      BY <1>1, <2>3, <2>4, NothingBorn
    <3>2. p \notin Owed(r, i)
      BY <2>4 DEF Owed, Owes
    <3>3. Counted(r, i)
      BY DEF CountInv
    <3>4. Owes(y, r, i) <=> (e.msg.queue \in Containers /\ e.msg.doc[1] = r)
      BY <2>3 DEF Owes
    <3>7. /\ Owes(y, r, i) => Owed(r, i)' = Owed(r, i) \cup {p}
          /\ ~Owes(y, r, i) => Owed(r, i)' = Owed(r, i) \ {p}
      BY <1>1, <2>3, OneOwes
    <3>5. CASE ~Owes(y, r, i)
      <4>1. Owed(r, i)' \subseteq Owed(r, i)
        BY <3>5, <3>7
      <4>2. ContainersOf(r)' = ContainersOf(r)
        BY <1>1, <2>2, <2>4, <2>6, <3>4, <3>5 DEF ContainersOf
      <4>3. Receives(ContainersOf(r))' = Receives(ContainersOf(r))
        BY <4>2
      <4>. QED  BY <3>1, <3>3, <4>1, <4>3, CountKept
    <3>6. CASE Owes(y, r, i)
      <4>. DEFINE S == ContainersOf(r) \ {e}
                  C == ContainersOf(r)
                  C1 == ContainersOf(r)'
                  O == Owed(r, i)
                  B == Born(r, i)
                  B1 == Born(r, i)'
      <4>1. Owed(r, i)' = O \cup {p}
        BY <3>6, <3>7
      <4>2. C = S \cup {e} /\ C1 = S \cup {f} /\ e \notin S /\ f \notin S
        <5>1. e \in C
          BY <2>1, <3>4, <3>6 DEF ContainersOf
        <5>2. C = {d \in Posts : d.msg.queue \in Containers /\ d.msg.doc[1] = r}
          BY DEF ContainersOf, Posts
        <5>3. C1 = {d \in Posts' : d.msg.queue \in Containers /\ d.msg.doc[1] = r}
          BY DEF ContainersOf, Posts
        <5>. QED  BY <2>2, <2>5, <2>7, <3>4, <3>6, <5>1, <5>2, <5>3
      <4>3. C \in SUBSET Entry /\ IsFiniteSet(C)
        BY <1>1, ContainersFinite
      <4>. HIDE DEF C, C1
      <4>4. S \in SUBSET Entry /\ IsFiniteSet(S)
        <5>1. S \in SUBSET C
          BY <4>2
        <5>. HIDE DEF S
        <5>. QED  BY <4>3, <5>1, FS_Subset
      <4>. HIDE DEF S
      <4>5. Receives(S) \in Nat /\ Receives(C) = e.n + Receives(S) /\ Receives(C1) = f.n + Receives(S)
        BY <2>2, <4>2, <4>4, ReceivesAdds
      <4>6. IsFiniteSet(O) /\ Cardinality(B) + Cardinality(O) <= Receives(C)
        BY <3>3 DEF Counted, C
      <4>7. IsFiniteSet(B) /\ B1 \in SUBSET B
        BY <3>1, BornFinite
      <4>8. p \notin O
        BY <3>2
      <4>. HIDE DEF O, B, B1
      <4>9. /\ Cardinality(B1) <= Cardinality(B) /\ Cardinality(B) \in Nat /\ Cardinality(B1) \in Nat
            /\ IsFiniteSet(O \cup {p}) /\ Cardinality(O \cup {p}) = Cardinality(O) + 1 /\ Cardinality(O) \in Nat
        BY <4>6, <4>7, <4>8, FS_Subset, FS_AddElement, FS_CardinalityType
      <4>10. Cardinality(B1) + Cardinality(O \cup {p}) <= Receives(C1)
        BY <2>2, <4>5, <4>6, <4>9
      <4>. QED  BY <4>1, <4>9, <4>10 DEF Counted, C1, B1
    <3>. QED  BY <3>5, <3>6
  <2>. QED  BY <2>8, <2>9 DEF CountInv
<1>18. CASE ReadEntry(p)
  <2>. DEFINE k == Entries - pod[p].left + 1
              c == NewChild(m, k)
              y == [pod[p] EXCEPT !.left = @ - 1, !.open = @ \cup {c}]
  <2>1. /\ UNCHANGED <<mail, acked, dead, objects>>
        /\ pod' = [pod EXCEPT ![p] = y] /\ pod[p].pc = "unpack" /\ pod[p].left > 0
    BY <1>1, <1>18 DEF ReadEntry, At, PodState
  <2>2. /\ k \in 1..Entries /\ k \notin 1..(Entries - pod[p].left)
        /\ 1..(Entries - (pod[p].left - 1)) = 1..(Entries - pod[p].left) \cup {k}
    BY <1>2, <2>1, WorkersAssumption
  <2>3. c.doc[1] = m.doc[1] /\ c.doc[2] = k
    BY DEF NewChild
  <2>. HIDE DEF c, k
  <2>4. y.pc = "unpack" /\ y.msg = m /\ y.left = pod[p].left - 1 /\ y.open = waiting \cup {c}
    BY <1>1, <2>1 DEF PodState
  <2>. HIDE DEF y
  <2>5. \A q \in Pods : pod'[q] = IF q = p THEN y ELSE pod[q]
    BY <1>1, <2>1
  <2>6. Opened' = Opened \cup {c}
    BY <2>4, <2>5 DEF Opened
  <2>7. \A r, i : Children(r, i)' = Children(r, i)
    BY <2>1 DEF Children
  <2>8. ASSUME NEW r \in Roots, NEW i \in 1..Entries PROVE Counted(r, i)'
    <3>1. Counted(r, i)
      BY DEF CountInv
    <3>2. Receives(ContainersOf(r))' = Receives(ContainersOf(r))
      BY <1>3, <2>1
    <3>3. CASE ~(r = m.doc[1] /\ i = k)
      <4>1. Born(r, i)' \subseteq Born(r, i)
        BY <2>3, <2>6, <2>7, <3>3 DEF Born
      <4>2. Owes(y, r, i) => Owes(pod[p], r, i)
        BY <2>1, <2>2, <2>4, <3>3 DEF Owes
      <4>3. Owed(r, i)' \subseteq Owed(r, i)
        BY <1>1, <2>1, <4>2, OneOwes DEF Owed
      <4>. QED  BY <3>1, <3>2, <4>1, <4>3, CountKept
    <3>4. CASE r = m.doc[1] /\ i = k
      <4>. DEFINE O == Owed(r, i)
                  B == Born(r, i)
                  B1 == Born(r, i)'
                  R == Receives(ContainersOf(r))
      <4>1. B1 \subseteq B \cup {c.doc}
        BY <2>6, <2>7 DEF Born
      <4>2. Owed(r, i)' = O \ {p}
        <5>1. ~Owes(y, r, i)
          BY <2>2, <2>4, <3>4 DEF Owes
        <5>. QED  BY <1>1, <2>1, <5>1, OneOwes
      <4>3. p \in O
        BY <1>2, <2>1, <2>2, <3>4 DEF Owed, Owes
      <4>4. IsFiniteSet(O) /\ Cardinality(B) + Cardinality(O) <= R /\ R \in Nat
        BY <1>1, <3>1, ReceivesCounts DEF Counted
      <4>5. IsFiniteSet(B)
        BY BornFinite
      <4>. HIDE DEF O, B, B1, R
      <4>6. IsFiniteSet(B \cup {c.doc}) /\ Cardinality(B \cup {c.doc}) <= Cardinality(B) + 1 /\ Cardinality(B) \in Nat
        <5>1. IsFiniteSet(B \cup {c.doc})
          BY <4>5, FS_AddElement
        <5>2. Cardinality(B) \in Nat
          BY <4>5, FS_CardinalityType
        <5>3. CASE c.doc \in B
          <6>1. B \cup {c.doc} = B
            BY <5>3
          <6>. QED  BY <5>1, <5>2, <6>1
        <5>4. CASE c.doc \notin B
          <6>1. Cardinality(B \cup {c.doc}) = Cardinality(B) + 1
            BY <4>5, <5>4, FS_AddElement
          <6>. QED  BY <5>1, <5>2, <6>1
        <5>. QED  BY <5>3, <5>4
      <4>7. Cardinality(B1) <= Cardinality(B \cup {c.doc}) /\ Cardinality(B1) \in Nat /\ Cardinality(B \cup {c.doc}) \in Nat
        BY <4>1, <4>6, FS_Subset, FS_CardinalityType
      <4>8. IsFiniteSet(O \ {p}) /\ Cardinality(O \ {p}) = Cardinality(O) - 1 /\ Cardinality(O) \in Nat
        BY <4>3, <4>4, FS_RemoveElement, FS_CardinalityType
      <4>9. Cardinality(B1) + Cardinality(O \ {p}) <= R
        BY <4>4, <4>6, <4>7, <4>8
      <4>. QED  BY <3>2, <4>2, <4>8, <4>9 DEF Counted, B1, R
    <3>. QED  BY <3>3, <3>4
  <2>. QED  BY <1>3, <2>1, <2>8 DEF CountInv
<1>. QED  BY <1>6, <1>7, <1>8, <1>9, <1>10, <1>11, <1>12, <1>13, <1>14, <1>15, <1>16, <1>17, <1>18
          DEF PodWorks, PodFails

CountingInv == TypeInv /\ PipelineInv /\ CountInv

LEMMA NextCounts ==
  ASSUME CountingInv, [PipelineNext]_pipelineVars
  PROVE  CountInv'
<1>. USE DEF CountingInv
<1>1. MailOK /\ MessagesDistinct /\ WorkersTyped /\ WorkersInv
  BY DEF TypeInv, WorkersTyped, CountInv, PipelineInv
<1>2. ASSUME UNCHANGED <<objects, pod>>, MessagesDistinct',
             \A r \in Roots : Receives(ContainersOf(r))' = Receives(ContainersOf(r))
      PROVE  CountInv'
  <2>. SUFFICES ASSUME NEW r \in Roots, NEW i \in 1..Entries PROVE Counted(r, i)'
    BY <1>2 DEF CountInv
  <2>1. Born(r, i)' = Born(r, i) /\ Owed(r, i)' = Owed(r, i)
    BY <1>2 DEF Born, Owed, Children, Opened, Owes
  <2>. QED  BY <1>1, <1>2, <2>1, CountKept DEF CountInv
<1>3. ASSUME Posts' = Posts, mail' \subseteq mail, mail' \cap (acked' \cup dead') = {}, UNCHANGED <<objects, pod>>
      PROVE  CountInv'
  BY <1>1, <1>2, <1>3, SameMessages
<1>4. ASSUME UNCHANGED <<mail, acked, dead, objects, pod>> PROVE CountInv'
  BY <1>1, <1>3, <1>4 DEF Posts, MessagesDistinct
<1>5. CASE UNCHANGED pipelineVars
  BY <1>4, <1>5 DEF pipelineVars, workerVars
<1>6. ASSUME NEW x \in Executions, ExecutionProceeds(x) PROVE CountInv'
  <2>1. mail' = mail \/ \E m \in Message : mail' = Posted(m)
    <3>1. ExecutionTypeOK'
      BY <1>6, ExecutionSteps DEF ExecutionProceeds, PipelineInv, ExecutionInv
    <3>. QED  BY <1>6, <3>1, DeliversAMessage DEF ExecutionProceeds
  <2>2. UNCHANGED <<acked, dead, objects, pod>>
    BY <1>6 DEF ExecutionProceeds
  <2>3. ASSUME NEW m \in Message, mail' = Posted(m) PROVE CountInv'
    BY <1>1, <1>2, <2>2, <2>3, PostedIsNew, PostedCostsNothing
  <2>. QED  BY <1>4, <2>1, <2>2, <2>3
<1>7. ASSUME NEW x \in Executions, ExecutionFails(x) PROVE CountInv'
  BY <1>4, <1>7 DEF ExecutionFails
<1>8. CASE WorkersNext
  <2>1. CASE \E p \in Pods : PodWorks(p) \/ PodFails(p)
    BY <1>1, <2>1, CountingSteps
  <2>2. CASE Redrive
    <3>1. /\ Posts' = Posts /\ mail' \subseteq mail /\ mail' \cap (acked' \cup dead') = {}
          /\ UNCHANGED <<objects, pod>>
      BY <1>1, <2>2 DEF Redrive, Posts, MessagesDistinct
    <3>. QED  BY <1>3, <3>1
  <2>. QED  BY <1>8, <2>1, <2>2 DEF WorkersNext
<1>. QED  BY <1>5, <1>6, <1>7, <1>8 DEF PipelineNext

LEMMA CountingStarts == PipelineInit => CountingInv
<1>. SUFFICES ASSUME PipelineInit PROVE CountingInv
  OBVIOUS
<1>1. TypeInv /\ PipelineInv
  BY InitialTypes, PipelineStarts
<1>2. WorkersTyped /\ MailOK
  BY <1>1 DEF TypeInv, WorkersTyped
<1>3. MessagesDistinct
  BY DEF PipelineInit, MessagesDistinct, Posts, Ever
<1>4. ASSUME NEW r \in Roots, NEW i \in 1..Entries PROVE Counted(r, i)
  <2>1. Idle.pc = "idle" /\ Idle.open = {}
    BY DEF Idle
  <2>2. Owed(r, i) = {} /\ Opened = {}
    BY <2>1 DEF PipelineInit, Owed, Owes, Opened
  <2>3. Children(r, i) = {}
    <3>1. \A x \in Executions : exec[x].input.doc[2] = 0
      BY <1>1, UploadedAssumption DEF TypeInv, ExecutionTypeOK, Execution
    <3>2. i # 0
      BY WorkersAssumption
    <3>. QED  BY <3>1, <3>2 DEF PipelineInit, Children
  <2>4. Born(r, i) = {}
    BY <2>2, <2>3 DEF Born
  <2>5. Receives(ContainersOf(r)) \in Nat
    BY <1>2, ReceivesCounts
  <2>. QED  BY <2>2, <2>4, <2>5, FS_EmptySet DEF Counted
<1>. QED  BY <1>1, <1>3, <1>4 DEF CountingInv, CountInv

LEMMA CountingGoesOn == CountingInv /\ [PipelineNext]_pipelineVars => CountingInv'
<1>1. PipelineInv => ExecutionInv
  BY DEF PipelineInv
<1>. QED  BY <1>1, NextTypes, NextCounts, PipelineGoesOn DEF CountingInv

\* One delivery of a container makes at most one document of each of its
\* entries, for any number of pods, overlapping deliveries, crashes and retries.
THEOREM DuplicatesComeFromRedelivery == PipelineSpec => []DuplicatesNeedRedelivery
<1>1. PipelineInit => CountingInv
  BY CountingStarts
<1>2. CountingInv /\ [PipelineNext]_pipelineVars => CountingInv'
  BY CountingGoesOn
<1>3. CountingInv => DuplicatesNeedRedelivery
  <2>. SUFFICES ASSUME CountingInv, NEW r \in Roots, NEW i \in 1..Entries
                PROVE  Cardinality(Children(r, i)) <= Receives(ContainersOf(r))
    BY DEF DuplicatesNeedRedelivery
  <2>. DEFINE B == Born(r, i)
              O == Owed(r, i)
              C == Children(r, i)
              R == Receives(ContainersOf(r))
  <2>1. WorkersTyped /\ MailOK /\ Counted(r, i)
    BY DEF CountingInv, TypeInv, WorkersTyped, CountInv
  <2>2. IsFiniteSet(B) /\ R \in Nat /\ C \in SUBSET B
    BY <2>1, BornFinite, ReceivesCounts DEF Born
  <2>3. IsFiniteSet(O) /\ Cardinality(B) + Cardinality(O) <= R
    BY <2>1 DEF Counted
  <2>. HIDE DEF B, O, C, R
  <2>4. /\ Cardinality(C) <= Cardinality(B) /\ Cardinality(C) \in Nat
        /\ Cardinality(B) \in Nat /\ Cardinality(O) \in Nat
    BY <2>2, <2>3, FS_Subset, FS_CardinalityType
  <2>5. Cardinality(C) <= R
    BY <2>2, <2>3, <2>4
  <2>. QED  BY <2>5 DEF C, R
<1>. QED  BY <1>1, <1>2, <1>3, PTL DEF PipelineSpec
-----------------------------------------------------------------------------
(***************************************************************************)
(* The queues implement AtLeastOnce.  A pod may come to delete a message   *)
(* long after it received it, when the queue has redelivered it, or another *)
(* pod has deleted it, or it was dead-lettered: what it needs is that the  *)
(* message it holds was received, and is still the only entry of its own.  *)
(***************************************************************************)
Received(m, posts) == \E e \in posts : e.msg = m /\ e.n > 0
HeldKnown == \A p \in Pods : pod[p].pc # "idle" => Received(pod[p].msg, Posts)

\* One pod moves; receive counts only grow.
LEMMA HeldMoves ==
  ASSUME HeldKnown, PodsOK, NEW p \in Pods, NEW y, pod' = [pod EXCEPT ![p] = y],
         \A m : Received(m, Posts) => Received(m, Posts'),
         y.pc # "idle" => (pod[p].pc # "idle" /\ y.msg = pod[p].msg) \/ Received(y.msg, Posts')
  PROVE  HeldKnown'
<1>1. \A q \in Pods : pod'[q] = IF q = p THEN y ELSE pod[q]
  BY DEF PodsOK
<1>2. \A q \in Pods : pod[q].pc # "idle" => Received(pod[q].msg, Posts')
  BY DEF HeldKnown
<1>3. y.pc # "idle" => Received(y.msg, Posts')
  BY <1>2
<1>. QED  BY <1>1, <1>2, <1>3 DEF HeldKnown

LEMMA HeldSteps ==
  ASSUME WorkersTyped, HeldKnown, NEW p \in Pods, PodWorks(p) \/ PodFails(p)
  PROVE  HeldKnown'
<1>. DEFINE m == pod[p].msg
<1>1. PodsOK /\ pod \in [Pods -> PodState] /\ mail \subseteq Entry
  BY DEF WorkersTyped, PodsOK, MailOK
<1>2. Posts \subseteq Posts' => \A k : Received(k, Posts) => Received(k, Posts')
  BY DEF Received
<1>3. ASSUME NEW y, pod' = [pod EXCEPT ![p] = y], Posts \subseteq Posts',
             y.pc # "idle" => pod[p].pc # "idle" /\ y.msg = m
      PROVE  HeldKnown'
  BY <1>1, <1>2, <1>3, HeldMoves
<1>4. CASE Receive(p)
  <2>1. PICK e \in mail :
          /\ mail' = (mail \ {e}) \cup {[e EXCEPT !.n = @ + 1]}
          /\ pod' = [pod EXCEPT ![p].pc = "work", ![p].msg = e.msg, ![p].late = FALSE]
    BY <1>4 DEF Receive
  <2>. DEFINE y == [pod[p] EXCEPT !.pc = "work", !.msg = e.msg, !.late = FALSE]
              f == [e EXCEPT !.n = @ + 1]
  <2>2. y.msg = e.msg /\ pod' = [pod EXCEPT ![p] = y]
    BY <1>1, <2>1 DEF PodState
  <2>3. f.msg = e.msg /\ f.n > 0
    BY <1>1 DEF Entry
  <2>4. Posts' = (mail \ {e}) \cup {f} \cup acked \cup dead
    BY <1>4, <2>1 DEF Posts, Receive
  <2>. HIDE DEF y, f
  <2>5. Received(e.msg, Posts')
    BY <2>3, <2>4 DEF Received
  <2>6. \A k : Received(k, Posts) => Received(k, Posts')
    BY <2>4, <2>5 DEF Received, Posts
  <2>. QED  BY <1>1, <2>2, <2>5, <2>6, HeldMoves
<1>5. CASE Refuse(p)
  <2>. DEFINE y == [pod[p] EXCEPT !.pc = "idle", !.msg = NoMessage]
  <2>1. y.pc = "idle" /\ pod' = [pod EXCEPT ![p] = y] /\ Posts' = Posts
    BY <1>1, <1>5 DEF PodState, Refuse, Posts
  <2>. HIDE DEF y
  <2>. QED  BY <1>3, <2>1
<1>6. CASE Convert(p)
  <2>. DEFINE z == IF m.queue = "output_assembly" THEN "delete" ELSE "send"
              y == [pod[p] EXCEPT !.pc = z]
  <2>1. y.msg = m /\ pod' = [pod EXCEPT ![p] = y] /\ Posts' = Posts /\ pod[p].pc # "idle"
    BY <1>1, <1>6 DEF PodState, Convert, Posts, At
  <2>. HIDE DEF y
  <2>. QED  BY <1>3, <2>1
<1>7. CASE PassOn(p)
  <2>. DEFINE y == [pod[p] EXCEPT !.pc = "delete"]
  <2>1. /\ y.msg = m /\ pod' = [pod EXCEPT ![p] = y] /\ pod[p].pc # "idle"
        /\ mail' = Posted(HandedOn(m)) /\ UNCHANGED <<acked, dead>>
    BY <1>1, <1>7 DEF PodState, PassOn, At
  <2>2. Posts \subseteq Posts'
    BY <2>1 DEF Posts, Posted
  <2>. HIDE DEF y
  <2>. QED  BY <1>3, <2>1, <2>2
<1>8. CASE Unpack(p)
  <2>. DEFINE y == [pod[p] EXCEPT !.pc = "unpack", !.left = Entries]
  <2>1. y.msg = m /\ pod' = [pod EXCEPT ![p] = y] /\ Posts' = Posts /\ pod[p].pc # "idle"
    BY <1>1, <1>8 DEF PodState, Unpack, Posts, At
  <2>. HIDE DEF y
  <2>. QED  BY <1>3, <2>1
<1>9. CASE ReadEntry(p)
  <2>. DEFINE c == NewChild(m, Entries - pod[p].left + 1)
              y == [pod[p] EXCEPT !.left = @ - 1, !.open = @ \cup {c}]
  <2>1. pod' = [pod EXCEPT ![p] = y] /\ Posts' = Posts /\ pod[p].pc # "idle"
    BY <1>1, <1>9 DEF PodState, ReadEntry, Posts, At
  <2>. HIDE DEF c
  <2>2. y.msg = m
    BY <1>1 DEF PodState
  <2>. HIDE DEF y
  <2>. QED  BY <1>3, <2>1, <2>2
<1>10. CASE StoreChild(p)
  <2>1. pod' = [pod EXCEPT ![p] = pod[p]] /\ Posts' = Posts
    BY <1>1, <1>10 DEF StoreChild, Posts
  <2>. QED  BY <1>3, <2>1
<1>11. CASE SendChild(p)
  <2>1. PICK c \in pod[p].open : mail' = Posted(c) /\ pod' = [pod EXCEPT ![p].open = @ \ {c}]
    BY <1>11 DEF SendChild
  <2>. DEFINE y == [pod[p] EXCEPT !.open = @ \ {c}]
  <2>2. y.msg = m /\ y.pc = pod[p].pc /\ pod' = [pod EXCEPT ![p] = y]
    BY <1>1, <2>1 DEF PodState
  <2>3. Posts \subseteq Posts'
    BY <1>11, <2>1 DEF SendChild, Posts, Posted
  <2>. HIDE DEF y
  <2>. QED  BY <1>3, <2>2, <2>3
<1>12. CASE Unpacked(p)
  <2>. DEFINE y == [pod[p] EXCEPT !.pc = "delete"]
  <2>1. y.msg = m /\ pod' = [pod EXCEPT ![p] = y] /\ Posts' = Posts /\ pod[p].pc # "idle"
    BY <1>1, <1>12 DEF PodState, Unpacked, Posts, At
  <2>. HIDE DEF y
  <2>. QED  BY <1>3, <2>1
<1>13. CASE Delete(p)
  <2>. DEFINE y == [pod[p] EXCEPT !.pc = "idle", !.msg = NoMessage]
  <2>1. y.pc = "idle" /\ pod' = [pod EXCEPT ![p] = y] /\ Posts' = Posts
    BY <1>1, <1>13 DEF PodState, Delete, Posts
  <2>. HIDE DEF y
  <2>. QED  BY <1>3, <2>1
<1>14. CASE Throw(p)
  <2>. DEFINE y == [Idle EXCEPT !.open = IF m.queue = "archive" THEN pod[p].open ELSE {}]
  <2>1. y.pc = "idle" /\ pod' = [pod EXCEPT ![p] = y] /\ Posts' = Posts
    BY <1>14 DEF Throw, Idle, Posts
  <2>. HIDE DEF y
  <2>. QED  BY <1>3, <2>1
<1>15. CASE Crash(p)
  <2>1. Idle.pc = "idle" /\ pod' = [pod EXCEPT ![p] = Idle] /\ Posts' = Posts
    BY <1>15 DEF Crash, Idle, Posts
  <2>. QED  BY <1>3, <2>1
<1>16. CASE Expire(p)
  <2>. DEFINE y == [pod[p] EXCEPT !.late = TRUE]
  <2>1. y.msg = m /\ y.pc = pod[p].pc /\ pod' = [pod EXCEPT ![p] = y] /\ Posts' = Posts
    BY <1>1, <1>16 DEF PodState, Expire, Posts
  <2>. HIDE DEF y
  <2>. QED  BY <1>3, <2>1
<1>. QED  BY <1>4, <1>5, <1>6, <1>7, <1>8, <1>9, <1>10, <1>11, <1>12, <1>13, <1>14, <1>15, <1>16
          DEF PodWorks, PodFails

\* What worked stands for in the mapping.
WorkDone == {m \in Ever : Served(m)}
WorkMeant == WorkDone = {m \in Ever : ServedBy(m, objects, Ever)}
MailInv == CountingInv /\ HandInv /\ HeldKnown

LEMMA WorkIsMeant == WorkMeant
BY ServedIsServedBy DEF WorkMeant, WorkDone

LEMMA KnownAreEver == Mail!Known = Ever
BY DEF Mail!Known, Ever

LEMMA WorkGrows ==
  ASSUME WorkMeant, WorkMeant', Ever \subseteq Ever', objects \subseteq objects'
  PROVE  WorkDone \subseteq WorkDone'
<1>1. \A m : ServedBy(m, objects, Ever) => ServedBy(m, objects', Ever')
  BY ServedStays
<1>2. WorkDone' = {m \in Ever' : ServedBy(m, objects', Ever')}
  BY DEF WorkMeant
<1>. QED  BY <1>1, <1>2 DEF WorkMeant

\* The steps of the mapping, one for each thing that happens to a queue.
LEMMA QuietStep ==
  ASSUME UNCHANGED <<mail, acked, dead>>, WorkDone \subseteq WorkDone'
  PROVE  Mail!Next
BY DEF Mail!Next, WorkDone

LEMMA SendStep ==
  ASSUME MailInv, NEW m \in Message, mail' = Posted(m), UNCHANGED <<acked, dead>>,
         WorkDone \subseteq WorkDone'
  PROVE  Mail!Next
<1>1. MailOK /\ MessagesDistinct
  BY DEF MailInv, CountingInv, TypeInv, WorkersTyped, CountInv
<1>2. PICK e \in Entry : e.n = 0 /\ mail' = mail \cup {e} /\ e \notin Posts
  BY <1>1, PostedIsNew
<1>3. \A d, f \in Posts' : d.msg = f.msg => d = f
  BY <1>1, PostedIsNew DEF MessagesDistinct
<1>4. Posts' = Posts \cup {e}
  BY <1>2 DEF Posts
<1>5. e.msg \notin Ever
  BY <1>2, <1>3, <1>4 DEF Ever, Posts
<1>6. e = [msg |-> e.msg, n |-> 0]
  BY <1>2 DEF Entry
<1>7. Mail!Send
  BY <1>2, <1>5, <1>6, KnownAreEver DEF Mail!Send
<1>. QED  BY <1>7 DEF Mail!Next, WorkDone

LEMMA ReceiveStep ==
  ASSUME NEW p \in Pods, Receive(p), WorkDone \subseteq WorkDone'
  PROVE  Mail!Next
<1>1. PICK e \in mail : e.n < MaxReceive /\ mail' = (mail \ {e}) \cup {[e EXCEPT !.n = @ + 1]}
  BY DEF Receive
<1>2. Mail!Receive(e)
  BY <1>1 DEF Mail!Receive, Receive
<1>. QED  BY <1>1, <1>2 DEF Mail!Next, WorkDone

LEMMA DeleteStep ==
  ASSUME MailInv, NEW p \in Pods, Delete(p), WorkMeant, WorkDone \subseteq WorkDone'
  PROVE  Mail!Next
<1>. DEFINE m == pod[p].msg
            mine == {e \in mail : e.msg = m}
<1>1. mail' = mail \ mine /\ acked' = acked \cup mine /\ UNCHANGED dead /\ pod[p].pc = "delete"
  BY DEF Delete, At
<1>2. CASE mine = {}
  BY <1>1, <1>2, QuietStep
<1>3. CASE mine # {}
  <2>1. PICK e \in mine : TRUE
    BY <1>3
  <2>2. e \in mail /\ e.msg = m /\ mail \subseteq Posts
    BY DEF Posts
  <2>3. \A f \in Posts : f.msg = m => f = e
    BY <2>2 DEF MailInv, CountingInv, CountInv, MessagesDistinct
  <2>4. mine = {e}
    BY <2>2, <2>3
  <2>5. e.n > 0
    BY <1>1, <2>3 DEF MailInv, HeldKnown, Received
  <2>6. e.msg \in WorkDone
    <3>1. ServedBy(m, objects, Ever)
      BY <1>1 DEF MailInv, HandInv, HandsOn
    <3>2. e.msg \in Ever
      BY <2>2 DEF Ever
    <3>. QED  BY <2>2, <3>1, <3>2 DEF WorkMeant
  <2>7. {f.msg : f \in acked'} = {f.msg : f \in acked} \cup {e.msg}
    BY <1>1, <2>4
  <2>8. Mail!Delete(e)
    BY <1>1, <2>4, <2>5, <2>6, <2>7 DEF Mail!Delete, WorkDone
  <2>. QED  BY <2>2, <2>8 DEF Mail!Next, WorkDone
<1>. QED  BY <1>2, <1>3

LEMMA RedriveStep ==
  ASSUME Redrive, WorkDone \subseteq WorkDone'
  PROVE  Mail!Next
<1>1. PICK e \in mail : e.n = MaxReceive /\ mail' = mail \ {e} /\ dead' = dead \cup {e}
  BY DEF Redrive
<1>2. {f.msg : f \in dead'} = {f.msg : f \in dead} \cup {e.msg}
  BY <1>1
<1>3. Mail!Bury(e)
  BY <1>1, <1>2 DEF Mail!Bury, Redrive
<1>. QED  BY <1>1, <1>3 DEF Mail!Next, WorkDone

LEMMA MailSteps ==
  ASSUME MailInv, WorkMeant, WorkMeant', [PipelineNext]_pipelineVars, ExecutionTypeOK'
  PROVE  [Mail!Next]_(Mail!deliveryVars)
<1>1. TypeInv /\ WorkersTyped /\ PodsOK /\ mail \subseteq Entry
  BY DEF MailInv, CountingInv, TypeInv, WorkersTyped, MailOK
<1>2. ASSUME UNCHANGED <<mail, acked, dead>>, objects \subseteq objects' PROVE Mail!Next
  BY <1>2, WorkGrows, QuietStep DEF Ever
<1>3. ASSUME NEW m \in Message, mail' = Posted(m), UNCHANGED <<acked, dead, objects>> PROVE Mail!Next
  BY <1>3, WorkGrows, SendStep DEF Ever, Posted
<1>4. CASE UNCHANGED pipelineVars
  BY <1>2, <1>4 DEF pipelineVars, workerVars
<1>5. ASSUME NEW x \in Executions, ExecutionProceeds(x) PROVE Mail!Next
  <2>1. UNCHANGED <<acked, dead, objects>> /\ Deliver(x)
    BY <1>5 DEF ExecutionProceeds
  <2>2. mail' = mail \/ \E m \in Message : mail' = Posted(m)
    BY <1>1, <2>1, DeliversAMessage
  <2>. QED  BY <1>2, <1>3, <2>1, <2>2
<1>6. ASSUME NEW x \in Executions, ExecutionFails(x) PROVE Mail!Next
  BY <1>2, <1>6 DEF ExecutionFails
<1>7. ASSUME NEW p \in Pods, PodWorks(p) PROVE Mail!Next
  <2>1. PodTyped(pod[p]) /\ pod[p].open \subseteq Message
    BY <1>1 DEF PodsOK, PodTyped, PodState
  <2>2. CASE Receive(p)
    <3>1. PICK e \in mail : mail' = (mail \ {e}) \cup {[e EXCEPT !.n = @ + 1]}
      BY <2>2 DEF Receive
    <3>2. [e EXCEPT !.n = @ + 1].msg = e.msg
      BY <1>1 DEF Entry
    <3>3. Ever \subseteq Ever' /\ objects' = objects
      BY <2>2, <3>1, <3>2 DEF Ever, Receive
    <3>. QED  BY <2>2, <3>3, WorkGrows, ReceiveStep
  <2>3. CASE Refuse(p)
    BY <1>2, <2>3 DEF Refuse
  <2>4. CASE Convert(p)
    BY <1>2, <2>4 DEF Convert
  <2>5. CASE PassOn(p)
    <3>1. pod[p].pc = "send" /\ mail' = Posted(HandedOn(pod[p].msg)) /\ UNCHANGED <<acked, dead, objects>>
      BY <2>5 DEF PassOn, At
    <3>2. HandedOn(pod[p].msg) \in Message
      BY <2>1, <3>1, HandedOnTyped DEF PodTyped
    <3>. QED  BY <1>3, <3>1, <3>2
  <2>6. CASE Unpack(p)
    BY <1>2, <2>6 DEF Unpack
  <2>7. CASE ReadEntry(p)
    BY <1>2, <2>7 DEF ReadEntry
  <2>8. CASE StoreChild(p)
    BY <1>2, <2>8 DEF StoreChild
  <2>9. CASE SendChild(p)
    <3>1. PICK c \in pod[p].open : mail' = Posted(c)
      BY <2>9 DEF SendChild
    <3>. QED  BY <1>3, <2>1, <2>9, <3>1 DEF SendChild
  <2>10. CASE Unpacked(p)
    BY <1>2, <2>10 DEF Unpacked
  <2>11. CASE Delete(p)
    <3>1. Ever \subseteq Ever' /\ objects' = objects
      BY <2>11 DEF Delete, Ever
    <3>. QED  BY <2>11, <3>1, WorkGrows, DeleteStep
  <2>. QED  BY <1>7, <2>2, <2>3, <2>4, <2>5, <2>6, <2>7, <2>8, <2>9, <2>10, <2>11 DEF PodWorks
<1>8. ASSUME NEW p \in Pods, PodFails(p) PROVE Mail!Next
  BY <1>2, <1>8 DEF PodFails, Throw, Crash, Expire
<1>9. CASE Redrive
  <2>1. Ever \subseteq Ever' /\ objects' = objects
    BY <1>9 DEF Redrive, Ever
  <2>. QED  BY <1>9, <2>1, WorkGrows, RedriveStep
<1>. QED  BY <1>4, <1>5, <1>6, <1>7, <1>8, <1>9 DEF PipelineNext, WorkersNext

\* A queue's messages, whatever kind they are and however many pods handle them,
\* with whatever faults: none is deleted that was not received and handed on,
\* none is given up that was not received MaxReceive times, none comes back.
THEOREM MailKeepsItsPromise == PipelineSpec => MailIsDelivered
<1>1. PipelineInit => MailInv /\ ExecutionInv
  <2>. SUFFICES ASSUME PipelineInit PROVE MailInv
    BY InitialExecutions DEF PipelineInit
  <2>1. Idle.pc = "idle"
    BY DEF Idle
  <2>2. HandInv /\ HeldKnown
    BY <2>1 DEF PipelineInit, HandInv, HandsOn, HeldKnown
  <2>. QED  BY <2>2, CountingStarts DEF MailInv
<1>2. MailInv /\ [PipelineNext]_pipelineVars => MailInv'
  <2>. SUFFICES ASSUME MailInv, [PipelineNext]_pipelineVars PROVE MailInv'
    OBVIOUS
  <2>1. CountingInv' /\ HandInv'
    BY CountingGoesOn, NextHands DEF MailInv, CountingInv
  <2>2. HeldKnown'
    <3>1. ASSUME Posts \subseteq Posts', UNCHANGED pod PROVE HeldKnown'
      BY <3>1 DEF MailInv, HeldKnown, Received
    <3>2. CASE UNCHANGED pipelineVars
      BY <3>1, <3>2 DEF pipelineVars, workerVars, Posts
    <3>3. ASSUME NEW x \in Executions, ExecutionProceeds(x) \/ ExecutionFails(x) PROVE HeldKnown'
      BY <3>1, <3>3 DEF ExecutionProceeds, ExecutionFails, Deliver, Posted, Posts
    <3>4. ASSUME NEW p \in Pods, PodWorks(p) \/ PodFails(p) PROVE HeldKnown'
      BY <3>4, HeldSteps DEF MailInv, CountingInv, TypeInv
    <3>5. CASE Redrive
      BY <3>1, <3>5 DEF Redrive, Posts
    <3>. QED  BY <3>2, <3>3, <3>4, <3>5 DEF PipelineNext, WorkersNext
  <2>. QED  BY <2>1, <2>2 DEF MailInv
<1>3. PipelineInit => Mail!Init
  BY DEF PipelineInit, Mail!Init, Ever
<1>4. MailInv /\ MailInv' /\ WorkMeant /\ WorkMeant' /\ [PipelineNext]_pipelineVars
        => [Mail!Next]_(Mail!deliveryVars)
  BY MailSteps DEF MailInv, CountingInv, TypeInv
<1>. QED  BY <1>1, <1>2, <1>3, <1>4, WorkIsMeant, PTL DEF PipelineSpec, MailIsDelivered, Mail!Spec
=============================================================================
