---------------------- MODULE DocumentLifecycleProofs ----------------------
(***************************************************************************)
(* Theorems about DocumentLifecycle, for every value of its constants: any *)
(* number of documents, calls, invocations, executions and failures.       *)
(*                                                                         *)
(* The argument is one fact about the table.  A step of the system either  *)
(* leaves log alone or appends to log[d] a row that is derived from a row  *)
(* of the same document (GoodRow); the rest follows from what a derived    *)
(* row keeps (LogInv).  That a row is derived needs to know what each      *)
(* program still holds between its read and its write (CallInv, WorkInv,   *)
(* HandlerInv).                                                            *)
(*                                                                         *)
(* The second half is about answers, acknowledgements and announcements.   *)
(* It needs what a hit in the index proves: what a key on a row says of    *)
(* the row's document (KeyInv).                                            *)
(***************************************************************************)
EXTENDS DocumentLifecycle, FiniteSetTheorems, TLAPS

Requests == CreateRequests \cup UpdateRequests

\* row may be appended to log[d].
GoodRow(d, row) ==
  /\ row \in Version
  /\ \/ log[d] = <<>> /\ row.base = 0
     \/ /\ row.base \in 1..Len(log[d])
        /\ row.batch = log[d][row.base].batch
        /\ log[d][row.base].malware => row.malware
        /\ row.by = "resolver" => Legal(log[d][row.base], row)

\* Every row but the first is derived from an older row of its document.
LogInv ==
  \A d \in Docs : \A i \in 1..Len(log[d]) :
    /\ log[d][i].batch = log[d][1].batch
    /\ i > 1 =>
         /\ log[d][i].base \in 1..(i-1)
         /\ log[d][log[d][i].base].malware => log[d][i].malware
         /\ log[d][i].by = "resolver" => Legal(log[d][log[d][i].base], log[d][i])

CallInv ==
  \A c \in Calls :
    /\ call[c].pc # "idle" => call[c].req \in Requests
    /\ At(c, "update", "put") =>
         /\ call[c].doc = call[c].req.doc
         /\ call[c].base \in 1..Len(log[call[c].doc])
         /\ legalTransition(log[call[c].doc][call[c].base].status, call[c].req.to)
    /\ call[c].pc = "finish" => call[c].doc \in Docs

WorkInv ==
  \A w \in Workers :
    /\ work[w].pc # "idle" => work[w].note \in Note
    /\ work[w].pc = "put" => work[w].base \in 1..Len(log[work[w].note.doc])

HandlerInv ==
  \A h \in Handlers :
    /\ handler[h].pc # "idle" => handler[h].doc \in Docs
    /\ handler[h].pc = "put" => handler[h].base \in 1..Len(log[handler[h].doc])

\* The rows that were there stay in their place.
Grows ==
  \A e \in Docs : /\ Len(log[e]) <= Len(log'[e])
                  /\ \A i \in 1..Len(log[e]) : log'[e][i] = log[e][i]

\* What the resolver and its table keep whoever else writes the table.
ResolverInv == TableTypeOK /\ ResolverTypeOK /\ LogInv /\ CallInv

IndInv == TypeOK /\ LogInv /\ CallInv /\ WorkInv /\ HandlerInv
-----------------------------------------------------------------------------
\* The guard accepts only statuses the code knows.
LEMMA LegalKnown ==
  ASSUME NEW from, NEW to, legalTransition(from, to)
  PROVE  to \in Status
BY DEF legalTransition, order, Status

LEMMA InitInd == Init => IndInv
<1> SUFFICES ASSUME Init PROVE IndInv
  OBVIOUS
<1> USE DEF Init, TableInit, ResolverInit, LambdaInit, HandlerInit
<1>1. TypeOK
  BY DEF TypeOK, TableTypeOK, ResolverTypeOK, LambdaTypeOK, HandlerTypeOK, CallState,
         WorkState, HandlerState
<1>2. LogInv
  BY DEF LogInv
<1>3. CallInv /\ WorkInv /\ HandlerInv
  BY DEF CallInv, WorkInv, HandlerInv, At
<1> QED BY <1>1, <1>2, <1>3 DEF IndInv

\* Appending a good row keeps the table's type and LogInv, and leaves every
\* row that was there in its place.
LEMMA PutGood ==
  ASSUME NEW d \in Docs, NEW row, TableTypeOK, LogInv, GoodRow(d, row), Put(d, row), UNCHANGED indexed
  PROVE  TableTypeOK' /\ LogInv' /\ Grows
<1>1. log \in [Docs -> Seq(Version)] /\ log' \in [Docs -> Seq(Version)]
  BY DEF TableTypeOK, GoodRow, Put
<1>2. /\ Len(log'[d]) = Len(log[d]) + 1
      /\ log'[d][Len(log[d]) + 1] = row
      /\ \A i \in 1..Len(log[d]) : log'[d][i] = log[d][i]
  BY <1>1 DEF Put
<1>3. \A e \in Docs \ {d} : log'[e] = log[e]
  BY <1>1 DEF Put
<1>4. Len(log[d]) \in Nat /\ \A e \in Docs : Len(log[e]) \in Nat
  BY <1>1
<1>5. TableTypeOK'
  <2>1. indexed' = indexed /\ indexed \in [Docs -> Nat] /\ \A e \in Docs : indexed[e] <= Len(log[e])
    BY DEF TableTypeOK
  <2>2. \A e \in Docs : indexed'[e] <= Len(log'[e])
    BY <1>2, <1>3, <1>4, <2>1
  <2> QED BY <1>1, <2>1, <2>2 DEF TableTypeOK
<1>6. LogInv'
  <2> SUFFICES ASSUME NEW e \in Docs, NEW i \in 1..Len(log'[e])
               PROVE  /\ log'[e][i].batch = log'[e][1].batch
                      /\ i > 1 =>
                           /\ log'[e][i].base \in 1..(i-1)
                           /\ log'[e][log'[e][i].base].malware => log'[e][i].malware
                           /\ log'[e][i].by = "resolver" =>
                                Legal(log'[e][log'[e][i].base], log'[e][i])
    BY DEF LogInv, Legal
  <2>1. CASE e # d
    BY <1>3, <2>1 DEF LogInv
  <2>2. CASE e = d /\ i <= Len(log[d])
    <3>1. i \in 1..Len(log[d]) /\ 1 \in 1..Len(log[d])
      BY <1>4, <2>2
    <3>2. log'[d][i] = log[d][i] /\ log'[d][1] = log[d][1]
      BY <1>2, <3>1
    <3>3. i > 1 => log'[d][log[d][i].base] = log[d][log[d][i].base]
      BY <1>2, <1>4, <3>1 DEF LogInv
    <3> QED BY <2>2, <3>1, <3>2, <3>3 DEF LogInv
  <2>3. CASE e = d /\ i = Len(log[d]) + 1
    <3>1. CASE log[d] = <<>>
      BY <1>2, <1>4, <2>3, <3>1
    <3>2. CASE /\ row.base \in 1..Len(log[d])
               /\ row.batch = log[d][row.base].batch
               /\ log[d][row.base].malware => row.malware
               /\ row.by = "resolver" => Legal(log[d][row.base], row)
      <4>1. log'[d][i] = row /\ log'[d][row.base] = log[d][row.base] /\ log'[d][1] = log[d][1]
        BY <1>2, <1>4, <2>3, <3>2
      <4>2. log[d][row.base].batch = log[d][1].batch
        BY <3>2 DEF LogInv
      <4> QED BY <1>4, <2>3, <3>2, <4>1, <4>2
    <3> QED BY <3>1, <3>2 DEF GoodRow
  <2> QED BY <1>2, <1>4, <2>1, <2>2, <2>3
<1> QED BY <1>2, <1>3, <1>4, <1>5, <1>6 DEF Grows
-----------------------------------------------------------------------------
\* A program that does nothing keeps what it holds while the table grows.
LEMMA CallHolds ==
  ASSUME TableTypeOK, TableTypeOK', CallInv, Grows, NEW c \in Calls, At(c, "update", "put")
  PROVE  /\ call[c].doc \in Docs
         /\ call[c].base \in 1..Len(log'[call[c].doc])
         /\ log'[call[c].doc][call[c].base] = log[call[c].doc][call[c].base]
<1>1. call[c].req \in UpdateRequestType
  BY ResolverAssumption DEF CallInv, At, Requests, CreateRequestType
<1>2. call[c].doc \in Docs /\ call[c].base \in 1..Len(log[call[c].doc])
  BY <1>1 DEF CallInv, UpdateRequestType
<1>3. Len(log[call[c].doc]) \in Nat /\ Len(log'[call[c].doc]) \in Nat /\ call[c].base \in Nat
  BY <1>2 DEF TableTypeOK
<1> QED BY <1>2, <1>3 DEF Grows

LEMMA CallKeeps ==
  ASSUME TableTypeOK, TableTypeOK', CallInv, Grows, UNCHANGED call
  PROVE  CallInv'
BY CallHolds DEF CallInv, At

LEMMA WorkHolds ==
  ASSUME TypeOK, TableTypeOK', WorkInv, Grows, NEW w \in Workers, work[w].pc = "put"
  PROVE  work[w].base \in 1..Len(log'[work[w].note.doc])
<1>1. work[w].note.doc \in Docs /\ work[w].base \in 1..Len(log[work[w].note.doc])
  BY DEF WorkInv, Note
<1> QED BY <1>1 DEF Grows, TypeOK, TableTypeOK

LEMMA WorkKeeps ==
  ASSUME TypeOK, TableTypeOK', WorkInv, Grows, UNCHANGED work
  PROVE  WorkInv'
BY WorkHolds DEF WorkInv

LEMMA HandlerHolds ==
  ASSUME TypeOK, TableTypeOK', HandlerInv, Grows, NEW h \in Handlers, handler[h].pc = "put"
  PROVE  handler[h].base \in 1..Len(log'[handler[h].doc])
<1>1. handler[h].doc \in Docs /\ handler[h].base \in 1..Len(log[handler[h].doc])
  BY DEF HandlerInv
<1> QED BY <1>1 DEF Grows, TypeOK, TableTypeOK

LEMMA HandlerKeeps ==
  ASSUME TypeOK, TableTypeOK', HandlerInv, Grows, UNCHANGED handler
  PROVE  HandlerInv'
BY HandlerHolds DEF HandlerInv

\* Nothing is put: the table keeps its invariants.
LEMMA TableKeeps ==
  ASSUME TableTypeOK, LogInv, UNCHANGED log, UNCHANGED indexed
  PROVE  TableTypeOK' /\ LogInv' /\ Grows
<1>1. TableTypeOK' /\ LogInv'
  BY DEF TableTypeOK, LogInv, Legal
<1>2. Grows
  <2>1. \A e \in Docs : Len(log[e]) \in Nat
    BY DEF TableTypeOK
  <2> QED BY <2>1 DEF Grows
<1> QED BY <1>1, <1>2
-----------------------------------------------------------------------------
\* The row a resolver call, a lambda invocation or a handler invocation is
\* about to put is good.
LEMMA ResolverPutGood ==
  ASSUME ResolverInv, NEW c \in Calls, CreatePut(c) \/ UpdatePut(c)
  PROVE  TableTypeOK' /\ LogInv' /\ Grows
<1>1. CASE CreatePut(c)
  <2>1. PICK d \in Docs :
          /\ ~Exists(d)
          /\ Put(d, [ batch |-> call[c].req.batch, status |-> "UPLOADED", stage |-> "",
                      key |-> call[c].req.key, malware |-> FALSE,
                      by |-> "resolver", base |-> 0 ])
    BY <1>1 DEF CreatePut
  <2> DEFINE row == [ batch |-> call[c].req.batch, status |-> "UPLOADED", stage |-> "",
                      key |-> call[c].req.key, malware |-> FALSE,
                      by |-> "resolver", base |-> 0 ]
  <2>2. call[c].req \in CreateRequestType
    BY <1>1, ResolverAssumption
       DEF CreatePut, At, ResolverInv, CallInv, Requests, UpdateRequestType
  <2>3. row \in Version
    BY <2>2, StagesAssumption DEF Version, Status, Writers, Keys, CreateRequestType
  <2>4. GoodRow(d, row)
    BY <2>1, <2>3 DEF GoodRow, Exists
  <2>5. UNCHANGED indexed
    BY <1>1 DEF CreatePut
  <2> QED BY <2>1, <2>4, <2>5, PutGood DEF ResolverInv
<1>2. CASE UpdatePut(c)
  <2> DEFINE d   == call[c].doc
             b   == call[c].base
             row == [log[d][b] EXCEPT !.status = call[c].req.to, !.stage = call[c].req.stage,
                                      !.key = call[c].req.key, !.by = "resolver", !.base = b]
  <2>1. Put(d, row) /\ UNCHANGED indexed
    BY <1>2 DEF UpdatePut
  <2>2. call[c].req \in UpdateRequestType
    BY <1>2, ResolverAssumption
       DEF UpdatePut, At, ResolverInv, CallInv, Requests, CreateRequestType
  <2>3. d \in Docs /\ b \in 1..Len(log[d]) /\ legalTransition(log[d][b].status, call[c].req.to)
    BY <1>2, <2>2 DEF UpdatePut, ResolverInv, CallInv, UpdateRequestType
  <2>4. log[d][b] \in Version
    BY <2>3 DEF ResolverInv, TableTypeOK
  <2>5. call[c].req.to \in Status /\ b \in Nat
    BY <2>3, LegalKnown
  <2>6. row \in Version
    BY <2>2, <2>4, <2>5 DEF Version, Writers, Keys, UpdateRequestType
  <2>7. /\ row.batch = log[d][b].batch /\ row.malware = log[d][b].malware
        /\ row.base = b /\ row.status = call[c].req.to
    BY <2>4 DEF Version
  <2>8. GoodRow(d, row)
    BY <2>3, <2>6, <2>7 DEF GoodRow, Legal
  <2> QED BY <2>1, <2>3, <2>8, PutGood DEF ResolverInv
<1> QED BY <1>1, <1>2

LEMMA LambdaPutGood ==
  ASSUME IndInv, NEW w \in Workers, LambdaPut(w)
  PROVE  TableTypeOK' /\ LogInv' /\ Grows
<1> DEFINE n   == work[w].note
           d   == n.doc
           b   == work[w].base
           row == [log[d][b] EXCEPT !.status = n.toState, !.stage = n.phase,
                                    !.key = NoteKey(n), !.by = "lambda", !.base = b]
<1>1. Put(d, row) /\ UNCHANGED indexed
  BY DEF LambdaPut
<1>2. n \in Note /\ b \in 1..Len(log[d])
  BY DEF LambdaPut, IndInv, WorkInv
<1>3. d \in Docs /\ n.toState \in Status /\ n.phase \in Stages
  BY <1>2 DEF Note
<1>4. log[d][b] \in Version /\ b \in Nat
  BY <1>2, <1>3 DEF IndInv, TypeOK, TableTypeOK
<1>5. NoteKey(n) \in Keys
  <2>1. NoteKey(n) = <<"", n.toState, n.phase>>
    BY DEF NoteKey, DeriveUpdateStatusKey
  <2>2. <<"", n.toState, n.phase>> \in StateKeys
    BY <1>3 DEF StateKeys, DeriveUpdateStatusKey
  <2> QED BY <2>1, <2>2 DEF Keys
<1>6. row \in Version
  BY <1>3, <1>4, <1>5 DEF Version, Writers
<1>7. row.batch = log[d][b].batch /\ row.malware = log[d][b].malware /\ row.base = b /\ row.by = "lambda"
  BY <1>4 DEF Version
<1>8. GoodRow(d, row)
  BY <1>2, <1>6, <1>7 DEF GoodRow
<1> QED BY <1>1, <1>3, <1>8, PutGood DEF IndInv, TypeOK

LEMMA ThreatPutGood ==
  ASSUME IndInv, NEW h \in Handlers, ThreatPut(h)
  PROVE  TableTypeOK' /\ LogInv' /\ Grows
<1> DEFINE d   == handler[h].doc
           b   == handler[h].base
           row == [log[d][b] EXCEPT !.status = "FAILED", !.malware = TRUE,
                                    !.by = "handler", !.base = b]
<1>1. Put(d, row) /\ UNCHANGED indexed
  BY DEF ThreatPut
<1>2. d \in Docs /\ b \in 1..Len(log[d])
  BY DEF ThreatPut, IndInv, HandlerInv
<1>3. log[d][b] \in Version /\ b \in Nat
  BY <1>2 DEF IndInv, TypeOK, TableTypeOK
<1>4. row \in Version
  BY <1>3 DEF Version, Writers, Status
<1>5. row.batch = log[d][b].batch /\ row.malware = TRUE /\ row.base = b /\ row.by = "handler"
  BY <1>3 DEF Version
<1>6. GoodRow(d, row)
  BY <1>2, <1>4, <1>5 DEF GoodRow
<1> QED BY <1>1, <1>2, <1>6, PutGood DEF IndInv, TypeOK
-----------------------------------------------------------------------------
\* Each component preserves the invariant.
LEMMA ResolverKeeps ==
  ASSUME ResolverInv, NEW c \in Calls, ResolverStep(c)
  PROVE  ResolverInv' /\ Grows
<1>1. TableTypeOK' /\ LogInv' /\ Grows
  <2>1. CASE CreatePut(c) \/ UpdatePut(c)
    BY <2>1, ResolverPutGood
  <2>2. CASE ~(CreatePut(c) \/ UpdatePut(c))
    <3>1. UNCHANGED log /\ UNCHANGED indexed
      BY <2>2 DEF ResolverStep, Begin, CreateFindHit, CreateFindMiss, CreateReturn, UpdateFindHit,
                  UpdateFindMiss, UpdateGet, UpdateReject, UpdateReturn, Abandon, tableVars
    <3> QED BY <3>1, TableKeeps DEF ResolverInv
  <2> QED BY <2>1, <2>2
<1>3. call \in [Calls -> CallState] /\ replies \subseteq Reply /\ announced \in [Docs -> Seq(Nat)]
  BY DEF ResolverInv, ResolverTypeOK
<1>4. \A k \in Calls \ {c} : call'[k] = call[k]
  BY <1>3 DEF ResolverStep, Begin, CreateFindHit, CreateFindMiss, CreatePut, CreateReturn,
              UpdateFindHit, UpdateFindMiss, UpdateGet, UpdateReject, UpdatePut, UpdateReturn,
              Abandon, Answer, Goto
<1>5. ResolverTypeOK'
  <2> USE <1>3 DEF ResolverTypeOK, CallState
  <2>1. CASE Begin(c)
    BY <2>1 DEF Begin
  <2>2. CASE CreateFindHit(c) \/ UpdateFindHit(c)
    <3>1. call[c].req \in Requests
      BY <2>2 DEF CreateFindHit, UpdateFindHit, At, ResolverInv, CallInv
    <3>2. PICK d \in Docs : Answer(c, d, FALSE)
      <4>1. CASE CreateFindHit(c)
        BY <4>1 DEF CreateFindHit, FindByIdempotencyKey
      <4>2. CASE UpdateFindHit(c)
        BY <4>2 DEF UpdateFindHit, FindByIdempotencyKey
      <4> QED BY <2>2, <4>1, <4>2
    <3>3. [req |-> call[c].req, doc |-> d, url |-> FALSE] \in Reply
      BY <3>1, <3>2 DEF Requests, Reply
    <3>4. announced' = announced
      BY <2>2 DEF CreateFindHit, UpdateFindHit
    <3> QED BY <3>2, <3>3, <3>4 DEF Answer, Goto
  <2>3. CASE CreateFindMiss(c) \/ UpdateFindMiss(c) \/ UpdateReject(c) \/ Abandon(c)
    BY <2>3 DEF CreateFindMiss, UpdateFindMiss, UpdateReject, Abandon, Goto
  <2>4. CASE CreatePut(c)
    <3>1. PICK d \in Docs : call' = [call EXCEPT ![c].pc = "finish", ![c].doc = d]
      BY <2>4 DEF CreatePut
    <3>2. replies' = replies /\ announced' = announced
      BY <2>4 DEF CreatePut
    <3> QED BY <3>1, <3>2
  <2>5. CASE CreateReturn(c) \/ UpdateReturn(c)
    <3>1. call[c].req \in Requests /\ call[c].doc \in Docs
      BY <2>5 DEF CreateReturn, UpdateReturn, At, ResolverInv, CallInv
    <3>2. \A u \in BOOLEAN : [req |-> call[c].req, doc |-> call[c].doc, url |-> u] \in Reply
      BY <3>1 DEF Requests, Reply
    <3>3. announced' \in [Docs -> Seq(Nat)]
      <4>1. CASE CreateReturn(c)
        BY <4>1 DEF CreateReturn
      <4>2. CASE UpdateReturn(c)
        <5>1. call[c].base \in Nat /\ announced[call[c].doc] \in Seq(Nat)
          BY <3>1
        <5>2. Append(announced[call[c].doc], call[c].base) \in Seq(Nat)
          BY <5>1
        <5> QED BY <4>2, <5>2 DEF UpdateReturn
      <4> QED BY <2>5, <4>1, <4>2
    <3> QED BY <2>5, <3>2, <3>3 DEF CreateReturn, UpdateReturn, Answer, Goto
  <2>6. CASE UpdateGet(c)
    <3>1. call[c].req \in UpdateRequestType
      BY <2>6, ResolverAssumption DEF UpdateGet, At, ResolverInv, CallInv, Requests, CreateRequestType
    <3>2. call[c].req.doc \in Docs /\ Len(log[call[c].req.doc]) \in Nat
      BY <3>1 DEF UpdateRequestType, ResolverInv, TableTypeOK
    <3> QED BY <2>6, <3>2 DEF UpdateGet, Current
  <2>7. CASE UpdatePut(c)
    <3>1. call[c].req \in UpdateRequestType
      BY <2>7, ResolverAssumption DEF UpdatePut, At, ResolverInv, CallInv, Requests, CreateRequestType
    <3>2. call[c].doc \in Docs
      BY <2>7, <3>1 DEF UpdatePut, ResolverInv, CallInv, UpdateRequestType
    <3>3. Len(log[call[c].doc]) \in Nat
      BY <3>2 DEF ResolverInv, TableTypeOK
    <3>4. call' = [call EXCEPT ![c].pc = "finish", ![c].base = Current(call[c].doc) + 1]
      BY <2>7 DEF UpdatePut
    <3>6. Current(call[c].doc) + 1 \in Nat
      BY <3>3 DEF Current
    <3>5. replies' = replies /\ announced' = announced
      BY <2>7 DEF UpdatePut
    <3> QED BY <3>4, <3>5, <3>6
  <2> QED BY <2>1, <2>2, <2>3, <2>4, <2>5, <2>6, <2>7 DEF ResolverStep
<1>6. CallInv'
  <2>1. SUFFICES ASSUME NEW k \in Calls
                 PROVE  /\ call'[k].pc # "idle" => call'[k].req \in Requests
                        /\ At(k, "update", "put")' =>
                             /\ call'[k].doc = call'[k].req.doc
                             /\ call'[k].base \in 1..Len(log'[call'[k].doc])
                             /\ legalTransition(log'[call'[k].doc][call'[k].base].status, call'[k].req.to)
                        /\ call'[k].pc = "finish" => call'[k].doc \in Docs
    BY DEF CallInv
  <2>2. CASE k # c
    <3>1. call'[k] = call[k]
      BY <1>4, <2>2
    <3>2. At(k, "update", "put")' <=> At(k, "update", "put")
      BY <3>1 DEF At
    <3> QED BY <1>1, <3>1, <3>2, CallHolds DEF ResolverInv, CallInv
  <2>3. CASE k = c
    <3>1. call[c].pc # "idle" => call[c].req \in Requests
      BY DEF ResolverInv, CallInv
    <3> USE <1>3, <3>1 DEF CallState
    <3>2. CASE Begin(c)
      <4>1. PICK r \in Requests : call' = [call EXCEPT ![c].pc = "find", ![c].req = r]
        BY <3>2 DEF Begin, Requests
      <4>2. call'[c].pc = "find" /\ call'[c].req = r
        BY <4>1
      <4> QED BY <2>3, <4>2 DEF At
    <3>3. CASE CreateFindHit(c) \/ UpdateFindHit(c) \/ CreateReturn(c) \/ UpdateReturn(c)
      <4>1. Goto(c, "done") /\ call[c].pc # "idle"
        BY <3>3 DEF CreateFindHit, UpdateFindHit, CreateReturn, UpdateReturn, Answer, At
      <4>2. call'[c].pc = "done" /\ call'[c].req = call[c].req
        BY <4>1 DEF Goto
      <4> QED BY <2>3, <4>1, <4>2 DEF At
    <3>4. CASE CreateFindMiss(c) \/ UpdateFindMiss(c) \/ UpdateReject(c) \/ Abandon(c)
      BY <2>3, <3>4 DEF CreateFindMiss, UpdateFindMiss, UpdateReject, Abandon, Goto, At, Active
    <3>5. CASE CreatePut(c)
      <4>1. PICK d \in Docs : call' = [call EXCEPT ![c].pc = "finish", ![c].doc = d]
        BY <3>5 DEF CreatePut
      <4> QED BY <2>3, <3>5, <4>1 DEF CreatePut, At
    <3>6. CASE UpdateGet(c)
      <4> DEFINE d == call[c].req.doc
      <4>1. call[c].req \in UpdateRequestType
        BY <3>6, ResolverAssumption DEF UpdateGet, At, Requests, CreateRequestType
      <4>2. d \in Docs /\ log[d] \in Seq(Version)
        BY <4>1 DEF UpdateRequestType, ResolverInv, TableTypeOK
      <4>3. Len(log[d]) \in 1..Len(log[d]) /\ log' = log
        BY <3>6, <4>2 DEF UpdateGet, Exists, tableVars
      <4>4. call'[c] = [call[c] EXCEPT !.pc = "put", !.doc = d, !.base = Len(log[d])]
        BY <3>6 DEF UpdateGet, Current
      <4>5. /\ call'[c].pc = "put" /\ call'[c].doc = d /\ call'[c].base = Len(log[d])
            /\ call'[c].req = call[c].req
        BY <4>4
      <4>6. legalTransition(log[d][Len(log[d])].status, call[c].req.to)
        BY <3>6 DEF UpdateGet, Current
      <4> QED BY <2>3, <3>6, <4>3, <4>5, <4>6 DEF UpdateGet, At
    <3>7. CASE UpdatePut(c)
      <4>1. call[c].doc \in Docs
        BY <1>1, <3>7, CallHolds DEF UpdatePut, ResolverInv
      <4>2. PICK n : call' = [call EXCEPT ![c].pc = "finish", ![c].base = n]
        BY <3>7 DEF UpdatePut
      <4> QED BY <2>3, <3>7, <4>1, <4>2 DEF UpdatePut, At
    <3> QED BY <3>2, <3>3, <3>4, <3>5, <3>6, <3>7 DEF ResolverStep
  <2> QED BY <2>2, <2>3
<1> QED BY <1>1, <1>5, <1>6 DEF ResolverInv

LEMMA ResolverInd ==
  ASSUME IndInv, NEW c \in Calls, ResolverStep(c), UNCHANGED <<lambdaVars, handlerVars>>
  PROVE  IndInv'
<1>1. ResolverInv' /\ Grows
  BY ResolverKeeps DEF IndInv, TypeOK, ResolverInv
<1>2. UNCHANGED <<queue, acked, dead, work>> /\ UNCHANGED <<findings, runs, handler>>
  BY DEF lambdaVars, handlerVars
<1>3. LambdaTypeOK' /\ HandlerTypeOK'
  BY <1>2 DEF IndInv, TypeOK, LambdaTypeOK, HandlerTypeOK
<1>4. WorkInv' /\ HandlerInv'
  BY <1>1, <1>2, WorkKeeps, HandlerKeeps DEF IndInv, ResolverInv
<1> QED BY <1>1, <1>3, <1>4 DEF IndInv, TypeOK, ResolverInv

LEMMA LambdaInd ==
  ASSUME IndInv, LambdaNext, UNCHANGED <<resolverVars, handlerVars>>
  PROVE  IndInv'
<1>1. TableTypeOK' /\ LogInv' /\ Grows
  <2>1. CASE \E w \in Workers : LambdaPut(w)
    BY <2>1, LambdaPutGood
  <2>2. CASE ~ \E w \in Workers : LambdaPut(w)
    <3>1. UNCHANGED log /\ UNCHANGED indexed
      BY <2>2 DEF LambdaNext, WorkerStep, Receive, LambdaFindHit, LambdaFindMiss, LambdaGet,
                  LambdaAck, LambdaFail, Redrive, tableVars
    <3> QED BY <3>1, TableKeeps DEF IndInv, TypeOK
  <2> QED BY <2>1, <2>2
<1>2. ResolverTypeOK' /\ HandlerTypeOK' /\ CallInv' /\ HandlerInv'
  <2>1. UNCHANGED <<call, replies, announced>> /\ UNCHANGED <<findings, runs, handler>>
    BY DEF resolverVars, handlerVars
  <2>2. ResolverTypeOK' /\ HandlerTypeOK'
    BY <2>1 DEF IndInv, TypeOK, ResolverTypeOK, HandlerTypeOK
  <2> QED BY <1>1, <2>1, <2>2, CallKeeps, HandlerKeeps DEF IndInv, TypeOK
<1>3. /\ queue \subseteq [note: Note, n: Nat] /\ acked \subseteq Note /\ dead \subseteq Note
      /\ work \in [Workers -> WorkState]
  BY DEF IndInv, TypeOK, LambdaTypeOK
<1>4. CASE Redrive
  <2>1. LambdaTypeOK' /\ work' = work
    BY <1>3, <1>4 DEF Redrive, LambdaTypeOK
  <2> QED BY <1>1, <1>2, <2>1, WorkKeeps DEF IndInv, TypeOK
<1>5. ASSUME NEW w \in Workers, WorkerStep(w)
      PROVE  LambdaTypeOK' /\ WorkInv'
  <2> USE <1>3 DEF WorkState
  <2>1. work[w].pc # "idle" => work[w].note \in Note
    BY DEF IndInv, WorkInv
  <2>2. /\ work' \in [Workers -> WorkState]
        /\ \A v \in Workers \ {w} : work'[v] = work[v]
        /\ work'[w].pc # "idle" => work'[w].note \in Note
        /\ work'[w].pc = "put" => work'[w].base \in 1..Len(log'[work'[w].note.doc])
    <3>1. CASE Receive(w)
      <4>1. PICK m \in queue : work' = [work EXCEPT ![w].pc = "find", ![w].note = m.note]
        BY <3>1 DEF Receive
      <4> QED BY <4>1
    <3>2. CASE LambdaFindHit(w) \/ LambdaFindMiss(w) \/ LambdaPut(w)
      <4>1. PICK p \in {"get", "ack"} : work' = [work EXCEPT ![w].pc = p] /\ work[w].pc # "idle"
        BY <3>2 DEF LambdaFindHit, LambdaFindMiss, LambdaPut
      <4> QED BY <2>1, <4>1
    <3>3. CASE LambdaAck(w) \/ LambdaFail(w)
      <4>1. work' = [work EXCEPT ![w].pc = "idle"]
        BY <3>3 DEF LambdaAck, LambdaFail
      <4> QED BY <4>1
    <3>4. CASE LambdaGet(w)
      <4> DEFINE d == work[w].note.doc
      <4>1. work[w].note \in Note /\ d \in Docs /\ log' = log
        BY <2>1, <3>4 DEF LambdaGet, Note, tableVars
      <4>2. CASE Exists(d)
        <5>1. Len(log[d]) \in 1..Len(log[d])
          BY <4>1, <4>2 DEF Exists, IndInv, TypeOK, TableTypeOK
        <5>2. PICK n \in Nat : n = Len(log[d])
          BY <5>1
        <5>3. work' = [work EXCEPT ![w] = [@ EXCEPT !.pc = "put", !.base = n]]
          BY <3>4, <4>2, <5>2 DEF LambdaGet, Current
        <5>4. work'[w].note = work[w].note /\ work'[w].base = n
          BY <5>3
        <5> QED BY <4>1, <5>1, <5>2, <5>3, <5>4
      <4>3. CASE ~Exists(d)
        <5>1. work' = [work EXCEPT ![w] = [@ EXCEPT !.pc = "idle"]]
          BY <3>4, <4>3 DEF LambdaGet
        <5> QED BY <5>1
      <4> QED BY <4>2, <4>3
    <3> QED BY <1>5, <3>1, <3>2, <3>3, <3>4 DEF WorkerStep
  <2>3. WorkInv'
    <3> SUFFICES ASSUME NEW v \in Workers
                 PROVE  /\ work'[v].pc # "idle" => work'[v].note \in Note
                        /\ work'[v].pc = "put" => work'[v].base \in 1..Len(log'[work'[v].note.doc])
      BY DEF WorkInv
    <3>1. CASE v = w
      BY <2>2, <3>1
    <3>2. CASE v # w
      <4>1. work'[v] = work[v]
        BY <2>2, <3>2
      <4> QED BY <1>1, <4>1, WorkHolds DEF IndInv, WorkInv
    <3> QED BY <3>1, <3>2
  <2>4. queue' \subseteq [note: Note, n: Nat] /\ acked' \subseteq Note /\ dead' \subseteq Note
    <3>1. CASE Receive(w)
      BY <3>1 DEF Receive
    <3>2. CASE ~Receive(w)
      BY <1>5, <2>1, <3>2 DEF WorkerStep, LambdaFindHit, LambdaFindMiss, LambdaGet, LambdaPut, LambdaAck, LambdaFail
    <3> QED BY <3>1, <3>2
  <2> QED BY <2>2, <2>3, <2>4 DEF LambdaTypeOK
<1> QED BY <1>1, <1>2, <1>4, <1>5 DEF LambdaNext, IndInv, TypeOK

LEMMA HandlerInd ==
  ASSUME IndInv, HandlerNext, UNCHANGED <<resolverVars, lambdaVars>>
  PROVE  IndInv'
<1>1. TableTypeOK' /\ LogInv' /\ Grows
  <2>1. CASE \E h \in Handlers : ThreatPut(h)
    BY <2>1, ThreatPutGood
  <2>2. CASE ~ \E h \in Handlers : ThreatPut(h)
    <3>1. UNCHANGED log /\ UNCHANGED indexed
      BY <2>2 DEF HandlerNext, HandlerStep, StartExecution, Ignore, BeginThreat, ThreatGet,
                  HandlerFail, tableVars
    <3> QED BY <3>1, TableKeeps DEF IndInv, TypeOK
  <2> QED BY <2>1, <2>2
<1>2. ResolverTypeOK' /\ LambdaTypeOK' /\ CallInv' /\ WorkInv'
  <2>1. UNCHANGED <<call, replies, announced>> /\ UNCHANGED <<queue, acked, dead, work>>
    BY DEF resolverVars, lambdaVars
  <2>2. ResolverTypeOK' /\ LambdaTypeOK'
    BY <2>1 DEF IndInv, TypeOK, ResolverTypeOK, LambdaTypeOK
  <2> QED BY <1>1, <2>1, <2>2, CallKeeps, WorkKeeps DEF IndInv, TypeOK
<1>3. /\ findings \subseteq Finding /\ runs \in [Executions -> Run \cup {NoRun}]
      /\ handler \in [Handlers -> HandlerState]
  BY DEF IndInv, TypeOK, HandlerTypeOK
<1>4. \A f : Deliver(f) => f \in Finding /\ findings' \subseteq Finding
  BY <1>3 DEF Deliver, Finding
<1>5. CASE StartExecution
  <2>1. PICK f \in Finding, x \in Executions :
          /\ Deliver(f)
          /\ runs' = [runs EXCEPT ![x] = [doc |-> f.doc, nth |-> f.nth, sent |-> 0]]
    BY <1>3, <1>5 DEF StartExecution
  <2>2. [doc |-> f.doc, nth |-> f.nth, sent |-> 0] \in Run
    BY DEF Finding, Run
  <2>3. runs' \in [Executions -> Run \cup {NoRun}]
    BY <1>3, <2>1, <2>2
  <2>4. handler' = handler
    BY <1>5 DEF StartExecution
  <2>5. HandlerTypeOK'
    BY <1>3, <1>4, <2>1, <2>3, <2>4 DEF HandlerTypeOK
  <2> QED BY <1>1, <1>2, <2>4, <2>5, HandlerKeeps DEF IndInv, TypeOK
<1>6. CASE Ignore
  <2>1. HandlerTypeOK' /\ handler' = handler
    BY <1>3, <1>4, <1>6 DEF Ignore, HandlerTypeOK
  <2> QED BY <1>1, <1>2, <2>1, HandlerKeeps DEF IndInv, TypeOK
<1>7. ASSUME NEW h \in Handlers, HandlerStep(h)
      PROVE  HandlerTypeOK' /\ HandlerInv'
  <2> USE <1>3 DEF HandlerState
  <2>1. handler[h].pc # "idle" => handler[h].doc \in Docs
    BY DEF IndInv, HandlerInv
  <2>2. findings' \subseteq Finding /\ runs' = runs
    BY <1>4, <1>7 DEF HandlerStep, BeginThreat, ThreatGet, ThreatPut, HandlerFail
  <2>3. /\ handler' \in [Handlers -> HandlerState]
        /\ \A g \in Handlers \ {h} : handler'[g] = handler[g]
        /\ handler'[h].pc # "idle" => handler'[h].doc \in Docs
        /\ handler'[h].pc = "put" => handler'[h].base \in 1..Len(log'[handler'[h].doc])
    <3>1. CASE BeginThreat(h)
      <4>1. PICK f \in Finding : handler' = [handler EXCEPT ![h].pc = "get", ![h].doc = f.doc]
        BY <3>1 DEF BeginThreat
      <4>2. f.doc \in Docs
        BY DEF Finding
      <4> QED BY <4>1, <4>2
    <3>2. CASE ThreatGet(h)
      <4> DEFINE d == handler[h].doc
      <4>1. d \in Docs /\ log' = log /\ Exists(d)
        BY <2>1, <3>2 DEF ThreatGet, tableVars
      <4>2. PICK n \in Nat : n = Len(log[d]) /\ n \in 1..Len(log[d])
        BY <4>1 DEF Exists, IndInv, TypeOK, TableTypeOK
      <4>3. handler' = [handler EXCEPT ![h].pc = "put", ![h].base = n]
        BY <3>2, <4>2 DEF ThreatGet, Current
      <4> QED BY <4>1, <4>2, <4>3
    <3>3. CASE ThreatPut(h) \/ HandlerFail(h)
      <4>1. handler' = [handler EXCEPT ![h].pc = "idle"]
        BY <3>3 DEF ThreatPut, HandlerFail
      <4> QED BY <4>1
    <3> QED BY <1>7, <3>1, <3>2, <3>3 DEF HandlerStep
  <2>4. HandlerInv'
    <3> SUFFICES ASSUME NEW g \in Handlers
                 PROVE  /\ handler'[g].pc # "idle" => handler'[g].doc \in Docs
                        /\ handler'[g].pc = "put" => handler'[g].base \in 1..Len(log'[handler'[g].doc])
      BY DEF HandlerInv
    <3>1. CASE g = h
      BY <2>3, <3>1
    <3>2. CASE g # h
      <4>1. handler'[g] = handler[g]
        BY <2>3, <3>2
      <4> QED BY <1>1, <4>1, HandlerHolds DEF IndInv, HandlerInv
    <3> QED BY <3>1, <3>2
  <2> QED BY <2>2, <2>3, <2>4 DEF HandlerTypeOK
<1> QED BY <1>1, <1>2, <1>5, <1>6, <1>7 DEF HandlerNext, IndInv, TypeOK

\* The steps that put no row: the index, a client's upload, an execution's message.
LEMMA OtherInd ==
  ASSUME IndInv,
         \/ \E d \in Docs : Replicate(d) /\ UNCHANGED <<resolverVars, lambdaVars, handlerVars>>
         \/ \E d \in Docs : ClientUpload(d)
         \/ \E x \in Executions : Notify(x)
  PROVE  IndInv'
<1>1. ASSUME NEW d \in Docs, Replicate(d), UNCHANGED <<resolverVars, lambdaVars, handlerVars>>
      PROVE  IndInv'
  <2>1. /\ UNCHANGED <<call, replies, announced>> /\ UNCHANGED <<queue, acked, dead, work>>
        /\ UNCHANGED <<findings, runs, handler>> /\ log' = log
    BY <1>1 DEF resolverVars, lambdaVars, handlerVars, Replicate
  <2>2. indexed[d] + 1 <= Len(log[d])
    BY <1>1 DEF Replicate, Current, IndInv, TypeOK, TableTypeOK
  <2>3. TableTypeOK'
    BY <1>1, <2>1, <2>2 DEF Replicate, IndInv, TypeOK, TableTypeOK
  <2>4. LogInv' /\ Grows
    <3>1. \A e \in Docs : Len(log[e]) \in Nat
      BY DEF IndInv, TypeOK, TableTypeOK
    <3> QED BY <2>1, <3>1 DEF IndInv, LogInv, Legal, Grows
  <2>5. ResolverTypeOK' /\ LambdaTypeOK' /\ HandlerTypeOK'
    BY <2>1 DEF IndInv, TypeOK, ResolverTypeOK, LambdaTypeOK, HandlerTypeOK
  <2> QED BY <2>1, <2>3, <2>4, <2>5, CallKeeps, WorkKeeps, HandlerKeeps DEF IndInv, TypeOK
<1>2. ASSUME NEW d \in Docs, ClientUpload(d)
      PROVE  IndInv'
  <2>1. /\ UNCHANGED <<call, replies, announced>> /\ UNCHANGED <<queue, acked, dead, work>>
        /\ UNCHANGED <<runs, handler>> /\ UNCHANGED log /\ UNCHANGED indexed
    BY <1>2 DEF ClientUpload, Upload, resolverVars, lambdaVars, tableVars
  <2>2. findings' \subseteq Finding
    <3>1. PICK nth \in 1..MaxUploads, v \in Verdicts :
            findings' = findings \cup {[doc |-> d, nth |-> nth, verdict |-> v, n |-> 0]}
      BY <1>2 DEF ClientUpload, Upload
    <3>2. nth \in Nat
      BY HandlerAssumption
    <3> QED BY <3>1, <3>2 DEF Finding, IndInv, TypeOK, HandlerTypeOK
  <2>3. TableTypeOK' /\ LogInv' /\ Grows
    BY <2>1, TableKeeps DEF IndInv, TypeOK
  <2>4. ResolverTypeOK' /\ LambdaTypeOK' /\ HandlerTypeOK'
    BY <2>1, <2>2 DEF IndInv, TypeOK, ResolverTypeOK, LambdaTypeOK, HandlerTypeOK
  <2> QED BY <2>1, <2>3, <2>4, CallKeeps, WorkKeeps, HandlerKeeps DEF IndInv, TypeOK
<1>3. ASSUME NEW x \in Executions, Notify(x)
      PROVE  IndInv'
  <2>1. /\ UNCHANGED <<call, replies, announced>> /\ UNCHANGED <<acked, dead, work>>
        /\ UNCHANGED <<findings, handler>> /\ UNCHANGED log /\ UNCHANGED indexed
    BY <1>3 DEF Notify, resolverVars, tableVars
  <2>2. runs[x] \in Run /\ runs \in [Executions -> Run \cup {NoRun}]
    BY <1>3 DEF Notify, IndInv, TypeOK, HandlerTypeOK
  <2> DEFINE next == Script[runs[x].sent + 1]
             note == [ run |-> x, doc |-> runs[x].doc, toState |-> next.toState, phase |-> next.phase ]
  <2>3. next \in [toState: Status, phase: Stages]
    <3>1. runs[x].sent \in Nat /\ runs[x].sent < Len(Script)
      BY <1>3, <2>2 DEF Notify, Run
    <3>2. runs[x].sent + 1 \in 1..Len(Script)
      BY <3>1, ScriptAssumption
    <3>3. \A S : Script \in Seq(S) => \A i \in 1..Len(Script) : Script[i] \in S
      OBVIOUS
    <3> QED BY <3>2, <3>3, ScriptAssumption
  <2>4. note \in Note
    BY <2>2, <2>3, ScriptAssumption DEF Note, Run
  <2>5. queue' = queue \cup {[note |-> note, n |-> 0]}
    BY <1>3 DEF Notify
  <2>6. LambdaTypeOK'
    BY <2>1, <2>4, <2>5 DEF IndInv, TypeOK, LambdaTypeOK
  <2>7. runs' \in [Executions -> Run \cup {NoRun}]
    BY <1>3, <2>2 DEF Notify, Run
  <2>8. ResolverTypeOK' /\ HandlerTypeOK'
    BY <2>1, <2>7 DEF IndInv, TypeOK, ResolverTypeOK, HandlerTypeOK
  <2>9. TableTypeOK' /\ LogInv' /\ Grows
    BY <2>1, TableKeeps DEF IndInv, TypeOK
  <2> QED BY <2>1, <2>6, <2>8, <2>9, CallKeeps, WorkKeeps, HandlerKeeps DEF IndInv, TypeOK
<1> QED BY <1>1, <1>2, <1>3
-----------------------------------------------------------------------------
LEMMA NextInd == IndInv /\ [Next]_vars => IndInv'
<1> SUFFICES ASSUME IndInv, [Next]_vars PROVE IndInv'
  OBVIOUS
<1>1. CASE \E c \in Calls : ResolverStep(c) /\ UNCHANGED <<lambdaVars, handlerVars>>
  BY <1>1, ResolverInd
<1>2. CASE LambdaNext /\ UNCHANGED <<resolverVars, handlerVars>>
  BY <1>2, LambdaInd
<1>3. CASE HandlerNext /\ UNCHANGED <<resolverVars, lambdaVars>>
  BY <1>3, HandlerInd
<1>4. CASE \/ \E d \in Docs : Replicate(d) /\ UNCHANGED <<resolverVars, lambdaVars, handlerVars>>
           \/ \E d \in Docs : ClientUpload(d)
           \/ \E x \in Executions : Notify(x)
  BY <1>4, OtherInd
<1>5. CASE UNCHANGED vars
  <2>1. /\ UNCHANGED <<call, replies, announced>> /\ UNCHANGED <<queue, acked, dead, work>>
        /\ UNCHANGED <<findings, runs, handler>> /\ UNCHANGED log /\ UNCHANGED indexed
    BY <1>5 DEF vars, tableVars, resolverVars, lambdaVars, handlerVars
  <2>2. TableTypeOK' /\ LogInv' /\ Grows
    BY <2>1, TableKeeps DEF IndInv, TypeOK
  <2>3. ResolverTypeOK' /\ LambdaTypeOK' /\ HandlerTypeOK'
    BY <2>1 DEF IndInv, TypeOK, ResolverTypeOK, LambdaTypeOK, HandlerTypeOK
  <2> QED BY <2>1, <2>2, <2>3, CallKeeps, WorkKeeps, HandlerKeeps DEF IndInv, TypeOK
<1> QED BY <1>1, <1>2, <1>3, <1>4, <1>5 DEF Next

THEOREM Invariance == Spec => []IndInv
BY InitInd, NextInd, PTL DEF Spec

\* Every state of the system is well typed: whatever the three programs write
\* to the table is a row of it, and the index never shows a row not yet written.
THEOREM TypeCorrect == Spec => []TypeOK
<1>1. IndInv => TypeOK
  BY DEF IndInv
<1> QED BY <1>1, Invariance, PTL

\* Whole-row writes by three programs, however they interleave and fail, never
\* move a document to another batch (documents.Put, lines 94-102).
THEOREM BatchesKept == Spec => []RowsKeepTheirBatch
<1>1. IndInv => RowsKeepTheirBatch
  BY DEF IndInv, LogInv, RowsKeepTheirBatch, TypeOK, TableTypeOK
<1> QED BY <1>1, Invariance, PTL

\* A status goes backward only by a stale read of the resolver or by one of the
\* two programs that do not call legalTransition (handler.go updateStatus).
THEOREM RegressionsExplained == Spec => []RegressionNeedsStaleReadOrUnguardedWriter
<1>1. IndInv => RegressionNeedsStaleReadOrUnguardedWriter
  <2> SUFFICES ASSUME IndInv, NEW d \in Docs, NEW i \in 1..Len(log[d]) - 1,
                      log[d][i+1].by = "resolver", ~(log[d][i+1].base < i)
               PROVE  Legal(log[d][i], log[d][i+1])
    BY DEF RegressionNeedsStaleReadOrUnguardedWriter
  <2>1. Len(log[d]) \in Nat
    BY DEF IndInv, TypeOK, TableTypeOK
  <2>2. i + 1 \in 1..Len(log[d]) /\ i + 1 > 1 /\ i \in Nat
    BY <2>1
  <2>3. log[d][i+1].base \in 1..i
    BY <2>2 DEF IndInv, LogInv
  <2>4. log[d][i+1].base = i
    BY <2>2, <2>3
  <2> QED BY <2>2, <2>4 DEF IndInv, LogInv
<1> QED BY <1>1, Invariance, PTL

\* MALWARE_DETECTED is lost only to a program that had read the document before
\* the flag was set (handleGuardDuty and the two other writers).
THEOREM FlagLossExplained == Spec => []MalwareFlagLostOnlyToStaleRead
<1>1. IndInv => MalwareFlagLostOnlyToStaleRead
  <2> SUFFICES ASSUME IndInv, NEW d \in Docs, NEW i \in 1..Len(log[d]) - 1,
                      log[d][i].malware, ~(log[d][i+1].base < i)
               PROVE  log[d][i+1].malware
    BY DEF MalwareFlagLostOnlyToStaleRead
  <2>1. Len(log[d]) \in Nat
    BY DEF IndInv, TypeOK, TableTypeOK
  <2>2. i + 1 \in 1..Len(log[d]) /\ i + 1 > 1 /\ i \in Nat
    BY <2>1
  <2>3. log[d][i+1].base \in 1..i
    BY <2>2 DEF IndInv, LogInv
  <2>4. log[d][i+1].base = i
    BY <2>2, <2>3
  <2> QED BY <2>2, <2>4 DEF IndInv, LogInv
<1> QED BY <1>1, Invariance, PTL
-----------------------------------------------------------------------------
\* Who puts rows, who answers calls and who works on messages.
LEMMA WhoMoves ==
  ASSUME [Next]_vars
  PROVE  /\ \/ log' = log
            \/ \E c \in Calls : CreatePut(c) \/ UpdatePut(c)
            \/ \E w \in Workers : LambdaPut(w)
            \/ \E h \in Handlers : ThreatPut(h)
         /\ (\E c \in Calls : ResolverStep(c)) \/ UNCHANGED <<call, replies, announced>>
         /\ LambdaNext \/ UNCHANGED <<work, acked>>
<1>1. ASSUME NEW c \in Calls, ResolverStep(c), UNCHANGED <<lambdaVars, handlerVars>>
      PROVE  (log' = log \/ CreatePut(c) \/ UpdatePut(c)) /\ UNCHANGED <<work, acked>>
  BY <1>1 DEF ResolverStep, Begin, CreateFindHit, CreateFindMiss, CreateReturn, UpdateFindHit,
              UpdateFindMiss, UpdateGet, UpdateReject, UpdateReturn, Abandon, tableVars, lambdaVars
<1>2. ASSUME LambdaNext, UNCHANGED <<resolverVars, handlerVars>>
      PROVE  (log' = log \/ \E w \in Workers : LambdaPut(w)) /\ UNCHANGED <<call, replies, announced>>
  BY <1>2 DEF LambdaNext, WorkerStep, Receive, LambdaFindHit, LambdaFindMiss, LambdaGet,
              LambdaAck, LambdaFail, Redrive, tableVars, resolverVars
<1>3. ASSUME HandlerNext, UNCHANGED <<resolverVars, lambdaVars>>
      PROVE  /\ log' = log \/ \E h \in Handlers : ThreatPut(h)
             /\ UNCHANGED <<call, replies, announced>> /\ UNCHANGED <<work, acked>>
  BY <1>3 DEF HandlerNext, HandlerStep, StartExecution, Ignore, BeginThreat, ThreatGet,
              HandlerFail, tableVars, resolverVars, lambdaVars
<1>4. ASSUME NEW d \in Docs, (Replicate(d) /\ UNCHANGED <<resolverVars, lambdaVars, handlerVars>>) \/ ClientUpload(d)
      PROVE  log' = log /\ UNCHANGED <<call, replies, announced>> /\ UNCHANGED <<work, acked>>
  BY <1>4 DEF Replicate, ClientUpload, Upload, tableVars, resolverVars, lambdaVars
<1>5. ASSUME NEW x \in Executions, Notify(x)
      PROVE  log' = log /\ UNCHANGED <<call, replies, announced>> /\ UNCHANGED <<work, acked>>
  BY <1>5 DEF Notify, tableVars, resolverVars
<1>6. CASE UNCHANGED vars
  BY <1>6 DEF vars, tableVars, resolverVars, lambdaVars
<1> QED BY <1>1, <1>2, <1>3, <1>4, <1>5, <1>6 DEF Next

TableGrows == TableTypeOK /\ TableTypeOK' /\ Grows

LEMMA NextGrows == ASSUME IndInv, [Next]_vars PROVE TableGrows
<1>1. TableTypeOK'
  BY NextInd DEF IndInv, TypeOK
<1>2. CASE log' = log
  <2>1. \A e \in Docs : Len(log[e]) \in Nat
    BY DEF IndInv, TypeOK, TableTypeOK
  <2> QED BY <1>1, <1>2, <2>1 DEF Grows, TableGrows, IndInv, TypeOK
<1> QED BY <1>1, <1>2, WhoMoves, ResolverPutGood, LambdaPutGood, ThreatPutGood
        DEF TableGrows, IndInv, ResolverInv, TypeOK
-----------------------------------------------------------------------------
\* What the key of a row says.  A key made for createDocument stays on a row
\* only by being copied from the first, and a document with a row under a key
\* the lambda derived has been in the state the key names.
WasIn(d, s, p) == \E j \in 1..Len(log[d]) : log[d][j].status = s /\ log[d][j].stage = p

CreateKeysStay ==
  \A d \in Docs : \A i \in 1..Len(log[d]) :
    log[d][i].key \in CreateKeys => log[d][i].key = log[d][1].key

StateKeysTell ==
  \A d \in Docs : \A i \in 1..Len(log[d]) : \A s \in Status : \A p \in Stages :
    log[d][i].key = DeriveUpdateStatusKey("", s, p) => WasIn(d, s, p)

KeyInv == CreateKeysStay /\ StateKeysTell

GoodKey(d, row) ==
  \/ row.key \in UpdateKeys
  \/ log[d] = <<>> /\ row.key \in CreateKeys
  \/ row.key = DeriveUpdateStatusKey("", row.status, row.stage)
  \/ \E b \in 1..Len(log[d]) : row.key = log[d][b].key

\* A document stays one that has been in a state.
LEMMA WasInKept ==
  ASSUME TableGrows, NEW d \in Docs, NEW s, NEW p, WasIn(d, s, p)
  PROVE  WasIn(d, s, p)'
<1>1. PICK j \in 1..Len(log[d]) : log[d][j].status = s /\ log[d][j].stage = p
  BY DEF WasIn
<1>2. j \in 1..Len(log'[d]) /\ log'[d][j] = log[d][j]
  BY <1>1 DEF TableGrows, Grows, TableTypeOK
<1> QED BY <1>1, <1>2 DEF WasIn

LEMMA StateKeyKnown ==
  ASSUME NEW s \in Status, NEW p \in Stages
  PROVE  DeriveUpdateStatusKey("", s, p) \in StateKeys
BY DEF StateKeys, DeriveUpdateStatusKey

LEMMA KeyNamesState ==
  ASSUME NEW row, NEW s, NEW p, row.key = DeriveUpdateStatusKey("", s, p),
         row.key = DeriveUpdateStatusKey("", row.status, row.stage)
  PROVE  row.status = s /\ row.stage = p
<1> DEFINE t == row.status
           q == row.stage
<1>1. DeriveUpdateStatusKey("", s, p) = DeriveUpdateStatusKey("", t, q)
  OBVIOUS
<1> HIDE DEF t, q
<1>2. s = t /\ p = q
  BY <1>1 DEF DeriveUpdateStatusKey
<1> QED BY <1>2 DEF t, q

LEMMA PutKeepsKeys ==
  ASSUME TableGrows, KeyInv, NEW d \in Docs, NEW row \in Version, Put(d, row), GoodKey(d, row)
  PROVE  KeyInv'
<1>1. log \in [Docs -> Seq(Version)] /\ \A e \in Docs : Len(log[e]) \in Nat
  BY DEF TableGrows, TableTypeOK
<1>2. /\ Len(log'[d]) = Len(log[d]) + 1 /\ log'[d][Len(log[d]) + 1] = row
      /\ \A i \in 1..Len(log[d]) : log'[d][i] = log[d][i]
      /\ \A e \in Docs : e # d => log'[e] = log[e]
  BY <1>1 DEF Put
<1>3. ASSUME NEW e \in Docs, NEW i \in 1..Len(log'[e]), ~(e = d /\ i = Len(log[d]) + 1)
      PROVE  i \in 1..Len(log[e]) /\ log'[e][i] = log[e][i] /\ log'[e][1] = log[e][1]
  <2>1. CASE e = d
    <3>1. i \in 1..Len(log[d]) /\ 1 \in 1..Len(log[d])
      BY <1>1, <1>2, <1>3, <2>1
    <3> QED BY <1>2, <2>1, <3>1
  <2>2. CASE e # d
    BY <1>2, <1>3, <2>2
  <2> QED BY <2>1, <2>2
<1>5. row.key \in CreateKeys => row.key = log'[d][1].key
  <2> SUFFICES ASSUME row.key \in CreateKeys PROVE row.key = log'[d][1].key
    OBVIOUS
  <2>1. row.status \in Status /\ row.stage \in Stages
    BY DEF Version
  <2>2. row.key \notin UpdateKeys /\ row.key # DeriveUpdateStatusKey("", row.status, row.stage)
    BY StateKeyKnown, <2>1, KeysAssumption
  <2>3. CASE log[d] = <<>>
    BY <1>2, <2>3
  <2>4. ASSUME NEW b \in 1..Len(log[d]), row.key = log[d][b].key
        PROVE  row.key = log'[d][1].key
    <3>1. 1 \in 1..Len(log[d])
      BY <1>1
    <3> QED BY <1>2, <2>4, <3>1 DEF KeyInv, CreateKeysStay
  <2> QED BY <2>2, <2>3, <2>4 DEF GoodKey
<1>6. ASSUME NEW s \in Status, NEW p \in Stages, row.key = DeriveUpdateStatusKey("", s, p)
      PROVE  WasIn(d, s, p)'
  <2>1. row.key \notin UpdateKeys /\ row.key \notin CreateKeys
    BY StateKeyKnown, <1>6, KeysAssumption
  <2>2. CASE row.key = DeriveUpdateStatusKey("", row.status, row.stage)
    <3>1. row.status = s /\ row.stage = p
      BY <1>6, <2>2, KeyNamesState
    <3>2. Len(log[d]) + 1 \in 1..Len(log'[d])
      BY <1>1, <1>2
    <3> QED BY <1>2, <3>1, <3>2 DEF WasIn
  <2>3. ASSUME NEW b \in 1..Len(log[d]), row.key = log[d][b].key
        PROVE  WasIn(d, s, p)'
    <3>1. WasIn(d, s, p)
      BY <1>6, <2>3 DEF KeyInv, StateKeysTell
    <3> QED BY <3>1, WasInKept
  <2> QED BY <2>1, <2>2, <2>3 DEF GoodKey
<1>7. CreateKeysStay'
  <2> SUFFICES ASSUME NEW e \in Docs, NEW i \in 1..Len(log'[e]), log'[e][i].key \in CreateKeys
               PROVE  log'[e][i].key = log'[e][1].key
    BY DEF CreateKeysStay
  <2>1. CASE e = d /\ i = Len(log[d]) + 1
    BY <1>2, <1>5, <2>1
  <2>2. CASE ~(e = d /\ i = Len(log[d]) + 1)
    BY <1>3, <2>2 DEF KeyInv, CreateKeysStay
  <2> QED BY <2>1, <2>2
<1>8. StateKeysTell'
  <2> SUFFICES ASSUME NEW e \in Docs, NEW i \in 1..Len(log'[e]), NEW s \in Status, NEW p \in Stages,
                      log'[e][i].key = DeriveUpdateStatusKey("", s, p)
               PROVE  WasIn(e, s, p)'
    BY DEF StateKeysTell
  <2>1. CASE e = d /\ i = Len(log[d]) + 1
    BY <1>2, <1>6, <2>1
  <2>2. CASE ~(e = d /\ i = Len(log[d]) + 1)
    <3>1. WasIn(e, s, p)
      BY <1>3, <2>2 DEF KeyInv, StateKeysTell
    <3> QED BY <3>1, WasInKept
  <2> QED BY <2>1, <2>2
<1> QED BY <1>7, <1>8 DEF KeyInv

\* The rows the three programs put have such keys.
LEMMA CreatePutKey ==
  ASSUME IndInv, NEW c \in Calls, CreatePut(c)
  PROVE  \E d \in Docs : \E row \in Version :
           /\ log[d] = <<>> /\ Put(d, row)
           /\ row.key = call[c].req.key /\ call[c].req.key \in CreateKeys
           /\ call' = [call EXCEPT ![c].pc = "finish", ![c].doc = d]
<1>1. PICK d \in Docs :
        /\ ~Exists(d)
        /\ Put(d, [ batch |-> call[c].req.batch, status |-> "UPLOADED", stage |-> "",
                    key |-> call[c].req.key, malware |-> FALSE,
                    by |-> "resolver", base |-> 0 ])
        /\ call' = [call EXCEPT ![c].pc = "finish", ![c].doc = d]
  BY DEF CreatePut
<1> DEFINE row == [ batch |-> call[c].req.batch, status |-> "UPLOADED", stage |-> "",
                    key |-> call[c].req.key, malware |-> FALSE,
                    by |-> "resolver", base |-> 0 ]
<1>2. call[c].req \in CreateRequestType
  BY ResolverAssumption DEF CreatePut, At, IndInv, CallInv, Requests, UpdateRequestType
<1>3. call[c].req.key \in CreateKeys /\ call[c].req.batch \in Batches
  BY <1>2 DEF CreateRequestType
<1>4. row \in Version
  BY <1>3, StagesAssumption DEF Version, Status, Writers, Keys
<1>5. row.key = call[c].req.key
  OBVIOUS
<1> HIDE DEF row
<1>6. log[d] = <<>> /\ Put(d, row)
  BY <1>1 DEF Exists, row
<1> QED BY <1>1, <1>3, <1>4, <1>5, <1>6

LEMMA UpdatePutKey ==
  ASSUME IndInv, NEW c \in Calls, UpdatePut(c)
  PROVE  /\ call[c].doc \in Docs /\ call[c].doc = call[c].req.doc
         /\ \E row \in Version :
              /\ Put(call[c].doc, row)
              /\ row.key = call[c].req.key /\ row.key \in UpdateKeys
              /\ row.status = call[c].req.to
<1> DEFINE d   == call[c].doc
           b   == call[c].base
           row == [log[d][b] EXCEPT !.status = call[c].req.to, !.stage = call[c].req.stage,
                                    !.key = call[c].req.key, !.by = "resolver", !.base = b]
<1>1. Put(d, row)
  BY DEF UpdatePut
<1>2. call[c].req \in UpdateRequestType
  BY ResolverAssumption DEF UpdatePut, At, IndInv, CallInv, Requests, CreateRequestType
<1>3. d \in Docs /\ d = call[c].req.doc /\ b \in 1..Len(log[d])
      /\ legalTransition(log[d][b].status, call[c].req.to)
  BY <1>2 DEF UpdatePut, IndInv, CallInv, UpdateRequestType
<1>4. log[d][b] \in Version
  BY <1>3 DEF IndInv, TypeOK, TableTypeOK
<1>5. call[c].req.to \in Status /\ b \in Nat
  BY <1>3, LegalKnown
<1>6. call[c].req.key \in UpdateKeys /\ call[c].req.stage \in Stages
  BY <1>2 DEF UpdateRequestType
<1>7. row \in Version
  BY <1>4, <1>5, <1>6 DEF Version, Writers, Keys
<1>8. row.key = call[c].req.key /\ row.status = call[c].req.to
  BY <1>4 DEF Version
<1> HIDE DEF row
<1> QED BY <1>1, <1>3, <1>6, <1>7, <1>8

LEMMA LambdaPutKey ==
  ASSUME IndInv, NEW w \in Workers, LambdaPut(w)
  PROVE  /\ work[w].note \in Note
         /\ \E row \in Version :
              /\ Put(work[w].note.doc, row)
              /\ row.status = work[w].note.toState /\ row.stage = work[w].note.phase
              /\ row.key = DeriveUpdateStatusKey("", row.status, row.stage)
              /\ row.by = "lambda"
<1> DEFINE n   == work[w].note
           d   == n.doc
           b   == work[w].base
           row == [log[d][b] EXCEPT !.status = n.toState, !.stage = n.phase,
                                    !.key = NoteKey(n), !.by = "lambda", !.base = b]
<1>1. Put(d, row)
  BY DEF LambdaPut
<1>2. n \in Note /\ b \in 1..Len(log[d])
  BY DEF LambdaPut, IndInv, WorkInv
<1>3. d \in Docs /\ n.toState \in Status /\ n.phase \in Stages
  BY <1>2 DEF Note
<1>4. log[d][b] \in Version /\ b \in Nat
  BY <1>2, <1>3 DEF IndInv, TypeOK, TableTypeOK
<1>5. NoteKey(n) \in Keys
  BY <1>3, StateKeyKnown DEF NoteKey, Keys
<1>6. row \in Version
  BY <1>3, <1>4, <1>5 DEF Version, Writers
<1>7. row.status = n.toState /\ row.stage = n.phase /\ row.key = NoteKey(n) /\ row.by = "lambda"
  BY <1>4 DEF Version
<1> HIDE DEF row
<1>8. row.key = DeriveUpdateStatusKey("", row.status, row.stage)
  BY <1>7 DEF NoteKey
<1> QED BY <1>1, <1>2, <1>6, <1>7, <1>8

LEMMA ThreatPutKey ==
  ASSUME IndInv, NEW h \in Handlers, ThreatPut(h)
  PROVE  /\ handler[h].doc \in Docs
         /\ \E row \in Version :
              /\ Put(handler[h].doc, row)
              /\ \E b \in 1..Len(log[handler[h].doc]) : row.key = log[handler[h].doc][b].key
              /\ row.by = "handler"
<1> DEFINE d   == handler[h].doc
           b   == handler[h].base
           row == [log[d][b] EXCEPT !.status = "FAILED", !.malware = TRUE,
                                    !.by = "handler", !.base = b]
<1>1. Put(d, row)
  BY DEF ThreatPut
<1>2. d \in Docs /\ b \in 1..Len(log[d])
  BY DEF ThreatPut, IndInv, HandlerInv
<1>3. log[d][b] \in Version /\ b \in Nat
  BY <1>2 DEF IndInv, TypeOK, TableTypeOK
<1>4. row \in Version /\ row.key = log[d][b].key /\ row.by = "handler"
  BY <1>3 DEF Version, Writers, Status
<1> HIDE DEF row
<1> QED BY <1>1, <1>2, <1>4

LEMMA KeysKept == ASSUME IndInv, KeyInv, [Next]_vars PROVE KeyInv'
<1>1. TableGrows
  BY NextGrows
<1>2. CASE log' = log
  <2>1. CreateKeysStay'
    BY <1>2 DEF KeyInv, CreateKeysStay
  <2>2. ASSUME NEW d \in Docs, NEW i \in 1..Len(log'[d]), NEW s \in Status, NEW p \in Stages,
               log'[d][i].key = DeriveUpdateStatusKey("", s, p)
        PROVE  WasIn(d, s, p)'
    <3>1. WasIn(d, s, p)
      BY <1>2, <2>2 DEF KeyInv, StateKeysTell
    <3> QED BY <1>2, <3>1 DEF WasIn
  <2> QED BY <2>1, <2>2 DEF KeyInv, StateKeysTell
<1>3. ASSUME NEW c \in Calls, CreatePut(c) PROVE KeyInv'
  BY <1>1, <1>3, CreatePutKey, PutKeepsKeys DEF GoodKey
<1>4. ASSUME NEW c \in Calls, UpdatePut(c) PROVE KeyInv'
  BY <1>1, <1>4, UpdatePutKey, PutKeepsKeys DEF GoodKey
<1>5. ASSUME NEW w \in Workers, LambdaPut(w) PROVE KeyInv'
  <2>1. work[w].note.doc \in Docs
    BY <1>5, LambdaPutKey DEF Note
  <2> QED BY <1>1, <1>5, <2>1, LambdaPutKey, PutKeepsKeys DEF GoodKey
<1>6. ASSUME NEW h \in Handlers, ThreatPut(h) PROVE KeyInv'
  BY <1>1, <1>6, ThreatPutKey, PutKeepsKeys DEF GoodKey
<1> QED BY <1>2, <1>3, <1>4, <1>5, <1>6, WhoMoves
-----------------------------------------------------------------------------
\* What a message stands for once its worker has found or made its row: the
\* document has been in the state the message announces.
Applied(n) == WasIn(n.doc, n.toState, n.phase)

AckInv ==
  /\ \A n \in acked : Applied(n)
  /\ \A w \in Workers : work[w].pc = "ack" => Applied(work[w].note)

\* A row under the key of a message, in the message's document.
LEMMA HitIsApplied ==
  ASSUME IndInv, KeyInv, NEW n \in Note, n.doc \in FindByIdempotencyKey(NoteKey(n))
  PROVE  Applied(n)
<1>1. n.doc \in Docs /\ n.toState \in Status /\ n.phase \in Stages
  BY DEF Note
<1>2. indexed[n.doc] \in 1..Len(log[n.doc])
  BY <1>1 DEF FindByIdempotencyKey, IndexHas, IndInv, TypeOK, TableTypeOK
<1>3. log[n.doc][indexed[n.doc]].key = DeriveUpdateStatusKey("", n.toState, n.phase)
  BY DEF FindByIdempotencyKey, IndexHas, NoteKey
<1> QED BY <1>1, <1>2, <1>3 DEF KeyInv, StateKeysTell, Applied

LEMMA AppliedKept ==
  ASSUME TableGrows, NEW n \in Note, Applied(n)
  PROVE  Applied(n)'
BY WasInKept DEF Applied, Note

LEMMA AckKept == ASSUME IndInv, KeyInv, AckInv, [Next]_vars PROVE AckInv'
<1>1. TableGrows
  BY NextGrows
<1>2. /\ acked \subseteq Note /\ work \in [Workers -> WorkState]
      /\ \A w \in Workers : work[w].pc = "ack" => work[w].note \in Note
  BY DEF IndInv, TypeOK, LambdaTypeOK, WorkInv
<1>3. \A n \in Note : Applied(n) => Applied(n)'
  BY <1>1, AppliedKept
<1>4. \A n \in acked : Applied(n)'
  BY <1>2, <1>3 DEF AckInv
<1>5. ASSUME NEW v \in Workers, NEW n, n = work[v].note, work[v].pc = "ack" PROVE Applied(n)'
  BY <1>2, <1>3, <1>5 DEF AckInv
<1>6. ASSUME NEW w \in Workers, acked' = acked, \A v \in Workers \ {w} : work'[v] = work[v],
             \A n \in Note : n = work'[w].note /\ work'[w].pc = "ack" => Applied(n)',
             work'[w].pc = "ack" => work'[w].note \in Note
      PROVE  AckInv'
  <2>1. ASSUME NEW v \in Workers, NEW n, n = work'[v].note, work'[v].pc = "ack" PROVE Applied(n)'
    <3>1. CASE v = w
      BY <1>6, <2>1, <3>1
    <3>2. CASE v # w
      BY <1>5, <1>6, <2>1, <3>2
    <3> QED BY <3>1, <3>2
  <2>2. \A n \in acked' : Applied(n)'
    BY <1>4, <1>6
  <2> QED BY <2>1, <2>2 DEF AckInv, Applied, WasIn
<1>7. CASE UNCHANGED <<work, acked>>
  <2>1. ASSUME NEW v \in Workers, NEW n, n = work'[v].note, work'[v].pc = "ack" PROVE Applied(n)'
    BY <1>5, <1>7, <2>1
  <2>2. \A n \in acked' : Applied(n)'
    BY <1>4, <1>7
  <2> QED BY <2>1, <2>2 DEF AckInv, Applied, WasIn
<1>8. ASSUME NEW w \in Workers, WorkerStep(w)
      PROVE  AckInv'
  <2>1. CASE Receive(w) \/ LambdaFindMiss(w) \/ LambdaGet(w) \/ LambdaFail(w)
    <3>1. acked' = acked /\ work'[w].pc # "ack" /\ \A v \in Workers \ {w} : work'[v] = work[v]
      BY <1>2, <2>1 DEF Receive, LambdaFindMiss, LambdaGet, LambdaFail, WorkState
    <3> QED BY <1>6, <3>1
  <2>2. CASE LambdaFindHit(w)
    <3>1. acked' = acked /\ work'[w].note = work[w].note /\ \A v \in Workers \ {w} : work'[v] = work[v]
      BY <1>2, <2>2 DEF LambdaFindHit, WorkState
    <3>2. work[w].note \in Note
      BY <2>2 DEF LambdaFindHit, IndInv, WorkInv
    <3>3. \A n \in Note : n = work[w].note => Applied(n)'
      BY <1>3, <2>2, HitIsApplied DEF LambdaFindHit
    <3> QED BY <1>6, <3>1, <3>2, <3>3
  <2>3. CASE LambdaPut(w)
    <3>1. acked' = acked /\ work'[w].note = work[w].note /\ \A v \in Workers \ {w} : work'[v] = work[v]
      BY <1>2, <2>3 DEF LambdaPut, WorkState
    <3>2. work[w].note \in Note
      BY <2>3, LambdaPutKey
    <3>3. ASSUME NEW n \in Note, n = work[w].note PROVE Applied(n)'
      <4>1. PICK row \in Version : /\ Put(n.doc, row)
                                   /\ row.status = n.toState /\ row.stage = n.phase
        BY <2>3, <3>3, LambdaPutKey
      <4>2. n.doc \in Docs
        BY DEF Note
      <4>3. log \in [Docs -> Seq(Version)]
        BY <1>1 DEF TableGrows, TableTypeOK
      <4>4. Len(log[n.doc]) + 1 \in 1..Len(log'[n.doc]) /\ log'[n.doc][Len(log[n.doc]) + 1] = row
        BY <4>1, <4>2, <4>3 DEF Put
      <4> QED BY <4>1, <4>4 DEF Applied, WasIn
    <3> QED BY <1>6, <3>1, <3>2, <3>3
  <2>4. CASE LambdaAck(w)
    <3>1. /\ work[w].pc = "ack" /\ acked' \subseteq acked \cup {work[w].note}
          /\ work'[w].pc = "idle" /\ \A v \in Workers \ {w} : work'[v] = work[v]
      BY <1>2, <2>4 DEF LambdaAck, WorkState
    <3>2. \A n \in acked' : Applied(n)'
      BY <1>4, <1>5, <3>1
    <3>3. ASSUME NEW v \in Workers, NEW n, n = work'[v].note, work'[v].pc = "ack" PROVE Applied(n)'
      BY <1>5, <3>1, <3>3
    <3> QED BY <3>2, <3>3 DEF AckInv, Applied, WasIn
  <2> QED BY <1>8, <2>1, <2>2, <2>3, <2>4 DEF WorkerStep
<1>9. CASE LambdaNext
  BY <1>7, <1>8, <1>9 DEF LambdaNext, Redrive
<1> QED BY <1>7, <1>9, WhoMoves

\* A message is deleted only after its document was in the state it announces
\* (handleOne: the hit in the index and the row put both stand for it).
THEOREM AcksAreEarned == Spec => []AckedWasApplied
<1>1. Init => KeyInv /\ AckInv
  BY DEF Init, TableInit, LambdaInit, KeyInv, CreateKeysStay, StateKeysTell, AckInv
<1>2. IndInv /\ KeyInv /\ AckInv /\ [Next]_vars => (KeyInv /\ AckInv)'
  BY KeysKept, AckKept
<1>3. IndInv /\ AckInv => AckedWasApplied
  <2> SUFFICES ASSUME IndInv, AckInv, NEW n \in acked
               PROVE  \E i \in DOMAIN log[n.doc] :
                        log[n.doc][i].status = n.toState /\ log[n.doc][i].stage = n.phase
    BY DEF AckedWasApplied
  <2>1. n.doc \in Docs
    BY DEF IndInv, TypeOK, LambdaTypeOK, Note
  <2>2. DOMAIN log[n.doc] = 1..Len(log[n.doc])
    BY <2>1 DEF IndInv, TypeOK, TableTypeOK
  <2> QED BY <2>2 DEF AckInv, Applied, WasIn
<1> QED BY <1>1, <1>2, <1>3, Invariance, PTL DEF Spec
-----------------------------------------------------------------------------
(***************************************************************************)
(* The state-change queue implements AtLeastOnce.  What an execution sent  *)
(* is known by the number of its message in the script, so the next one is *)
(* new; a worker's message was received, and is the queue's only one of    *)
(* its note, or is off the queue already.                                  *)
(***************************************************************************)
KnownNotes == {m.note : m \in queue} \cup acked \cup dead

SentAs(n, run) ==
  run # NoRun /\ \E i \in DOMAIN Script : i <= run.sent /\ Script[i] = [toState |-> n.toState, phase |-> n.phase]

OneNote ==
  /\ \A k, m \in queue : k.note = m.note => k = m
  /\ \A m \in queue : m.note \notin acked \cup dead
TakenNote(n) == n \in acked \cup dead \/ \E m \in queue : m.note = n /\ m.n > 0

SentInv  == \A n \in KnownNotes : SentAs(n, runs[n.run])
TakenInv == \A w \in Workers : work[w].pc # "idle" => TakenNote(work[w].note)
QueueInv == SentInv /\ OneNote /\ TakenInv

NotesInQueue == {[msg |-> m.note, n |-> m.n] : m \in queue}
NotesApplied == {n \in Note : \E i \in DOMAIN log[n.doc] :
                                log[n.doc][i].status = n.toState /\ log[n.doc][i].stage = n.phase}

LEMMA NotesKnown == NotesQueue!Known = KnownNotes
<1>1. \A m \in queue : [msg |-> m.note, n |-> m.n].msg = m.note
  OBVIOUS
<1>2. {e.msg : e \in NotesInQueue} = {m.note : m \in queue}
  BY <1>1 DEF NotesInQueue
<1> QED BY <1>2 DEF NotesQueue!Known, NotesInQueue, KnownNotes

\* The rows stay, and what they stand for.
LEMMA AppliedGrows == ASSUME TableGrows PROVE NotesApplied \subseteq NotesApplied'
<1>1. \A d \in Docs : DOMAIN log[d] = 1..Len(log[d]) /\ DOMAIN log'[d] = 1..Len(log'[d])
  BY DEF TableGrows, TableTypeOK
<1>2. \A n \in Note : n.doc \in Docs
  BY DEF Note
<1>3. \A n \in Note : n \in NotesApplied <=> Applied(n)
  BY <1>1, <1>2 DEF NotesApplied, Applied, WasIn
<1>4. \A n \in Note : n \in NotesApplied' <=> Applied(n)'
  BY <1>1, <1>2 DEF NotesApplied, Applied, WasIn
<1> QED BY <1>3, <1>4, AppliedKept DEF NotesApplied

\* One message leaves the queue.
LEMMA NoteLeaves ==
  ASSUME OneNote, NEW m \in queue
  PROVE  /\ \A k \in queue : [msg |-> k.note, n |-> k.n] = [msg |-> m.note, n |-> m.n] => k = m
         /\ queue' = queue \ {m} => NotesInQueue' = NotesInQueue \ {[msg |-> m.note, n |-> m.n]}
<1>1. \A k \in queue : [msg |-> k.note, n |-> k.n] = [msg |-> m.note, n |-> m.n] => k = m
  <2>1. \A k \in queue : [msg |-> k.note, n |-> k.n].msg = k.note
    OBVIOUS
  <2> QED BY <2>1 DEF OneNote
<1> QED BY <1>1 DEF NotesInQueue

LEMMA LambdaQueue ==
  ASSUME IndInv, AckInv, QueueInv, LambdaNext, NotesApplied \subseteq NotesApplied', UNCHANGED runs
  PROVE  QueueInv' /\ NotesQueue!Next
<1>1. /\ queue \subseteq [note: Note, n: Nat] /\ work \in [Workers -> WorkState]
      /\ acked \subseteq Note /\ dead \subseteq Note
  BY DEF IndInv, TypeOK, LambdaTypeOK
<1>2. SentInv /\ OneNote /\ TakenInv
  BY DEF QueueInv
<1>3. KnownNotes' \subseteq KnownNotes => SentInv'
  BY <1>2 DEF SentInv
<1>4. ASSUME UNCHANGED <<queue, acked, dead>> PROVE NotesQueue!Next
  BY <1>4 DEF NotesQueue!Next, NotesApplied
<1>5. ASSUME UNCHANGED <<queue, acked, dead>>,
             \A w \in Workers : work'[w].pc # "idle" => work[w].pc # "idle" /\ work'[w].note = work[w].note
      PROVE  QueueInv'
  <2>1. KnownNotes' = KnownNotes /\ OneNote' /\ TakenInv'
    BY <1>2, <1>5 DEF KnownNotes, OneNote, TakenInv, TakenNote
  <2> QED BY <1>3, <2>1 DEF QueueInv
<1>6. ASSUME NEW w \in Workers, Receive(w) PROVE QueueInv' /\ NotesQueue!Next
  <2>1. PICK m \in queue : /\ m.n < MaxReceive
                           /\ queue' = (queue \ {m}) \cup {[m EXCEPT !.n = @ + 1]}
                           /\ work' = [work EXCEPT ![w].pc = "find", ![w].note = m.note]
    BY <1>6 DEF Receive
  <2> DEFINE m1 == [m EXCEPT !.n = @ + 1]
             e  == [msg |-> m.note, n |-> m.n]
             e1 == [msg |-> m.note, n |-> m.n + 1]
  <2>2. m1.note = m.note /\ m1.n = m.n + 1 /\ m.n \in Nat /\ [e EXCEPT !.n = @ + 1] = e1 /\ e.n = m.n
    BY <1>1
  <2>3. UNCHANGED <<acked, dead>>
    BY <1>6 DEF Receive
  <2>4. \A v \in Workers : /\ work'[v].note = IF v = w THEN m.note ELSE work[v].note
                           /\ v # w => work'[v].pc = work[v].pc
    BY <1>1, <2>1 DEF WorkState
  <2>5. queue' = (queue \ {m}) \cup {m1}
    BY <2>1
  <2> HIDE DEF m1
  <2>6. OneNote' /\ KnownNotes' = KnownNotes
    BY <1>2, <2>2, <2>3, <2>5 DEF OneNote, KnownNotes
  <2>7. TakenNote(m.note)' /\ \A n : TakenNote(n) => TakenNote(n)'
    BY <2>2, <2>3, <2>5 DEF TakenNote
  <2>8. TakenInv'
    BY <1>2, <2>4, <2>7 DEF TakenInv, TakenNote
  <2>9. NotesInQueue' = (NotesInQueue \ {e}) \cup {e1} /\ e \in NotesInQueue
    BY <1>2, <2>2, <2>5, NoteLeaves DEF NotesInQueue
  <2> HIDE DEF e, e1
  <2>10. NotesQueue!Receive(e)
    BY <2>1, <2>2, <2>3, <2>9 DEF NotesQueue!Receive, NotesInQueue
  <2> QED BY <1>3, <2>6, <2>8, <2>9, <2>10 DEF QueueInv, NotesQueue!Next, NotesApplied, NotesInQueue
<1>7. ASSUME NEW w \in Workers, LambdaFindHit(w) \/ LambdaFindMiss(w) \/ LambdaGet(w) \/ LambdaPut(w) \/ LambdaFail(w)
      PROVE  QueueInv' /\ NotesQueue!Next
  <2>1. UNCHANGED <<queue, acked, dead>>
    BY <1>7 DEF LambdaFindHit, LambdaFindMiss, LambdaGet, LambdaPut, LambdaFail
  <2>2. \A v \in Workers : work'[v].pc # "idle" => work[v].pc # "idle" /\ work'[v].note = work[v].note
    <3>1. CASE LambdaGet(w)
      <4>1. \/ work' = [work EXCEPT ![w] = [@ EXCEPT !.pc = "put", !.base = Current(work[w].note.doc)]]
            \/ work' = [work EXCEPT ![w] = [@ EXCEPT !.pc = "idle"]]
        BY <3>1 DEF LambdaGet
      <4>2. work[w].pc # "idle"
        BY <3>1 DEF LambdaGet
      <4>3. PICK b : b = Current(work[w].note.doc)
        OBVIOUS
      <4> DEFINE y == [work[w] EXCEPT !.pc = "put", !.base = b]
                 z == [work[w] EXCEPT !.pc = "idle"]
      <4>4. y.note = work[w].note /\ z.note = work[w].note
        BY <1>1 DEF WorkState
      <4>5. work' = [work EXCEPT ![w] = y] \/ work' = [work EXCEPT ![w] = z]
        BY <4>1, <4>3
      <4> HIDE DEF y, z
      <4> QED BY <1>1, <4>2, <4>4, <4>5
    <3>2. CASE LambdaFindHit(w) \/ LambdaFindMiss(w) \/ LambdaPut(w) \/ LambdaFail(w)
      BY <1>1, <3>2 DEF LambdaFindHit, LambdaFindMiss, LambdaPut, LambdaFail, WorkState
    <3> QED BY <1>7, <3>1, <3>2
  <2> QED BY <1>4, <1>5, <2>1, <2>2
<1>8. ASSUME NEW w \in Workers, LambdaAck(w) PROVE QueueInv' /\ NotesQueue!Next
  <2> DEFINE mine == {m \in queue : m.note = work[w].note}
  <2>1. /\ queue' = queue \ mine /\ acked' = acked \cup {m.note : m \in mine}
        /\ work[w].pc = "ack" /\ UNCHANGED dead
    BY <1>8 DEF LambdaAck
  <2>2. \A v \in Workers : work'[v].note = work[v].note /\ (work'[v].pc # "idle" => work[v].pc # "idle")
    BY <1>1, <1>8 DEF LambdaAck, WorkState
  <2>3. CASE mine = {}
    <3>1. UNCHANGED <<queue, acked, dead>>
      BY <2>1, <2>3
    <3> QED BY <1>4, <1>5, <2>2, <3>1
  <2>4. ASSUME NEW m \in mine PROVE QueueInv' /\ NotesQueue!Next
    <3> DEFINE e == [msg |-> m.note, n |-> m.n]
    <3>1. mine = {m} /\ m \in queue /\ m.note = work[w].note
      BY <1>2, <2>4 DEF OneNote
    <3>2. queue' = queue \ {m} /\ acked' = acked \cup {m.note}
      BY <2>1, <3>1
    <3>3. OneNote' /\ KnownNotes' = KnownNotes
      BY <1>2, <2>1, <3>1, <3>2 DEF OneNote, KnownNotes
    <3>4. TakenInv'
      BY <1>2, <2>1, <2>2, <3>2 DEF TakenInv, TakenNote
    <3>5. m.n > 0
      BY <1>2, <2>1, <3>1 DEF TakenInv, TakenNote, OneNote
    <3>6. m.note \in NotesApplied
      <4>1. Applied(m.note) /\ m.note \in Note
        BY <1>1, <2>1, <3>1 DEF AckInv
      <4>2. DOMAIN log[m.note.doc] = 1..Len(log[m.note.doc])
        BY <4>1 DEF Note, IndInv, TypeOK, TableTypeOK
      <4> QED BY <4>1, <4>2 DEF Applied, WasIn, NotesApplied
    <3>7. NotesInQueue' = NotesInQueue \ {e} /\ e \in NotesInQueue /\ e.msg = m.note /\ e.n = m.n
      BY <1>2, <3>1, <3>2, NoteLeaves DEF NotesInQueue
    <3> HIDE DEF e
    <3>8. NotesQueue!Delete(e)
      BY <2>1, <3>2, <3>5, <3>6, <3>7 DEF NotesQueue!Delete, NotesInQueue, NotesApplied
    <3> QED BY <1>3, <3>3, <3>4, <3>7, <3>8 DEF QueueInv, NotesQueue!Next, NotesApplied, NotesInQueue
  <2> QED BY <2>3, <2>4
<1>9. CASE Redrive
  <2>1. PICK m \in queue : m.n = MaxReceive /\ dead' = dead \cup {m.note} /\ queue' = queue \ {m}
    BY <1>9 DEF Redrive
  <2> DEFINE e == [msg |-> m.note, n |-> m.n]
  <2>2. UNCHANGED <<acked, work>>
    BY <1>9 DEF Redrive
  <2>3. OneNote' /\ KnownNotes' = KnownNotes
    BY <1>2, <2>1, <2>2 DEF OneNote, KnownNotes
  <2>4. TakenInv'
    BY <1>2, <2>1, <2>2 DEF TakenInv, TakenNote
  <2>5. NotesInQueue' = NotesInQueue \ {e} /\ e \in NotesInQueue /\ e.msg = m.note /\ e.n = m.n
    BY <1>2, <2>1, NoteLeaves DEF NotesInQueue
  <2> HIDE DEF e
  <2>6. NotesQueue!Bury(e)
    BY <2>1, <2>2, <2>5 DEF NotesQueue!Bury, NotesInQueue
  <2> QED BY <1>3, <2>3, <2>4, <2>5, <2>6 DEF QueueInv, NotesQueue!Next, NotesApplied, NotesInQueue
<1> QED BY <1>6, <1>7, <1>8, <1>9 DEF LambdaNext, WorkerStep

\* The next message of an execution is none that is known.
LEMMA NotifyQueue ==
  ASSUME IndInv, QueueInv, NEW x \in Executions, Notify(x), NotesApplied \subseteq NotesApplied'
  PROVE  QueueInv' /\ NotesQueue!Next
<1> DEFINE k == runs[x].sent + 1
           n == [run |-> x, doc |-> runs[x].doc, toState |-> Script[k].toState, phase |-> Script[k].phase]
           m == [note |-> n, n |-> 0]
<1>1. /\ runs[x] # NoRun /\ runs[x].sent < Len(Script) /\ queue' = queue \cup {m}
      /\ runs' = [runs EXCEPT ![x].sent = @ + 1] /\ UNCHANGED <<log, acked, dead, work>>
  BY DEF Notify, tableVars
<1>2. runs \in [Executions -> Run \cup {NoRun}] /\ runs[x] \in Run /\ runs[x].sent \in Nat
  BY <1>1 DEF IndInv, TypeOK, HandlerTypeOK, Run
<1>3. k \in DOMAIN Script /\ \A i \in DOMAIN Script : Script[i] = [toState |-> Script[i].toState, phase |-> Script[i].phase]
  <2>1. DOMAIN Script = 1..Len(Script) /\ Len(Script) \in Nat
    BY ScriptAssumption
  <2>2. ASSUME NEW i \in DOMAIN Script PROVE Script[i] = [toState |-> Script[i].toState, phase |-> Script[i].phase]
    <3> DEFINE S == [toState: Status, phase: Stages]
    <3>1. Script \in Seq(S)
      BY ScriptAssumption
    <3> HIDE DEF S
    <3>2. Script[i] \in S
      BY <3>1
    <3> QED BY <3>2 DEF S
  <2>3. k \in DOMAIN Script
    BY <1>1, <1>2, <2>1
  <2> QED BY <2>2, <2>3
<1>4. /\ n.run = x /\ n.toState = Script[k].toState /\ n.phase = Script[k].phase /\ m.note = n /\ m.n = 0
      /\ m = [note |-> n, n |-> 0]
  OBVIOUS
<1>5. /\ runs'[x].sent = k /\ runs'[x] \in Run
      /\ \A y \in Executions \ {x} : runs'[y] = runs[y]
  BY <1>1, <1>2 DEF Run
<1>6. runs'[x] # NoRun
  BY <1>5, HandlerAssumption
<1>7. k > runs[x].sent /\ k \in Nat
  BY <1>2
<1>8. SentInv /\ OneNote /\ TakenInv
  BY DEF QueueInv
<1> HIDE DEF m, n, k
<1>9. n \notin KnownNotes
  <2> SUFFICES ASSUME n \in KnownNotes PROVE FALSE
    OBVIOUS
  <2>1. SentAs(n, runs[x])
    BY <1>4, <1>8 DEF SentInv
  <2>2. PICK i \in DOMAIN Script : i <= runs[x].sent /\ Script[i] = [toState |-> n.toState, phase |-> n.phase]
    BY <2>1 DEF SentAs
  <2>3. Script[i] = Script[k]
    BY <1>3, <1>4, <2>2
  <2>4. i = k
    BY <1>3, <2>3, ScriptAssumption
  <2> QED BY <1>2, <1>7, <2>2, <2>4
<1>10. KnownNotes' = KnownNotes \cup {n} /\ OneNote' /\ TakenInv'
  BY <1>1, <1>4, <1>8, <1>9 DEF KnownNotes, OneNote, TakenInv, TakenNote
<1>11. SentInv'
  <2>1. SentAs(n, runs'[x])
    BY <1>3, <1>4, <1>5, <1>6, <1>7 DEF SentAs
  <2>2. ASSUME NEW o \in KnownNotes PROVE SentAs(o, runs'[o.run])
    <3>1. SentAs(o, runs[o.run]) /\ o.run \in Executions
      BY <1>8, ScriptAssumption DEF SentInv, KnownNotes, IndInv, TypeOK, LambdaTypeOK, Note
    <3>2. CASE o.run = x
      <4>1. PICK i \in DOMAIN Script : i <= runs[x].sent /\ Script[i] = [toState |-> o.toState, phase |-> o.phase]
        BY <3>1, <3>2 DEF SentAs
      <4>2. DOMAIN Script = 1..Len(Script)
        BY ScriptAssumption
      <4>3. i <= k
        BY <1>2, <1>7, <4>1, <4>2
      <4> QED BY <1>5, <1>6, <3>2, <4>1, <4>3 DEF SentAs
    <3>3. CASE o.run # x
      BY <1>5, <3>1, <3>3
    <3> QED BY <3>2, <3>3
  <2> QED BY <1>4, <1>10, <2>1, <2>2 DEF SentInv
<1>12. NotesInQueue' = NotesInQueue \cup {[msg |-> n, n |-> 0]}
  BY <1>1, <1>4 DEF NotesInQueue
<1>13. NotesQueue!Send
  <2>1. [msg |-> n, n |-> 0].msg = n
    OBVIOUS
  <2> QED BY <1>1, <1>9, <1>12, <2>1, NotesKnown DEF NotesQueue!Send, NotesInQueue
<1> QED BY <1>10, <1>11, <1>13 DEF QueueInv, NotesQueue!Next, NotesApplied

LEMMA QueueSteps ==
  ASSUME IndInv, AckInv, QueueInv, [Next]_vars
  PROVE  QueueInv' /\ [NotesQueue!Next]_(NotesQueue!deliveryVars)
<1>1. NotesApplied \subseteq NotesApplied'
  BY NextGrows, AppliedGrows
<1>2. ASSUME UNCHANGED <<lambdaVars, runs>> PROVE QueueInv' /\ NotesQueue!Next
  <2>1. UNCHANGED <<queue, acked, dead, work>>
    BY <1>2 DEF lambdaVars
  <2>2. QueueInv'
    BY <1>2, <2>1 DEF QueueInv, SentInv, KnownNotes, OneNote, TakenInv, TakenNote
  <2>3. NotesQueue!Next
    BY <1>1, <2>1 DEF NotesQueue!Next, NotesApplied
  <2> QED BY <2>2, <2>3
<1>3. CASE UNCHANGED vars
  BY <1>2, <1>3 DEF vars, handlerVars
<1>4. ASSUME NEW c \in Calls, ResolverStep(c), UNCHANGED <<lambdaVars, handlerVars>> PROVE QueueInv' /\ NotesQueue!Next
  BY <1>2, <1>4 DEF handlerVars
<1>5. CASE LambdaNext /\ UNCHANGED <<resolverVars, handlerVars>>
  BY <1>1, <1>5, LambdaQueue DEF handlerVars
<1>6. ASSUME NEW d \in Docs, (Replicate(d) /\ UNCHANGED <<resolverVars, lambdaVars, handlerVars>>) \/ ClientUpload(d)
      PROVE  QueueInv' /\ NotesQueue!Next
  BY <1>2, <1>6 DEF handlerVars, ClientUpload, Upload
<1>7. CASE HandlerNext /\ UNCHANGED <<resolverVars, lambdaVars>>
  <2>1. CASE StartExecution
    <3>1. PICK f \in findings, x \in Executions :
            runs[x] = NoRun /\ runs' = [runs EXCEPT ![x] = [doc |-> f.doc, nth |-> f.nth, sent |-> 0]]
      BY <2>1 DEF StartExecution
    <3>2. UNCHANGED <<queue, acked, dead, work>>
      BY <1>7 DEF lambdaVars
    <3>3. SentInv'
      <4>1. \A n \in KnownNotes : n.run # x /\ n.run \in Executions
        BY <3>1, ScriptAssumption DEF QueueInv, SentInv, SentAs, KnownNotes, IndInv, TypeOK, LambdaTypeOK, Note
      <4>2. \A y \in Executions \ {x} : runs'[y] = runs[y]
        BY <3>1 DEF IndInv, TypeOK, HandlerTypeOK
      <4> QED BY <3>2, <4>1, <4>2 DEF QueueInv, SentInv, KnownNotes
    <3>4. OneNote' /\ TakenInv'
      BY <3>2 DEF QueueInv, OneNote, TakenInv, TakenNote
    <3>5. NotesQueue!Next
      BY <1>1, <3>2 DEF NotesQueue!Next, NotesApplied
    <3> QED BY <3>3, <3>4, <3>5 DEF QueueInv
  <2>2. CASE ~ StartExecution
    <3>1. UNCHANGED runs
      BY <1>7, <2>2 DEF HandlerNext, HandlerStep, Ignore, BeginThreat, ThreatGet, ThreatPut, HandlerFail
    <3> QED BY <1>2, <1>7, <3>1
  <2> QED BY <2>1, <2>2
<1>8. ASSUME NEW x \in Executions, Notify(x) PROVE QueueInv' /\ NotesQueue!Next
  BY <1>1, <1>8, NotifyQueue
<1> QED BY <1>3, <1>4, <1>5, <1>6, <1>7, <1>8 DEF Next

\* However often the lambda is handed a message, by however many invocations: it
\* is deleted only when its document was in the state it announces, given up
\* only with its receives used up, and in neither case comes back.
THEOREM NotesKeepTheirPromise == Spec => NotesAreDelivered
<1>1. Init => KeyInv /\ AckInv /\ QueueInv /\ NotesQueue!Init
  <2> SUFFICES ASSUME Init PROVE KeyInv /\ AckInv /\ QueueInv /\ NotesQueue!Init
    OBVIOUS
  <2>1. /\ queue = {} /\ acked = {} /\ dead = {} /\ \A w \in Workers : work[w].pc = "idle"
        /\ log = [d \in Docs |-> <<>>]
    BY DEF Init, TableInit, LambdaInit
  <2>2. KeyInv /\ AckInv
    BY <2>1 DEF Init, TableInit, KeyInv, CreateKeysStay, StateKeysTell, AckInv
  <2>3. QueueInv
    BY <2>1 DEF QueueInv, SentInv, KnownNotes, OneNote, TakenInv
  <2>4. NotesApplied = {}
    BY <2>1 DEF NotesApplied, Note
  <2> QED BY <2>1, <2>2, <2>3, <2>4 DEF NotesQueue!Init, NotesApplied
<1>2. IndInv /\ KeyInv /\ AckInv /\ QueueInv /\ [Next]_vars
        => KeyInv' /\ AckInv' /\ QueueInv' /\ [NotesQueue!Next]_(NotesQueue!deliveryVars)
  BY KeysKept, AckKept, QueueSteps
<1> QED BY <1>1, <1>2, Invariance, PTL DEF Spec, NotesAreDelivered, NotesQueue!Spec
-----------------------------------------------------------------------------
\* What a success says of a request: of a create, that the document began
\* under its key; of an update, that the document was in the status asked for
\* under its key.
Answered(q, d) ==
  IF q.op = "create"
    THEN log[d] # <<>> /\ log[d][1].key = q.key
    ELSE d = q.doc /\ \E i \in 1..Len(log[d]) : log[d][i].key = q.key /\ log[d][i].status = q.to

ReplyInv ==
  /\ \A r \in replies : Answered(r.req, r.doc)
  /\ \A c \in Calls : call[c].pc = "finish" => Answered(call[c].req, call[c].doc)

LEMMA AnsweredKept ==
  ASSUME TableGrows, NEW q, NEW d \in Docs, Answered(q, d)
  PROVE  Answered(q, d)'
<1>1. /\ Len(log[d]) \in Nat /\ Len(log'[d]) \in Nat /\ Len(log[d]) <= Len(log'[d])
      /\ \A i \in 1..Len(log[d]) : i \in 1..Len(log'[d]) /\ log'[d][i] = log[d][i]
  BY DEF TableGrows, Grows, TableTypeOK
<1>2. CASE q.op = "create"
  <2>1. log[d] # <<>> /\ log[d][1].key = q.key
    BY <1>2 DEF Answered
  <2>2. 1 \in 1..Len(log[d])
    BY <1>1, <2>1 DEF TableGrows, TableTypeOK
  <2>3. log'[d] # <<>> /\ log'[d][1].key = q.key
    BY <1>1, <2>1, <2>2
  <2> QED BY <1>2, <2>3 DEF Answered
<1>3. CASE q.op # "create"
  <2>1. d = q.doc
    BY <1>3 DEF Answered
  <2>2. PICK i \in 1..Len(log[d]) : log[d][i].key = q.key /\ log[d][i].status = q.to
    BY <1>3 DEF Answered
  <2> QED BY <1>1, <1>3, <2>1, <2>2 DEF Answered
<1> QED BY <1>2, <1>3

\* A replay is recognised from the index: what it says of its row is true.
LEMMA CreateHitAnswers ==
  ASSUME IndInv, KeyInv, NEW c \in Calls, At(c, "create", "find"),
         NEW d \in FindByIdempotencyKey(call[c].req.key)
  PROVE  d \in Docs /\ Answered(call[c].req, d)
<1>1. call[c].req.op = "create" /\ call[c].req \in CreateRequestType
  BY ResolverAssumption DEF At, IndInv, CallInv, Requests, UpdateRequestType
<1>2. d \in Docs /\ indexed[d] \in 1..Len(log[d]) /\ log[d][indexed[d]].key = call[c].req.key
  BY DEF FindByIdempotencyKey, IndexHas, IndInv, TypeOK, TableTypeOK
<1>3. call[c].req.key \in CreateKeys
  BY <1>1 DEF CreateRequestType
<1>4. log[d][1].key = call[c].req.key
  BY <1>2, <1>3 DEF KeyInv, CreateKeysStay
<1>5. log[d] # <<>>
  BY <1>2
<1> QED BY <1>1, <1>2, <1>4, <1>5 DEF Answered

LEMMA UpdateHitAnswers ==
  ASSUME IndInv, NEW c \in Calls, At(c, "update", "find"),
         call[c].req.doc \in FindByIdempotencyKey(call[c].req.key),
         log[call[c].req.doc][indexed[call[c].req.doc]].status = call[c].req.to
  PROVE  call[c].req.doc \in Docs /\ Answered(call[c].req, call[c].req.doc)
<1> DEFINE d == call[c].req.doc
<1>1. call[c].req.op # "create"
  BY DEF At
<1>2. d \in Docs /\ indexed[d] \in 1..Len(log[d]) /\ log[d][indexed[d]].key = call[c].req.key
  BY DEF FindByIdempotencyKey, IndexHas, IndInv, TypeOK, TableTypeOK
<1> QED BY <1>1, <1>2 DEF Answered

LEMMA RepliesKept == ASSUME IndInv, KeyInv, ReplyInv, [Next]_vars PROVE ReplyInv'
<1>1. TableGrows
  BY NextGrows
<1>2. /\ replies \subseteq Reply /\ call \in [Calls -> CallState]
      /\ \A c \in Calls : call[c].pc = "finish" => call[c].doc \in Docs
  BY DEF IndInv, TypeOK, ResolverTypeOK, CallInv
<1>3. ASSUME NEW q, NEW d, NEW r \in replies, q = r.req, d = r.doc PROVE Answered(q, d)'
  BY <1>1, <1>2, <1>3, AnsweredKept DEF ReplyInv, Reply
<1>4. ASSUME NEW q, NEW d, NEW c \in Calls, call[c].pc = "finish", q = call[c].req, d = call[c].doc
      PROVE  Answered(q, d)'
  BY <1>1, <1>2, <1>4, AnsweredKept DEF ReplyInv
<1>5. ASSUME \A r \in replies' : \A q, d : q = r.req /\ d = r.doc => Answered(q, d)',
             \A c \in Calls : \A q, d : call'[c].pc = "finish" /\ q = call'[c].req /\ d = call'[c].doc
                                => Answered(q, d)'
      PROVE  ReplyInv'
  BY <1>5 DEF ReplyInv, Answered
<1>6. CASE UNCHANGED <<call, replies, announced>>
  BY <1>3, <1>4, <1>5, <1>6
\* No answer is given, and no call comes to its end.
<1>7. ASSUME NEW c \in Calls, replies' = replies, call'[c].pc # "finish",
             \A e \in Calls \ {c} : call'[e] = call[e]
      PROVE  ReplyInv'
  BY <1>3, <1>4, <1>5, <1>7
\* An answer that is true is given.
<1>8. ASSUME NEW c \in Calls, NEW e \in Docs, NEW url, Answer(c, e, url), Answered(call[c].req, e)
      PROVE  ReplyInv'
  <2> DEFINE p == call[c].req
             s == [req |-> p, doc |-> e, url |-> url]
  <2>1. /\ replies' = replies \cup {s}
        /\ call'[c].pc = "done" /\ \A f \in Calls \ {c} : call'[f] = call[f]
    BY <1>2, <1>8 DEF Answer, Goto, CallState
  <2>2. \A q, d : q = p /\ d = e => Answered(q, d)'
    BY <1>1, <1>8, AnsweredKept
  <2>3. s.req = p /\ s.doc = e
    OBVIOUS
  <2> HIDE DEF s, p
  <2> QED BY <1>3, <1>4, <1>5, <2>1, <2>2, <2>3
\* A row is put, and the call goes on to announce it.
<1>9. ASSUME NEW c \in Calls, replies' = replies, \A e \in Calls \ {c} : call'[e] = call[e],
             \A q, d : q = call'[c].req /\ d = call'[c].doc => Answered(q, d)'
      PROVE  ReplyInv'
  BY <1>3, <1>4, <1>5, <1>9
<1>10. ASSUME NEW c \in Calls, ResolverStep(c)
       PROVE  ReplyInv'
  <2>1. CASE Begin(c) \/ CreateFindMiss(c) \/ UpdateFindMiss(c) \/ UpdateGet(c) \/ UpdateReject(c) \/ Abandon(c)
    <3>1. replies' = replies /\ call'[c].pc # "finish" /\ \A e \in Calls \ {c} : call'[e] = call[e]
      BY <1>2, <2>1 DEF Begin, CreateFindMiss, UpdateFindMiss, UpdateGet, UpdateReject, Abandon, Goto, CallState
    <3> QED BY <1>7, <3>1
  <2>2. CASE CreateFindHit(c)
    <3>1. PICK d \in FindByIdempotencyKey(call[c].req.key) : Answer(c, d, FALSE)
      BY <2>2 DEF CreateFindHit
    <3> QED BY <1>8, <2>2, <3>1, CreateHitAnswers DEF CreateFindHit
  <2>3. CASE UpdateFindHit(c)
    BY <1>8, <2>3, UpdateHitAnswers DEF UpdateFindHit
  <2>4. CASE CreateReturn(c) \/ UpdateReturn(c)
    BY <1>2, <1>8, <2>4 DEF CreateReturn, UpdateReturn, ReplyInv, At
  <2>5. CASE CreatePut(c)
    <3>1. PICK d \in Docs, row \in Version :
            /\ log[d] = <<>> /\ Put(d, row)
            /\ row.key = call[c].req.key
            /\ call' = [call EXCEPT ![c].pc = "finish", ![c].doc = d]
      BY <2>5, CreatePutKey
    <3>2. /\ replies' = replies /\ call'[c].req = call[c].req /\ call'[c].doc = d
          /\ call[c].req.op = "create" /\ \A e \in Calls \ {c} : call'[e] = call[e]
      BY <1>2, <2>5, <3>1 DEF CreatePut, At, CallState
    <3>3. log'[d] = Append(<<>>, row)
      BY <1>1, <3>1 DEF Put, TableGrows, TableTypeOK
    <3>4. log'[d] # <<>> /\ log'[d][1].key = call[c].req.key
      BY <3>1, <3>3
    <3>5. \A q, e : q = call'[c].req /\ e = call'[c].doc => Answered(q, e)'
      BY <3>2, <3>4 DEF Answered
    <3> QED BY <1>9, <3>2, <3>5
  <2>6. CASE UpdatePut(c)
    <3> DEFINE d == call[c].doc
    <3>1. d \in Docs /\ d = call[c].req.doc
      BY <2>6, UpdatePutKey
    <3>2. PICK row \in Version : /\ Put(d, row) /\ row.key = call[c].req.key
                                 /\ row.status = call[c].req.to
      BY <2>6, UpdatePutKey
    <3>3. /\ replies' = replies /\ call'[c].req = call[c].req /\ call'[c].doc = d
          /\ call[c].req.op # "create" /\ \A e \in Calls \ {c} : call'[e] = call[e]
      BY <1>2, <2>6 DEF UpdatePut, At, CallState
    <3>4. Len(log[d]) + 1 \in 1..Len(log'[d]) /\ log'[d][Len(log[d]) + 1] = row
      BY <1>1, <3>1, <3>2 DEF Put, TableGrows, TableTypeOK
    <3>5. \A q, e : q = call'[c].req /\ e = call'[c].doc => Answered(q, e)'
      BY <3>1, <3>2, <3>3, <3>4 DEF Answered
    <3> QED BY <1>9, <3>3, <3>5
  <2> QED BY <1>10, <2>1, <2>2, <2>3, <2>4, <2>5, <2>6 DEF ResolverStep
<1> QED BY <1>6, <1>10, WhoMoves

\* A client told "created" or "updated" was told the truth, although a replay is
\* recognised from an index that lags (createDocument, updateStatus).
THEOREM RepliesHold == Spec => []RepliesAreTrue
<1>1. Init => KeyInv /\ ReplyInv
  BY DEF Init, TableInit, ResolverInit, KeyInv, CreateKeysStay, StateKeysTell, ReplyInv
<1>2. IndInv /\ KeyInv /\ ReplyInv /\ [Next]_vars => (KeyInv /\ ReplyInv)'
  BY KeysKept, RepliesKept
<1>3. IndInv /\ ReplyInv => RepliesAreTrue
  <2> SUFFICES ASSUME IndInv, ReplyInv, NEW r \in replies
               PROVE  IF r.req.op = "create"
                        THEN Exists(r.doc) /\ log[r.doc][1].key = r.req.key
                        ELSE /\ r.doc = r.req.doc
                             /\ \E i \in DOMAIN log[r.doc] : /\ log[r.doc][i].key = r.req.key
                                                             /\ log[r.doc][i].status = r.req.to
    BY DEF RepliesAreTrue
  <2>1. r.doc \in Docs
    BY DEF IndInv, TypeOK, ResolverTypeOK, Reply
  <2>2. DOMAIN log[r.doc] = 1..Len(log[r.doc])
    BY <2>1 DEF IndInv, TypeOK, TableTypeOK
  <2>3. Answered(r.req, r.doc)
    BY DEF ReplyInv
  <2> QED BY <2>2, <2>3 DEF Answered, Exists
<1> QED BY <1>1, <1>2, <1>3, Invariance, PTL DEF Spec
-----------------------------------------------------------------------------
\* The rows that were announced and the rows that are about to be: no row is
\* announced twice, and none that one of the calls still has to announce.
Said(d, i)         == \E j \in 1..Len(announced[d]) : announced[d][j] = i
Finishing(c, d, i) == At(c, "update", "finish") /\ call[c].doc = d /\ call[c].base = i

SaidOnce ==
  \A d \in Docs : \A j \in 1..Len(announced[d]) :
    /\ announced[d][j] \in 1..Len(log[d])
    /\ \A k \in 1..Len(announced[d]) : announced[d][j] = announced[d][k] => j = k

StillToSay ==
  \A c \in Calls : \A d \in Docs : \A i \in Nat : Finishing(c, d, i) =>
    /\ i \in 1..Len(log[d]) /\ ~Said(d, i)
    /\ \A e \in Calls : Finishing(e, d, i) => e = c

NoneForgotten ==
  ~Faults => \A d \in Docs : \A i \in 2..Len(log[d]) : log[d][i].by = "resolver" =>
    Said(d, i) \/ \E c \in Calls : Finishing(c, d, i)

AnnounceInv == SaidOnce /\ StillToSay /\ NoneForgotten

\* Nothing is announced; no call comes to an announcement, and none that had
\* one to make goes away unless calls fail; the rows put are not updateStatus's.
LEMMA QuietKeepsAnnounced ==
  ASSUME TableGrows, AnnounceInv, ResolverTypeOK, announced' = announced,
         \A c \in Calls : \A d \in Docs : \A i \in Nat :
            /\ Finishing(c, d, i)' => Finishing(c, d, i)
            /\ ~Faults /\ Finishing(c, d, i) => Finishing(c, d, i)',
         \A d \in Docs : \A i \in 2..Len(log'[d]) : i > Len(log[d]) => log'[d][i].by # "resolver"
  PROVE  AnnounceInv'
<1>1. \A d \in Docs : /\ Len(log[d]) \in Nat /\ Len(log'[d]) \in Nat /\ Len(log[d]) <= Len(log'[d])
                      /\ \A i \in 1..Len(log[d]) : log'[d][i] = log[d][i]
  BY DEF TableGrows, Grows, TableTypeOK
<1>2. SaidOnce'
  BY <1>1 DEF AnnounceInv, SaidOnce
<1>3. \A d, i : Said(d, i)' <=> Said(d, i)
  BY DEF Said
<1>4. StillToSay'
  BY <1>1, <1>3 DEF AnnounceInv, StillToSay
<1>5. NoneForgotten'
  <2> SUFFICES ASSUME ~Faults, NEW d \in Docs, NEW i \in 2..Len(log'[d]), log'[d][i].by = "resolver"
               PROVE  Said(d, i)' \/ \E c \in Calls : Finishing(c, d, i)'
    BY DEF NoneForgotten
  <2>1. i \in 2..Len(log[d]) /\ log[d][i].by = "resolver" /\ i \in Nat
    BY <1>1
  <2> QED BY <1>3, <2>1 DEF AnnounceInv, NoneForgotten
<1> QED BY <1>2, <1>4, <1>5 DEF AnnounceInv

\* updateStatus puts a row: its call is the one that will announce it.
LEMMA PutIsToBeSaid ==
  ASSUME TableGrows, IndInv, AnnounceInv, NEW c \in Calls, UpdatePut(c)
  PROVE  AnnounceInv'
<1> DEFINE d == call[c].doc
           m == Len(log[d]) + 1
<1>1. d \in Docs /\ call \in [Calls -> CallState] /\ announced \in [Docs -> Seq(Nat)]
  BY UpdatePutKey DEF IndInv, TypeOK, ResolverTypeOK
<1>2. /\ Len(log[d]) \in Nat /\ m \in Nat /\ Len(log'[d]) = m
      /\ \A i \in 1..Len(log[d]) : log'[d][i] = log[d][i]
      /\ \A e \in Docs : e # d => log'[e] = log[e]
      /\ \A e \in Docs : Len(log[e]) \in Nat
  <2>1. PICK row \in Version : Put(d, row)
    BY UpdatePutKey
  <2>2. log \in [Docs -> Seq(Version)]
    BY DEF TableGrows, TableTypeOK
  <2> HIDE DEF d
  <2>3. log'[d] = Append(log[d], row) /\ \A e \in Docs : e # d => log'[e] = log[e]
    BY <1>1, <2>1, <2>2 DEF Put
  <2> QED BY <1>1, <2>2, <2>3
<1>3. announced' = announced /\ ~(call[c].pc = "finish") /\ call[c].req.op = "update"
  BY DEF UpdatePut, At
<1>4. call'[c].pc = "finish" /\ call'[c].req = call[c].req /\ call'[c].doc = d /\ call'[c].base = m
  BY <1>1 DEF UpdatePut, CallState, Current
<1>5. \A e \in Calls \ {c} : call'[e] = call[e]
  BY <1>1 DEF UpdatePut
<1> HIDE DEF d, m
<1>6. \A e, i : Finishing(c, e, i)' <=> e = d /\ i = m
  BY <1>3, <1>4 DEF Finishing, At
<1>7. \A e, i : ~Finishing(c, e, i)
  BY <1>3 DEF Finishing, At
<1>8. \A f \in Calls \ {c} : \A e, i : Finishing(f, e, i)' <=> Finishing(f, e, i)
  BY <1>5 DEF Finishing, At
<1>9. \A e, i : Said(e, i)' <=> Said(e, i)
  BY <1>3 DEF Said
<1>10. \A e \in Docs : Len(log[e]) <= Len(log'[e]) /\ Len(log'[e]) \in Nat
  BY DEF TableGrows, Grows, TableTypeOK
<1>11. SaidOnce'
  BY <1>2, <1>3, <1>10 DEF AnnounceInv, SaidOnce
<1>12. ~Said(d, m) /\ \A f \in Calls : ~Finishing(f, d, m)
  <2>1. ~(m \in 1..Len(log[d]))
    BY <1>2 DEF m
  <2> QED BY <1>1, <1>2, <2>1 DEF AnnounceInv, SaidOnce, StillToSay, Said
<1>13. StillToSay'
  <2> SUFFICES ASSUME NEW f \in Calls, NEW e \in Docs, NEW i \in Nat, Finishing(f, e, i)'
               PROVE  /\ i \in 1..Len(log'[e]) /\ ~Said(e, i)'
                      /\ \A g \in Calls : Finishing(g, e, i)' => g = f
    BY DEF StillToSay
  <2>1. CASE f = c
    <3>1. e = d /\ i = m
      BY <1>6, <2>1
    <3>2. m \in 1..Len(log'[d])
      BY <1>2 DEF m
    <3> QED BY <1>8, <1>9, <1>12, <2>1, <3>1, <3>2
  <2>2. CASE f # c
    <3>1. Finishing(f, e, i)
      BY <1>8, <2>2
    <3>2. i \in 1..Len(log[e]) /\ ~Said(e, i) /\ \A g \in Calls : Finishing(g, e, i) => g = f
      BY <3>1 DEF AnnounceInv, StillToSay
    <3>3. ~(e = d /\ i = m)
      BY <1>12, <3>1
    <3> QED BY <1>2, <1>6, <1>8, <1>9, <1>10, <3>2, <3>3
  <2> QED BY <2>1, <2>2
<1>14. NoneForgotten'
  <2> SUFFICES ASSUME ~Faults, NEW e \in Docs, NEW i \in 2..Len(log'[e]), log'[e][i].by = "resolver"
               PROVE  Said(e, i)' \/ \E f \in Calls : Finishing(f, e, i)'
    BY DEF NoneForgotten
  <2>1. CASE e = d /\ i = m
    BY <1>6, <2>1
  <2>2. CASE ~(e = d /\ i = m)
    <3>1. i \in 2..Len(log[e]) /\ log'[e][i] = log[e][i]
      BY <1>2, <2>2 DEF m
    <3>2. Said(e, i) \/ \E f \in Calls : Finishing(f, e, i)
      BY <3>1 DEF AnnounceInv, NoneForgotten
    <3> QED BY <1>7, <1>8, <1>9, <3>2
  <2> QED BY <2>1, <2>2
<1> QED BY <1>11, <1>13, <1>14 DEF AnnounceInv

\* fanout of the row the call put: it was not announced, now it is.
LEMMA ReturnSays ==
  ASSUME IndInv, AnnounceInv, NEW c \in Calls, UpdateReturn(c)
  PROVE  AnnounceInv'
<1>0. PICK d \in Docs, m \in Nat : d = call[c].doc /\ m = call[c].base
  BY DEF IndInv, TypeOK, ResolverTypeOK, CallInv, UpdateReturn, At, CallState
<1>1. /\ call \in [Calls -> CallState] /\ announced \in [Docs -> Seq(Nat)]
      /\ At(c, "update", "finish")
  BY DEF IndInv, TypeOK, ResolverTypeOK, UpdateReturn
<1>2. log' = log /\ announced' = [announced EXCEPT ![d] = Append(@, m)]
  BY <1>0 DEF UpdateReturn, tableVars
<1>3. call'[c].pc = "done" /\ \A f \in Calls \ {c} : call'[f] = call[f]
  BY <1>1 DEF UpdateReturn, Answer, Goto, CallState
<1>4. Finishing(c, d, m) /\ \A e, i : Finishing(c, e, i) => e = d /\ i = m
  BY <1>0, <1>1 DEF Finishing
<1>5. \A e, i : ~Finishing(c, e, i)'
  BY <1>3 DEF Finishing, At
<1>6. \A f \in Calls \ {c} : \A e, i : Finishing(f, e, i)' <=> Finishing(f, e, i)
  BY <1>3 DEF Finishing, At
<1>7. m \in 1..Len(log[d]) /\ ~Said(d, m) /\ \A f \in Calls : Finishing(f, d, m) => f = c
  BY <1>1, <1>4 DEF AnnounceInv, StillToSay
<1>8. /\ Len(announced[d]) \in Nat /\ Len(announced'[d]) = Len(announced[d]) + 1
      /\ announced'[d][Len(announced[d]) + 1] = m
      /\ \A j \in 1..Len(announced[d]) : announced'[d][j] = announced[d][j]
      /\ \A e \in Docs : e # d => announced'[e] = announced[e]
  BY <1>1, <1>2
<1>9. \A e \in Docs : \A i : Said(e, i)' <=> Said(e, i) \/ (e = d /\ i = m)
  <2> SUFFICES ASSUME NEW e \in Docs, NEW i PROVE Said(e, i)' <=> Said(e, i) \/ (e = d /\ i = m)
    OBVIOUS
  <2>1. CASE e # d
    BY <1>8, <2>1 DEF Said
  <2>2. CASE e = d
    <3>1. ASSUME Said(d, i)' PROVE Said(d, i) \/ i = m
      <4>1. PICK j \in 1..Len(announced'[d]) : announced'[d][j] = i
        BY <3>1 DEF Said
      <4>2. j \in 1..Len(announced[d]) \/ j = Len(announced[d]) + 1
        BY <1>8
      <4> QED BY <1>8, <4>1, <4>2 DEF Said
    <3>2. ASSUME Said(d, i) PROVE Said(d, i)'
      <4>1. PICK j \in 1..Len(announced[d]) : announced[d][j] = i
        BY <3>2 DEF Said
      <4>2. j \in 1..Len(announced'[d])
        BY <1>8
      <4> QED BY <1>8, <4>1, <4>2 DEF Said
    <3>3. Said(d, m)'
      <4>1. Len(announced[d]) + 1 \in 1..Len(announced'[d])
        BY <1>8
      <4> QED BY <1>8, <4>1 DEF Said
    <3> QED BY <2>2, <3>1, <3>2, <3>3
  <2> QED BY <2>1, <2>2
<1>10. SaidOnce'
  <2> SUFFICES ASSUME NEW e \in Docs, NEW j \in 1..Len(announced'[e])
               PROVE  /\ announced'[e][j] \in 1..Len(log[e])
                      /\ \A k \in 1..Len(announced'[e]) : announced'[e][j] = announced'[e][k] => j = k
    BY <1>2 DEF SaidOnce
  <2>1. CASE e # d
    BY <1>8, <2>1 DEF AnnounceInv, SaidOnce
  <2>2. CASE e = d
    <3>1. \A k \in 1..Len(announced'[d]) : k \in 1..Len(announced[d]) \/ k = Len(announced[d]) + 1
      BY <1>8
    <3>2. \A k \in 1..Len(announced[d]) : announced'[d][k] # m /\ announced'[d][k] \in 1..Len(log[d])
      BY <1>1, <1>7, <1>8 DEF AnnounceInv, SaidOnce, Said
    <3>3. \A k, l \in 1..Len(announced[d]) : announced'[d][k] = announced'[d][l] => k = l
      BY <1>1, <1>8 DEF AnnounceInv, SaidOnce
    <3> QED BY <1>7, <1>8, <2>2, <3>1, <3>2, <3>3
  <2> QED BY <2>1, <2>2
<1>11. StillToSay'
  <2> SUFFICES ASSUME NEW f \in Calls, NEW e \in Docs, NEW i \in Nat, Finishing(f, e, i)'
               PROVE  /\ i \in 1..Len(log'[e]) /\ ~Said(e, i)'
                      /\ \A g \in Calls : Finishing(g, e, i)' => g = f
    BY DEF StillToSay
  <2>1. f # c /\ Finishing(f, e, i)
    BY <1>5, <1>6
  <2>2. i \in 1..Len(log[e]) /\ ~Said(e, i) /\ \A g \in Calls : Finishing(g, e, i) => g = f
    BY <2>1 DEF AnnounceInv, StillToSay
  <2>3. ~(e = d /\ i = m)
    BY <1>7, <2>1
  <2> QED BY <1>2, <1>5, <1>6, <1>9, <2>2, <2>3
<1>12. NoneForgotten'
  <2> SUFFICES ASSUME ~Faults, NEW e \in Docs, NEW i \in 2..Len(log[e]), log[e][i].by = "resolver"
               PROVE  Said(e, i)' \/ \E f \in Calls : Finishing(f, e, i)'
    BY <1>2 DEF NoneForgotten
  <2>1. Said(e, i) \/ \E f \in Calls : Finishing(f, e, i)
    BY DEF AnnounceInv, NoneForgotten
  <2> QED BY <1>4, <1>6, <1>9, <2>1
<1> QED BY <1>10, <1>11, <1>12 DEF AnnounceInv

LEMMA AnnouncedKept == ASSUME IndInv, AnnounceInv, [Next]_vars PROVE AnnounceInv'
<1>1. TableGrows
  BY NextGrows
<1>2. ResolverTypeOK
  BY DEF IndInv, TypeOK
<1>3. log \in [Docs -> Seq(Version)] /\ \A e \in Docs : Len(log[e]) \in Nat
  BY <1>1 DEF TableGrows, TableTypeOK
\* The rows put in the step are not updateStatus's.
<1> DEFINE Foreign == \A d \in Docs : \A i \in 2..Len(log'[d]) :
                        i > Len(log[d]) => log'[d][i].by # "resolver"
<1>4. ASSUME NEW d \in Docs, NEW row \in Version, Put(d, row), row.by # "resolver" \/ log[d] = <<>>
      PROVE  Foreign
  <2>1. /\ Len(log'[d]) = Len(log[d]) + 1 /\ log'[d][Len(log[d]) + 1] = row
        /\ \A e \in Docs : e # d => log'[e] = log[e]
    BY <1>3, <1>4 DEF Put
  <2> SUFFICES ASSUME NEW e \in Docs, NEW i \in 2..Len(log'[e]), i > Len(log[e])
               PROVE  log'[e][i].by # "resolver"
    OBVIOUS
  <2>2. e = d /\ i = Len(log[d]) + 1
    BY <1>3, <2>1
  <2>3. log[d] # <<>>
    BY <2>2
  <2> QED BY <1>4, <2>1, <2>2, <2>3
<1>5. log' = log => Foreign
  BY <1>3
<1>6. ASSUME NEW c \in Calls, ResolverStep(c)
      PROVE  AnnounceInv'
  <2>1. CASE UpdatePut(c)
    BY <1>1, <2>1, PutIsToBeSaid
  <2>2. CASE UpdateReturn(c)
    BY <2>2, ReturnSays
  <2>3. CASE ~UpdatePut(c) /\ ~UpdateReturn(c)
    <3>1. call \in [Calls -> CallState]
      BY <1>2 DEF ResolverTypeOK
    <3>2. /\ announced' = announced
          /\ \A e \in Calls \ {c} : call'[e] = call[e]
          /\ ~At(c, "update", "finish")'
      BY <2>3, <1>6, <3>1 DEF ResolverStep, Begin, CreateFindHit, CreateFindMiss, CreatePut, CreateReturn,
            UpdateFindHit, UpdateFindMiss, UpdateGet, UpdateReject, Abandon, Answer, Goto, At, CallState
    <3>3. Faults \/ ~At(c, "update", "finish")
      BY <2>3, <1>6 DEF ResolverStep, Begin, CreateFindHit, CreateFindMiss, CreatePut, CreateReturn,
            UpdateFindHit, UpdateFindMiss, UpdateGet, UpdateReject, Abandon, At
    <3>4. Foreign
      <4>1. CASE CreatePut(c)
        BY <1>4, <4>1, CreatePutKey
      <4>2. CASE ~CreatePut(c)
        BY <1>5, <1>6, <2>3, <4>2 DEF ResolverStep, Begin, CreateFindHit, CreateFindMiss, CreateReturn,
              UpdateFindHit, UpdateFindMiss, UpdateGet, UpdateReject, Abandon, tableVars
      <4> QED BY <4>1, <4>2
    <3>5. \A e \in Calls : \A d \in Docs : \A i \in Nat :
             /\ Finishing(e, d, i)' => Finishing(e, d, i)
             /\ ~Faults /\ Finishing(e, d, i) => Finishing(e, d, i)'
      BY <3>2, <3>3 DEF Finishing, At
    <3> QED BY <1>1, <1>2, <3>2, <3>4, <3>5, QuietKeepsAnnounced
  <2> QED BY <2>1, <2>2, <2>3
<1>7. CASE UNCHANGED <<call, replies, announced>>
  <2>1. \A e, d, i : Finishing(e, d, i)' <=> Finishing(e, d, i)
    BY <1>7 DEF Finishing, At
  <2>2. ASSUME NEW c \in Calls, CreatePut(c) \/ UpdatePut(c) PROVE FALSE
    <3>1. call \in [Calls -> CallState]
      BY <1>2 DEF ResolverTypeOK
    <3> QED BY <1>7, <2>2, <3>1 DEF CreatePut, UpdatePut, At, CallState
  <2>3. ASSUME NEW w \in Workers, LambdaPut(w) PROVE Foreign
    <3>1. work[w].note.doc \in Docs
      BY <2>3, LambdaPutKey DEF Note
    <3>2. PICK row \in Version : Put(work[w].note.doc, row) /\ row.by = "lambda"
      BY <2>3, LambdaPutKey
    <3> QED BY <1>4, <3>1, <3>2
  <2>4. ASSUME NEW h \in Handlers, ThreatPut(h) PROVE Foreign
    <3>1. PICK row \in Version : Put(handler[h].doc, row) /\ row.by = "handler"
      BY <2>4, ThreatPutKey
    <3> QED BY <1>4, <2>4, <3>1, ThreatPutKey
  <2>5. Foreign
    BY <1>5, <2>2, <2>3, <2>4, WhoMoves
  <2> QED BY <1>1, <1>2, <1>7, <2>1, <2>5, QuietKeepsAnnounced
<1> QED BY <1>6, <1>7, WhoMoves

\* Unless calls fail, every row updateStatus puts is announced once, or its
\* call has not returned from Put (updateStatus, fanout).
THEOREM UpdatesAreAnnounced == Spec => []UpdatesAnnounced
<1>1. Init => AnnounceInv
  BY DEF Init, TableInit, ResolverInit, AnnounceInv, SaidOnce, StillToSay, NoneForgotten, Finishing, At
<1>2. IndInv /\ AnnounceInv /\ [Next]_vars => AnnounceInv'
  BY AnnouncedKept
<1>3. IndInv /\ AnnounceInv => UpdatesAnnounced
  <2> SUFFICES ASSUME IndInv, AnnounceInv, ~Faults, NEW d \in Docs, NEW i \in 2..Len(log[d]),
                      log[d][i].by = "resolver"
               PROVE  \/ Cardinality({j \in DOMAIN announced[d] : announced[d][j] = i}) = 1
                      \/ \E c \in Calls : At(c, "update", "finish") /\ call[c].doc = d /\ call[c].base = i
    BY DEF UpdatesAnnounced
  <2>1. Said(d, i) \/ \E c \in Calls : Finishing(c, d, i)
    BY DEF AnnounceInv, NoneForgotten
  <2>2. ASSUME Said(d, i)
        PROVE  Cardinality({j \in DOMAIN announced[d] : announced[d][j] = i}) = 1
    <3>1. DOMAIN announced[d] = 1..Len(announced[d])
      BY DEF IndInv, TypeOK, ResolverTypeOK
    <3>2. PICK j \in 1..Len(announced[d]) : announced[d][j] = i
      BY <2>2 DEF Said
    <3>3. {k \in DOMAIN announced[d] : announced[d][k] = i} = {j}
      BY <3>1, <3>2 DEF AnnounceInv, SaidOnce
    <3> QED BY <3>3, FS_Singleton
  <2> QED BY <2>1, <2>2 DEF Finishing
<1> QED BY <1>1, <1>2, <1>3, Invariance, PTL DEF Spec
-----------------------------------------------------------------------------
(***************************************************************************)
(* The resolver on its own, one call at a time, implements StatusMachine.  *)
(* The row an update replaces is then still the newest one (Serial): the   *)
(* call that could have put another is the only one there is.              *)
(***************************************************************************)
Serial ==
  /\ ResolverInv
  /\ \A c, e \in Active : c = e
  /\ \A c \in Calls : At(c, "update", "put") => call[c].base = Len(log[call[c].doc])

StatusOf == [d \in Docs |-> IF Exists(d) THEN log[d][Current(d)].status ELSE "none"]

\* The guard accepts the moves of the abstract machine and no others.
LEMMA LegalMoves ==
  ASSUME NEW s \in Status, NEW t, legalTransition(s, t)
  PROVE  \/ t = "FAILED" /\ s \in Machine!Steps \ {"COMPLETED"}
         \/ \E i \in 1..5 : \E j \in i..5 : s = Machine!HappyPath[i] /\ t = Machine!HappyPath[j]
<1>1. CASE t = "FAILED"
  <2>1. s \in {"UPLOADED", "SCANNING", "QUEUED", "PROCESSING"}
    BY <1>1 DEF legalTransition, Status
  <2>2. Machine!Steps = {Machine!HappyPath[i] : i \in 1..5}
    BY DEF Machine!Steps, Machine!HappyPath
  <2>3. /\ Machine!HappyPath[1] = "UPLOADED" /\ Machine!HappyPath[2] = "SCANNING"
        /\ Machine!HappyPath[3] = "QUEUED"   /\ Machine!HappyPath[4] = "PROCESSING"
    BY DEF Machine!HappyPath
  <2> QED BY <1>1, <2>1, <2>2, <2>3
<1>2. CASE t # "FAILED"
  <2>1. s \in DOMAIN order /\ t \in DOMAIN order /\ order[t] >= order[s]
    BY <1>2 DEF legalTransition
  <2>2. \A u \in DOMAIN order : order[u] + 1 \in 1..5 /\ u = Machine!HappyPath[order[u] + 1]
    BY DEF order, Machine!HappyPath
  <2>3. order[s] \in 0..4 /\ order[t] \in 0..4
    BY <2>1 DEF order
  <2>4. order[s] + 1 \in 1..5 /\ order[t] + 1 \in (order[s] + 1)..5
    BY <2>1, <2>3
  <2> QED BY <2>1, <2>2, <2>4
<1> QED BY <1>1, <1>2

\* A row put moves its document, and no other, to the row's status.
LEMMA PutMoves ==
  ASSUME TableTypeOK, NEW d \in Docs, NEW row, Put(d, row)
  PROVE  StatusOf' = [StatusOf EXCEPT ![d] = row.status]
<1>1. log \in [Docs -> Seq(Version)]
  BY DEF TableTypeOK
<1>2. /\ log'[d] = Append(log[d], row) /\ log[d] \in Seq(Version)
      /\ \A e \in Docs \ {d} : log'[e] = log[e]
  BY <1>1 DEF Put
<1>3. Len(log'[d]) = Len(log[d]) + 1 /\ log'[d][Len(log'[d])] = row /\ log'[d] # <<>>
  BY <1>2
<1>4. StatusOf'[d] = row.status
  BY <1>3 DEF StatusOf, Exists, Current
<1>5. \A e \in Docs \ {d} : StatusOf'[e] = StatusOf[e]
  BY <1>2 DEF StatusOf, Exists, Current
<1>6. StatusOf' = [e \in Docs |-> StatusOf'[e]] /\ StatusOf = [e \in Docs |-> StatusOf[e]]
  BY DEF StatusOf
<1> QED BY <1>4, <1>5, <1>6

LEMMA InitSerial == ResolverStart => Serial /\ Machine!Init
<1> SUFFICES ASSUME ResolverStart PROVE Serial /\ Machine!Init
  OBVIOUS
<1> USE DEF ResolverStart, TableInit, ResolverInit
<1>1. TableTypeOK /\ ResolverTypeOK /\ LogInv /\ CallInv
  BY DEF TableTypeOK, ResolverTypeOK, CallState, LogInv, CallInv, At
<1>2. Active = {} /\ \A c \in Calls : ~At(c, "update", "put")
  BY DEF Active, At
<1>3. Machine!Init
  BY DEF Machine!Init, Exists
<1> QED BY <1>1, <1>2, <1>3 DEF Serial, ResolverInv

\* Nothing is put: the machine stands still.
LEMMA StatusKeeps ==
  ASSUME UNCHANGED log
  PROVE  StatusOf' = StatusOf
BY DEF StatusOf, Exists, Current

\* A step of the only call there is.
LEMMA SerialStep ==
  ASSUME Concurrency = 1, Serial, NEW c \in Calls, ResolverStep(c)
  PROVE  /\ \A e \in Active' : e = c
         /\ At(c, "update", "put")' => call'[c].base = Len(log'[call'[c].doc])
<1>1. call \in [Calls -> CallState]
  BY DEF Serial, ResolverInv, ResolverTypeOK
<1>2. \A e \in Active : e = c
  <2>1. CASE Begin(c)
    <3>1. Cardinality(Active) < 1
      BY <2>1 DEF Begin
    <3>2. Active = {} \/ \E e \in Calls : Active = {e}
      BY DEF Serial, Active
    <3>3. ASSUME NEW e \in Calls, Active = {e} PROVE FALSE
      <4>1. Cardinality({e}) = 1
        BY FS_Singleton
      <4> QED BY <3>1, <3>3, <4>1
    <3>4. Active = {}
      BY <3>2, <3>3
    <3> QED BY <3>4
  <2>2. CASE ~Begin(c)
    <3>1. c \in Active
      BY <2>2 DEF ResolverStep, CreateFindHit, CreateFindMiss, CreatePut, CreateReturn, UpdateFindHit,
                  UpdateFindMiss, UpdateGet, UpdateReject, UpdatePut, UpdateReturn, Abandon, At, Active
    <3> QED BY <3>1 DEF Serial
  <2> QED BY <2>1, <2>2
<1>3. \A e \in Calls \ {c} : call'[e] = call[e]
  BY <1>1 DEF ResolverStep, Begin, CreateFindHit, CreateFindMiss, CreatePut, CreateReturn,
              UpdateFindHit, UpdateFindMiss, UpdateGet, UpdateReject, UpdatePut, UpdateReturn,
              Abandon, Answer, Goto
<1>4. \A e \in Active' : e = c
  BY <1>2, <1>3 DEF Active
<1>5. ASSUME At(c, "update", "put")' PROVE call'[c].base = Len(log'[call'[c].doc])
  <2>1. CASE UpdateGet(c)
    <3>1. call'[c] = [call[c] EXCEPT !.pc = "put", !.doc = call[c].req.doc,
                                     !.base = Len(log[call[c].req.doc])]
      BY <1>1, <2>1 DEF UpdateGet, Current
    <3>2. call'[c].doc = call[c].req.doc /\ call'[c].base = Len(log[call[c].req.doc])
      BY <1>1, <3>1 DEF CallState
    <3> QED BY <2>1, <3>2 DEF UpdateGet, tableVars
  <2>2. CASE ~UpdateGet(c)
    <3>1. CASE CreateFindMiss(c)
      BY <1>1, <1>5, <3>1 DEF CreateFindMiss, Goto, At
    <3>2. CASE ~CreateFindMiss(c)
      <4>1. call'[c].pc # "put"
        <5>1. CASE Begin(c) \/ CreatePut(c) \/ UpdatePut(c)
          BY <1>1, <5>1 DEF Begin, CreatePut, UpdatePut, CallState
        <5>2. CASE Goto(c, "done") \/ Goto(c, "get")
          BY <1>1, <5>2 DEF Goto, CallState
        <5> QED BY <2>2, <3>2, <5>1, <5>2
              DEF ResolverStep, CreateFindHit, CreateReturn, UpdateFindHit, UpdateFindMiss, UpdateReject,
                  UpdateReturn, Abandon, Answer
      <4> QED BY <1>5, <4>1 DEF At
    <3> QED BY <3>1, <3>2
  <2> QED BY <2>1, <2>2
<1> QED BY <1>4, <1>5

\* Every step keeps Serial, and is a step of the machine or leaves it alone.
LEMMA SerialNext ==
  ASSUME Concurrency = 1, Serial, [ResolverNext]_<<tableVars, resolverVars>>
  PROVE  Serial' /\ [Machine!Next]_StatusOf
<1>1. ASSUME NEW c \in Calls, ResolverStep(c)
      PROVE  Serial' /\ [Machine!Next]_StatusOf
  <2>1. ResolverInv'
    BY <1>1, ResolverKeeps DEF Serial
  <2>2. Serial'
    <3>1. /\ \A e \in Active' : e = c
          /\ At(c, "update", "put")' => call'[c].base = Len(log'[call'[c].doc])
      BY <1>1, SerialStep
    <3>2. \A e \in Calls \ {c} : ~At(e, "update", "put")'
      BY <3>1 DEF Active, At
    <3> QED BY <2>1, <3>1, <3>2 DEF Serial
  <2>3. CASE CreatePut(c)
    <3>1. PICK d \in Docs :
            /\ ~Exists(d)
            /\ Put(d, [ batch |-> call[c].req.batch, status |-> "UPLOADED", stage |-> "",
                        key |-> call[c].req.key, malware |-> FALSE,
                        by |-> "resolver", base |-> 0 ])
      BY <2>3 DEF CreatePut
    <3>2. StatusOf' = [StatusOf EXCEPT ![d] = "UPLOADED"]
      <4> DEFINE row == [ batch |-> call[c].req.batch, status |-> "UPLOADED", stage |-> "",
                          key |-> call[c].req.key, malware |-> FALSE,
                          by |-> "resolver", base |-> 0 ]
      <4>1. Put(d, row) /\ TableTypeOK
        BY <3>1 DEF Serial, ResolverInv
      <4>2. row.status = "UPLOADED"
        OBVIOUS
      <4> HIDE DEF row
      <4>3. StatusOf' = [StatusOf EXCEPT ![d] = row.status]
        BY <4>1, PutMoves
      <4> QED BY <4>2, <4>3
    <3>3. StatusOf[d] = "none"
      BY <3>1 DEF StatusOf
    <3>4. Machine!Create(d)
      BY <3>2, <3>3 DEF Machine!Create, StatusOf
    <3> QED BY <2>2, <3>4 DEF Machine!Next
  <2>4. CASE UpdatePut(c)
    <3>1. At(c, "update", "put")
      BY <2>4 DEF UpdatePut
    <3>2. call[c].req \in UpdateRequestType
      BY <3>1, ResolverAssumption DEF At, Serial, ResolverInv, CallInv, Requests, CreateRequestType
    <3>3. PICK d \in Docs, b \in Nat :
            /\ d = call[c].doc /\ b = call[c].base /\ b \in 1..Len(log[d]) /\ b = Len(log[d])
            /\ legalTransition(log[d][b].status, call[c].req.to)
      BY <3>1, <3>2 DEF Serial, ResolverInv, CallInv, UpdateRequestType
    <3>4. log[d] \in Seq(Version) /\ log[d][b] \in Version
      BY <3>3 DEF Serial, ResolverInv, TableTypeOK
    <3>5. PICK row : Put(d, row) /\ row.status = call[c].req.to
      <4> DEFINE row == [log[d][b] EXCEPT !.status = call[c].req.to, !.stage = call[c].req.stage,
                                          !.key = call[c].req.key, !.by = "resolver", !.base = b]
      <4>1. Put(d, row)
        BY <2>4, <3>3 DEF UpdatePut
      <4>2. row.status = call[c].req.to
        BY <3>4 DEF Version
      <4> QED BY <4>1, <4>2
    <3>6. StatusOf' = [StatusOf EXCEPT ![d] = call[c].req.to]
      <4>1. StatusOf' = [StatusOf EXCEPT ![d] = row.status]
        BY <3>5, PutMoves DEF Serial, ResolverInv
      <4> QED BY <3>5, <4>1
    <3>7. StatusOf[d] = log[d][b].status /\ log[d][b].status \in Status
      BY <3>3, <3>4 DEF StatusOf, Exists, Current, Version
    <3>8. CASE call[c].req.to = "FAILED" /\ StatusOf[d] \in Machine!Steps \ {"COMPLETED"}
      <4>1. Machine!Fail(d)
        BY <3>6, <3>8 DEF Machine!Fail, StatusOf
      <4> QED BY <2>2, <4>1 DEF Machine!Next
    <3>9. CASE \E i \in 1..5 : \E j \in i..5 :
                 StatusOf[d] = Machine!HappyPath[i] /\ call[c].req.to = Machine!HappyPath[j]
      <4>1. PICK i \in 1..5, j \in 1..5 :
              j \in i..5 /\ StatusOf[d] = Machine!HappyPath[i] /\ call[c].req.to = Machine!HappyPath[j]
        BY <3>9
      <4>2. DOMAIN Machine!HappyPath = 1..5 /\ Len(Machine!HappyPath) = 5
        BY DEF Machine!HappyPath
      <4>3. StatusOf' = [StatusOf EXCEPT ![d] = Machine!HappyPath[j]]
        BY <3>6, <4>1
      <4>4. Machine!Advance(d)
        BY <4>1, <4>2, <4>3 DEF Machine!Advance, StatusOf
      <4> QED BY <2>2, <4>4 DEF Machine!Next
    <3> QED BY <3>3, <3>7, <3>8, <3>9, LegalMoves
  <2>5. CASE ~(CreatePut(c) \/ UpdatePut(c))
    <3>1. UNCHANGED log
      BY <1>1, <2>5 DEF ResolverStep, Begin, CreateFindHit, CreateFindMiss, CreateReturn, UpdateFindHit,
                  UpdateFindMiss, UpdateGet, UpdateReject, UpdateReturn, Abandon, tableVars
    <3> QED BY <2>2, <3>1, StatusKeeps
  <2> QED BY <2>3, <2>4, <2>5
<1>2. CASE \/ \E d \in Docs : Replicate(d) /\ UNCHANGED resolverVars
           \/ UNCHANGED <<tableVars, resolverVars>>
  <2>1. UNCHANGED log /\ UNCHANGED <<call, replies, announced>>
    BY <1>2 DEF Replicate, tableVars, resolverVars
  <2>2. TableTypeOK'
    <3>1. CASE UNCHANGED indexed
      BY <2>1, <3>1 DEF Serial, ResolverInv, TableTypeOK
    <3>2. CASE \E d \in Docs : Replicate(d)
      BY <3>2 DEF Replicate, Serial, ResolverInv, TableTypeOK, Current
    <3> QED BY <1>2, <3>1, <3>2 DEF tableVars
  <2>3. ResolverTypeOK' /\ LogInv' /\ CallInv'
    BY <2>1 DEF Serial, ResolverInv, ResolverTypeOK, LogInv, CallInv, At, Legal
  <2>4. Serial'
    BY <2>1, <2>2, <2>3 DEF Serial, ResolverInv, Active, At
  <2> QED BY <2>1, <2>4, StatusKeeps
<1> QED BY <1>1, <1>2 DEF ResolverNext

\* However calls are abandoned, keys replayed and the index lags: while the
\* resolver serves one call at a time, and nobody else writes the table, a
\* document's status moves as its tests describe (legalTransition, updateStatus).
THEOREM SerialResolverIsTheMachine ==
  ASSUME Concurrency = 1
  PROVE  ResolverSpec => SerialMachine
<1>1. ResolverStart => Serial /\ Machine!Init
  BY InitSerial
<1>2. Serial /\ [ResolverNext]_<<tableVars, resolverVars>> => Serial' /\ [Machine!Next]_StatusOf
  BY SerialNext
<1> QED BY <1>1, <1>2, PTL DEF ResolverSpec, SerialMachine, Machine!Spec, StatusOf
=============================================================================
