----------------------------- MODULE BrowserProofs -----------------------------
(***************************************************************************)
(* The two pages of the web module: what the cards of the upload view show *)
(* for every number of files, and that the dashboard's notifications name  *)
(* every outage it saw, for every roster of services and every clock.      *)
(***************************************************************************)
EXTENDS UploadView, MonitorDashboard, Inductions

StageStatus == {"PENDING", "RUNNING", "DONE", "SKIPPED", "FAILED"}
Outputs == SUBSET {"pdf", "metadata", "ocr-text"}

Card == [type: FileTypes \cup {"none"}, stage: Stage \cup {"none"},
         status: [Stage -> StageStatus], outputs: Outputs, error: BOOLEAN]
Run == [at: 0..7, asleep: BOOLEAN, type: FileTypes \cup {"none"}]

UploadTypeOK ==
  /\ docs \in [Docs -> Card] /\ runs \in [Docs -> Run]
  /\ told \subseteq Docs
  /\ \A d \in Docs : runs[d].at = 0 => runs[d] = NoRun

Shown(d) == docs[d] # NotShown

\* A card, up to the stage its pipeline has reached.
UpTo(d, k) ==
  \A i \in 1..7 : /\ i < k => docs[d].status[STAGES[i]] \in {"DONE", "SKIPPED"}
                  /\ i > k => docs[d].status[STAGES[i]] = "PENDING"

\* The card of a pipeline that runs.
UnderWay(d) ==
  /\ UpTo(d, runs[d].at)
  /\ docs[d].status[At(d)] = IF runs[d].asleep THEN "RUNNING" ELSE "PENDING"
  /\ docs[d].outputs = {} /\ ~docs[d].error /\ docs[d].stage # "completed"
  /\ docs[d].type # "none"

\* The card of one that has ended: completed, failed, or its file unreadable.
Settled(d) ==
  \/ /\ UpTo(d, 7) /\ docs[d].status["completed"] = "DONE"
     /\ docs[d].outputs # {} /\ ~docs[d].error
  \/ /\ \E k \in 1..6 : UpTo(d, k) /\ docs[d].status[STAGES[k]] = "FAILED"
     /\ docs[d].outputs = {} /\ docs[d].error /\ d \in told /\ docs[d].stage # "completed"
  \/ /\ UpTo(d, 7) /\ docs[d].status["completed"] = "PENDING"
     /\ docs[d].outputs = {} /\ ~docs[d].error /\ docs[d].stage # "completed"

CardInv(d) ==
  /\ runs[d].asleep => runs[d].at \in 1..6
  /\ Shown(d) => IF runs[d].at # 0 THEN UnderWay(d) ELSE Settled(d)

UploadInv == UploadTypeOK /\ \A d \in Docs : CardInv(d)
-----------------------------------------------------------------------------
LEMMA StagesInOrder ==
  /\ DOMAIN STAGES = 1..7
  /\ Stage = {STAGES[i] : i \in 1..7}
  /\ \A i \in 1..7 : STAGES[i] \in Stage
  /\ \A i, j \in 1..7 : STAGES[i] = STAGES[j] => i = j
  /\ \A i \in 1..7 : STAGES[i] = "completed" <=> i = 7
<1>2. DOMAIN STAGES = 1..7
  BY DEF STAGES
<1>3. /\ STAGES[1] = "received" /\ STAGES[2] = "classification" /\ STAGES[3] = "extraction"
      /\ STAGES[4] = "conversion" /\ STAGES[5] = "ocr" /\ STAGES[6] = "assembly" /\ STAGES[7] = "completed"
  BY DEF STAGES
<1>4. \A i \in 1..7 : i = 1 \/ i = 2 \/ i = 3 \/ i = 4 \/ i = 5 \/ i = 6 \/ i = 7
  OBVIOUS
<1> HIDE DEF STAGES
<1> QED BY <1>2, <1>3, <1>4 DEF Stage

LEMMA UploadInitInv == UploadInit => UploadInv
  BY StagesInOrder DEF UploadInit, UploadInv, UploadTypeOK, CardInv, Shown, NoRun, NotShown,
     initialStageStatus, StageStatus, Outputs, Card, Run

\* The other cards, and their pipelines, stay as they are.
LEMMA OthersKeep ==
  ASSUME UploadInv, NEW d \in Docs, NEW e \in Docs, e # d,
         docs'[e] = docs[e], runs'[e] = runs[e], told \subseteq told'
  PROVE  CardInv(e)'
<1> HIDE DEF STAGES
<1> QED
  BY DEF UploadInv, CardInv, Shown, UnderWay, Settled, UpTo, At

\* One pipeline's step changes its own card, if that is shown, and its run.
LEMMA StepChanges ==
  ASSUME UploadTypeOK, NEW d \in Docs, NEW patched, docs' = patchDoc(d, patched), Shown(d) => patched # NotShown
  PROVE  /\ docs'[d] = IF Shown(d) THEN patched ELSE NotShown
         /\ \A e \in Docs : e # d => docs'[e] = docs[e]
         /\ Shown(d)' <=> Shown(d)
  BY DEF patchDoc, Shown, UploadTypeOK

LEMMA OneCardChanges ==
  ASSUME UploadInv, NEW d \in Docs, \A e \in Docs : e # d => docs'[e] = docs[e] /\ runs'[e] = runs[e],
         told \subseteq told', UploadTypeOK', CardInv(d)'
  PROVE  UploadInv'
<1>1. ASSUME NEW e \in Docs, e # d PROVE CardInv(e)'
  BY <1>1, OthersKeep
<1> QED BY <1>1 DEF UploadInv

\* The status of the stage a pipeline is at changes, no other.
LEMMA StatusChanges ==
  ASSUME NEW d \in Docs, UploadTypeOK, NEW k \in 1..7, NEW v \in StageStatus,
         docs'[d].status = [docs[d].status EXCEPT ![STAGES[k]] = v], UpTo(d, k)
  PROVE  /\ docs'[d].status[STAGES[k]] = v
         /\ \A i \in 1..7 : i # k => docs'[d].status[STAGES[i]] = docs[d].status[STAGES[i]]
         /\ UpTo(d, k)'
         /\ k < 7 /\ v \in {"DONE", "SKIPPED"} => UpTo(d, k + 1)' /\ docs'[d].status[STAGES[k + 1]] = "PENDING"
<1>1. docs[d].status \in [Stage -> StageStatus]
  BY DEF UploadTypeOK, Card
<1>2. docs'[d].status[STAGES[k]] = v
  BY <1>1, StagesInOrder
<1>3. \A i \in 1..7 : i # k => docs'[d].status[STAGES[i]] = docs[d].status[STAGES[i]]
  BY <1>1, StagesInOrder
<1> HIDE DEF STAGES
<1>4. UpTo(d, k)'
  BY <1>3 DEF UpTo
<1>5. ASSUME k < 7, v \in {"DONE", "SKIPPED"}
      PROVE  UpTo(d, k + 1)' /\ docs'[d].status[STAGES[k + 1]] = "PENDING"
  BY <1>2, <1>3, <1>5 DEF UpTo
<1> QED BY <1>2, <1>3, <1>4, <1>5

\* A step of a pipeline keeps the invariant when its card, if it is shown, comes
\* to what the run comes to.
LEMMA PatchKeeps ==
  ASSUME UploadInv, NEW d \in Docs, NEW patched \in Card, NEW run \in Run,
         run.at = 0 => run = NoRun, run.asleep => run.at \in 1..6, runs[d].at # 0,
         docs' = patchDoc(d, patched), runs' = [runs EXCEPT ![d] = run],
         told \subseteq told', told' \subseteq Docs, patched.type = docs[d].type,
         run.at # 0 /\ UnderWay(d) /\ docs'[d] = patched /\ runs'[d] = run => UnderWay(d)',
         run.at = 0 /\ UnderWay(d) /\ docs'[d] = patched => Settled(d)'
  PROVE  UploadInv'
<1> USE DEF UploadInv
<1>1. runs'[d] = run /\ \A e \in Docs : e # d => runs'[e] = runs[e]
  BY DEF UploadTypeOK
<1>2. Shown(d) => UnderWay(d)
  BY DEF CardInv
<1>3. Shown(d) => patched # NotShown
  BY <1>2 DEF UnderWay, NotShown
<1>4. UploadTypeOK'
  BY <1>1 DEF UploadTypeOK, patchDoc
<1>5. CardInv(d)'
  BY <1>1, <1>2, <1>3, StepChanges DEF CardInv
<1> QED BY <1>1, <1>3, <1>4, <1>5, StepChanges, OneCardChanges

LEMMA SkipKeeps == ASSUME UploadInv, NEW d \in Docs, SkipStage(d) PROVE UploadInv'
<1>1. UploadTypeOK /\ runs[d] \in Run /\ docs[d] \in Card
  BY DEF UploadInv, UploadTypeOK
<1>2. PICK k \in 1..6 : k = runs[d].at /\ ~runs[d].asleep /\ At(d) = STAGES[k]
  <2>1. runs[d].at \in 1..7 /\ ~runs[d].asleep
    BY <1>1 DEF SkipStage, Awake, Run
  <2>2. At(d) # "completed"
    BY DEF SkipStage, stageRelevant
  <2> QED BY <2>1, <2>2, StagesInOrder DEF At
<1> DEFINE st == [docs[d].status EXCEPT ![STAGES[k]] = "SKIPPED"]
           patched == [docs[d] EXCEPT !.status = st]
           run == [runs[d] EXCEPT !.at = k + 1]
<1>3. docs' = patchDoc(d, patched) /\ runs' = [runs EXCEPT ![d] = run] /\ told' = told
  BY <1>2 DEF SkipStage
<1>4. st \in [Stage -> StageStatus]
  BY <1>1, StagesInOrder DEF Card, StageStatus
<1>5. run \in Run /\ run.at = k + 1 /\ ~run.asleep
  BY <1>1, <1>2 DEF Run
<1>6. patched \in Card
  <2> HIDE DEF st, StageStatus, Outputs, Stage
  <2> QED BY <1>1, <1>4 DEF Card
<1>7. /\ patched.status = [docs[d].status EXCEPT ![STAGES[k]] = "SKIPPED"] /\ patched.type = docs[d].type
      /\ patched.stage = docs[d].stage /\ patched.outputs = docs[d].outputs /\ patched.error = docs[d].error
  BY <1>1 DEF Card
<1> HIDE DEF st, patched, run
<1>8. ASSUME UnderWay(d), docs'[d] = patched, runs'[d] = run PROVE UnderWay(d)'
  <2>1. UpTo(d, k + 1)' /\ docs'[d].status[STAGES[k + 1]] = "PENDING"
    <3>1. k \in 1..7 /\ k < 7 /\ "SKIPPED" \in StageStatus /\ UpTo(d, k)
      BY <1>2, <1>8 DEF StageStatus, UnderWay
    <3> QED BY <1>1, <1>7, <1>8, <3>1, StatusChanges
  <2> QED BY <1>5, <1>7, <1>8, <2>1 DEF UnderWay, At
<1>9. told \subseteq told' /\ told' \subseteq Docs /\ runs[d].at # 0 /\ run.at # 0
  BY <1>1, <1>2, <1>3, <1>5 DEF UploadTypeOK
<1> QED BY <1>3, <1>5, <1>6, <1>7, <1>8, <1>9, PatchKeeps

LEMMA StartKeeps == ASSUME UploadInv, NEW d \in Docs, StartStage(d) PROVE UploadInv'
<1>1. UploadTypeOK /\ runs[d] \in Run /\ docs[d] \in Card
  BY DEF UploadInv, UploadTypeOK
<1>2. PICK k \in 1..6 : k = runs[d].at /\ ~runs[d].asleep /\ At(d) = STAGES[k]
  <2>1. runs[d].at \in 1..7 /\ ~runs[d].asleep /\ At(d) # "completed"
    BY <1>1 DEF StartStage, Awake, Run
  <2> QED BY <2>1, StagesInOrder DEF At
<1> DEFINE st == [docs[d].status EXCEPT ![STAGES[k]] = "RUNNING"]
           patched == [docs[d] EXCEPT !.stage = STAGES[k], !.status = st]
           run == [runs[d] EXCEPT !.asleep = TRUE]
<1>3. docs' = patchDoc(d, patched) /\ runs' = [runs EXCEPT ![d] = run] /\ told' = told
  BY <1>2 DEF StartStage
<1>4. st \in [Stage -> StageStatus]
  BY <1>1, StagesInOrder DEF Card, StageStatus
<1>5. run \in Run /\ run.at = k /\ run.asleep
  BY <1>1, <1>2 DEF Run
<1>6. STAGES[k] # "completed" /\ STAGES[k] \in Stage
  BY StagesInOrder
<1>7. patched \in Card
  <2> HIDE DEF st, STAGES, StageStatus, Outputs, Stage
  <2> QED BY <1>1, <1>4, <1>6 DEF Card
<1>8. /\ patched.status = [docs[d].status EXCEPT ![STAGES[k]] = "RUNNING"] /\ patched.type = docs[d].type
      /\ patched.stage = STAGES[k] /\ patched.outputs = docs[d].outputs /\ patched.error = docs[d].error
  BY <1>1 DEF Card
<1> HIDE DEF st, patched, run
<1>9. ASSUME UnderWay(d), docs'[d] = patched, runs'[d] = run PROVE UnderWay(d)'
  <2>1. UpTo(d, k)' /\ docs'[d].status[STAGES[k]] = "RUNNING"
    <3>1. k \in 1..7 /\ "RUNNING" \in StageStatus /\ UpTo(d, k)
      BY <1>2, <1>9 DEF StageStatus, UnderWay
    <3> QED BY <1>1, <1>8, <1>9, <3>1, StatusChanges
  <2> QED BY <1>5, <1>6, <1>8, <1>9, <2>1 DEF UnderWay, At
<1>10. told \subseteq told' /\ told' \subseteq Docs /\ runs[d].at # 0 /\ run.at # 0
  BY <1>1, <1>2, <1>3, <1>5 DEF UploadTypeOK
<1> QED BY <1>2, <1>3, <1>5, <1>7, <1>8, <1>9, <1>10, PatchKeeps

LEMMA FinishKeeps == ASSUME UploadInv, NEW d \in Docs, FinishStage(d) PROVE UploadInv'
<1>1. UploadTypeOK /\ runs[d] \in Run /\ docs[d] \in Card
  BY DEF UploadInv, UploadTypeOK
<1>2. PICK k \in 1..6 : k = runs[d].at /\ At(d) = STAGES[k]
  BY DEF FinishStage, UploadInv, CardInv, At
<1> DEFINE st == [docs[d].status EXCEPT ![STAGES[k]] = "DONE"]
           patched == [docs[d] EXCEPT !.status = st]
           run == [runs[d] EXCEPT !.at = k + 1, !.asleep = FALSE]
<1>3. docs' = patchDoc(d, patched) /\ runs' = [runs EXCEPT ![d] = run] /\ told' = told
  BY <1>2 DEF FinishStage
<1>4. st \in [Stage -> StageStatus]
  BY <1>1, StagesInOrder DEF Card, StageStatus
<1>5. run \in Run /\ run.at = k + 1 /\ ~run.asleep
  <2>1. k + 1 \in 0..7 /\ FALSE \in BOOLEAN
    OBVIOUS
  <2>2. ASSUME NEW n \in 0..7, NEW b \in BOOLEAN
        PROVE  /\ [runs[d] EXCEPT !.at = n, !.asleep = b] \in Run
               /\ [runs[d] EXCEPT !.at = n, !.asleep = b].at = n
               /\ [runs[d] EXCEPT !.at = n, !.asleep = b].asleep = b
    BY <1>1 DEF Run
  <2> QED BY <2>1, <2>2
<1>6. patched \in Card
  <2> HIDE DEF st, StageStatus, Outputs, Stage
  <2> QED BY <1>1, <1>4 DEF Card
<1>7. /\ patched.status = [docs[d].status EXCEPT ![STAGES[k]] = "DONE"] /\ patched.type = docs[d].type
      /\ patched.stage = docs[d].stage /\ patched.outputs = docs[d].outputs /\ patched.error = docs[d].error
  BY <1>1 DEF Card
<1> HIDE DEF st, patched, run
<1>8. ASSUME UnderWay(d), docs'[d] = patched, runs'[d] = run PROVE UnderWay(d)'
  <2>1. UpTo(d, k + 1)' /\ docs'[d].status[STAGES[k + 1]] = "PENDING"
    <3>1. k \in 1..7 /\ k < 7 /\ "DONE" \in StageStatus /\ UpTo(d, k)
      BY <1>2, <1>8 DEF StageStatus, UnderWay
    <3> QED BY <1>1, <1>7, <1>8, <3>1, StatusChanges
  <2> QED BY <1>5, <1>7, <1>8, <2>1 DEF UnderWay, At
<1>9. told \subseteq told' /\ told' \subseteq Docs /\ runs[d].at # 0 /\ run.at # 0
  BY <1>1, <1>2, <1>3, <1>5 DEF UploadTypeOK
<1> QED BY <1>3, <1>5, <1>6, <1>7, <1>8, <1>9, PatchKeeps

LEMMA FailKeeps == ASSUME UploadInv, NEW d \in Docs, FailStage(d) PROVE UploadInv'
<1>1. UploadTypeOK /\ runs[d] \in Run /\ docs[d] \in Card
  BY DEF UploadInv, UploadTypeOK
<1>2. PICK k \in 1..6 : k = runs[d].at /\ At(d) = STAGES[k]
  BY DEF FailStage, UploadInv, CardInv, At
<1> DEFINE st == [docs[d].status EXCEPT ![STAGES[k]] = "FAILED"]
           patched == [docs[d] EXCEPT !.stage = STAGES[k], !.status = st, !.error = TRUE]
<1>3. docs' = patchDoc(d, patched) /\ runs' = [runs EXCEPT ![d] = NoRun] /\ told' = told \cup {d}
  BY <1>2 DEF FailStage
<1>4. st \in [Stage -> StageStatus]
  BY <1>1, StagesInOrder DEF Card, StageStatus
<1>5. NoRun \in Run /\ NoRun.at = 0 /\ ~NoRun.asleep
  BY DEF Run, NoRun
<1>6. STAGES[k] # "completed" /\ STAGES[k] \in Stage
  BY StagesInOrder
<1>7. patched \in Card
  <2> HIDE DEF st, STAGES, StageStatus, Outputs, Stage
  <2> QED BY <1>1, <1>4, <1>6 DEF Card
<1>8. /\ patched.status = [docs[d].status EXCEPT ![STAGES[k]] = "FAILED"] /\ patched.type = docs[d].type
      /\ patched.stage = STAGES[k] /\ patched.outputs = docs[d].outputs /\ patched.error
  BY <1>1 DEF Card
<1> HIDE DEF st, patched
<1>9. ASSUME UnderWay(d), docs'[d] = patched PROVE Settled(d)'
  <2>1. UpTo(d, k)' /\ docs'[d].status[STAGES[k]] = "FAILED"
    <3>1. k \in 1..7 /\ "FAILED" \in StageStatus /\ UpTo(d, k)
      BY <1>2, <1>9 DEF StageStatus, UnderWay
    <3> QED BY <1>1, <1>8, <1>9, <3>1, StatusChanges
  <2> QED BY <1>3, <1>6, <1>8, <1>9, <2>1 DEF UnderWay, Settled
<1>10. told \subseteq told' /\ told' \subseteq Docs /\ runs[d].at # 0
  BY <1>1, <1>2, <1>3 DEF UploadTypeOK
<1> QED BY <1>3, <1>5, <1>7, <1>8, <1>9, <1>10, PatchKeeps

LEMMA RunEnds ==
  ASSUME UploadInv, NEW d \in Docs, NEW readable \in BOOLEAN, FinishRun(d, readable) PROVE UploadInv'
<1>1. UploadTypeOK /\ runs[d] \in Run /\ docs[d] \in Card
  BY DEF UploadInv, UploadTypeOK
<1>2. runs[d].at = 7 /\ At(d) = STAGES[7] /\ ~runs[d].asleep
  <2>1. runs[d].at \in 1..7 /\ ~runs[d].asleep /\ At(d) = "completed"
    BY <1>1 DEF FinishRun, Awake, Run
  <2> QED BY <2>1, StagesInOrder DEF At
<1>3. runs' = [runs EXCEPT ![d] = NoRun] /\ told' = told
  BY DEF FinishRun
<1>4. NoRun \in Run /\ NoRun.at = 0 /\ ~NoRun.asleep
  BY DEF Run, NoRun
<1>5. told \subseteq told' /\ told' \subseteq Docs /\ runs[d].at # 0
  BY <1>1, <1>2, <1>3 DEF UploadTypeOK
<1>6. CASE readable
  <2> DEFINE st == [docs[d].status EXCEPT !["completed"] = "DONE"]
             made == buildOutputs(runs[d].type)
             patched == [docs[d] EXCEPT !.stage = "completed", !.status = st, !.outputs = made]
  <2>1. docs' = patchDoc(d, patched)
    BY <1>6 DEF FinishRun
  <2>2. made \in Outputs /\ made # {}
    BY DEF buildOutputs, Outputs
  <2>3. STAGES[7] = "completed" /\ "completed" \in Stage
    BY StagesInOrder
  <2>4. st \in [Stage -> StageStatus]
    BY <1>1, <2>3 DEF Card, StageStatus
  <2>5. patched \in Card
    <3> HIDE DEF st, made, StageStatus, Outputs, Stage
    <3> QED BY <1>1, <2>2, <2>3, <2>4 DEF Card
  <2>6. /\ patched.status = [docs[d].status EXCEPT ![STAGES[7]] = "DONE"] /\ patched.type = docs[d].type
        /\ patched.outputs # {} /\ patched.error = docs[d].error
    <3> HIDE DEF made
    <3> QED BY <1>1, <2>2, <2>3 DEF Card
  <2> HIDE DEF st, made, patched
  <2>7. ASSUME UnderWay(d), docs'[d] = patched PROVE Settled(d)'
    <3>1. UpTo(d, 7)' /\ docs'[d].status[STAGES[7]] = "DONE"
      <4>1. 7 \in 1..7 /\ "DONE" \in StageStatus /\ UpTo(d, 7)
        BY <1>2, <2>7 DEF StageStatus, UnderWay
      <4> QED BY <1>1, <2>6, <2>7, <4>1, StatusChanges
    <3> QED BY <2>3, <2>6, <2>7, <3>1 DEF UnderWay, Settled
  <2> QED BY <1>3, <1>4, <1>5, <2>1, <2>5, <2>6, <2>7, PatchKeeps
<1>7. CASE ~readable
  <2>1. docs' = docs /\ docs' = patchDoc(d, docs[d])
    BY <1>1, <1>7 DEF FinishRun, patchDoc, UploadTypeOK
  <2>2. STAGES[7] = "completed"
    BY StagesInOrder
  <2>3. UnderWay(d) => Settled(d)'
    BY <1>2, <2>1, <2>2 DEF UnderWay, Settled, UpTo
  <2> QED BY <1>1, <1>3, <1>4, <1>5, <2>1, <2>3, PatchKeeps
<1> QED BY <1>6, <1>7

LEMMA FilesDropped ==
  ASSUME UploadInv, NEW d \in Docs, NEW type \in FileTypes, handleFiles(d, type) PROVE UploadInv'
<1>1. UploadTypeOK /\ runs[d] = NoRun
  BY DEF UploadInv, handleFiles
<1> DEFINE card == [NotShown EXCEPT !.type = type, !.stage = "received"]
           run == [at |-> 1, asleep |-> FALSE, type |-> type]
<1>2. docs' = [docs EXCEPT ![d] = card] /\ runs' = [runs EXCEPT ![d] = run] /\ told' = told
  BY DEF handleFiles
<1>3. card \in Card /\ run \in Run /\ run.at = 1 /\ ~run.asleep
  <2>1. "received" \in Stage /\ initialStageStatus \in [Stage -> StageStatus]
    BY STAGES[1] = "received", StagesInOrder DEF initialStageStatus, StageStatus, STAGES
  <2> HIDE DEF initialStageStatus, Stage, StageStatus
  <2>2. NotShown \in Card
    BY <2>1 DEF Card, Outputs, NotShown
  <2>3. card \in Card
    <3> HIDE DEF NotShown
    <3> QED BY <2>1, <2>2 DEF Card
  <2> QED BY <2>3 DEF Run
<1>4. card.status = initialStageStatus /\ card.type = type /\ card.stage = "received" /\ card.outputs = {} /\ ~card.error
  BY DEF NotShown
<1> HIDE DEF card, run
<1>5. docs'[d] = card /\ runs'[d] = run /\ \A e \in Docs : e # d => docs'[e] = docs[e] /\ runs'[e] = runs[e]
  BY <1>1, <1>2 DEF UploadTypeOK
<1>6. UploadTypeOK'
  BY <1>1, <1>2, <1>3, <1>5 DEF UploadTypeOK
<1>7. \A i \in 1..7 : docs'[d].status[STAGES[i]] = "PENDING"
  BY <1>4, <1>5, StagesInOrder DEF initialStageStatus
<1>8. UnderWay(d)'
  BY <1>3, <1>4, <1>5, <1>7 DEF UnderWay, UpTo, At, FileTypes
<1>9. CardInv(d)'
  BY <1>3, <1>5, <1>8 DEF CardInv
<1> QED BY <1>2, <1>5, <1>6, <1>9, OneCardChanges

\* Every card is that of one run, under way or settled (the steps of runPipeline).
THEOREM UploadInvariant == UploadSpec => []UploadInv
<1>1. UploadInv /\ [UploadNext]_uploadVars => UploadInv'
  <2> SUFFICES ASSUME UploadInv, [UploadNext]_uploadVars PROVE UploadInv'
    OBVIOUS
  <2>1. ASSUME NEW d \in Docs, UploadStep(d) PROVE UploadInv'
    BY <2>1, SkipKeeps, StartKeeps, FinishKeeps, FailKeeps, RunEnds DEF UploadStep
  <2>2. ASSUME NEW d \in Docs, NEW type \in FileTypes, handleFiles(d, type) PROVE UploadInv'
    BY <2>2, FilesDropped
  <2>3. CASE ClearAll
    <3>1. NotShown \in Card
      BY DEF NotShown, Card, initialStageStatus, StageStatus, Outputs
    <3> QED BY <2>3, <3>1 DEF ClearAll, UploadInv, UploadTypeOK, CardInv, Shown
  <2>4. CASE UNCHANGED uploadVars
    <3> HIDE DEF STAGES
    <3> QED BY <2>4 DEF uploadVars, UploadInv, UploadTypeOK, CardInv, Shown, UnderWay, Settled, UpTo, At
  <2> QED BY <2>1, <2>2, <2>3, <2>4 DEF UploadNext
<1> QED BY <1>1, UploadInitInv, PTL DEF UploadSpec

\* A card under way has its stage where the run is; a settled one shows which end it had.
LEMMA CardsOfOneRun == UploadInv => CardsAreCoherent
<1> SUFFICES ASSUME UploadInv, NEW d \in Docs
             PROVE  /\ \A i, j \in 1..7 : i < j /\ docs[d].status[STAGES[j]] # "PENDING"
                                              => docs[d].status[STAGES[i]] \in {"DONE", "SKIPPED"}
                    /\ ~(isDone(d) /\ isFailed(d))
                    /\ isDone(d) <=> docs[d].outputs # {}
                    /\ isFailed(d) <=> docs[d].error
                    /\ isFailed(d) => d \in told
  <2>1. \A d \in Docs, i \in 1..7 : [n \in 1..7 |-> docs[d].status[STAGES[n]]][i] = docs[d].status[STAGES[i]]
    OBVIOUS
  <2> HIDE DEF STAGES
  <2> QED BY StagesInOrder DEF CardsAreCoherent
<1> HIDE DEF STAGES
<1>1. isFailed(d) <=> \E i \in 1..7 : docs[d].status[STAGES[i]] = "FAILED"
  BY StagesInOrder DEF isFailed
<1>2. STAGES[7] = "completed"
  BY StagesInOrder
<1>3. CASE docs[d] = NotShown
  <2>1. \A i \in 1..7 : docs[d].status[STAGES[i]] = "PENDING"
    BY <1>3, StagesInOrder DEF NotShown, initialStageStatus
  <2> QED BY <1>1, <1>2, <1>3, <2>1 DEF NotShown, isDone
<1>4. CASE docs[d] # NotShown /\ runs[d].at # 0
  <2>1. UnderWay(d) /\ runs[d].at \in 1..7 /\ (runs[d].asleep => runs[d].at \in 1..6)
    BY <1>4 DEF UploadInv, UploadTypeOK, CardInv, Shown, Run
  <2>2. PICK k \in 1..7 : k = runs[d].at
    BY <2>1
  <2>3. UpTo(d, k) /\ docs[d].status[STAGES[k]] \in {"PENDING", "RUNNING"}
    BY <2>1, <2>2 DEF UnderWay, At
  <2>4. docs[d].status[STAGES[7]] # "DONE"
    BY <2>3 DEF UpTo
  <2>5. \A i \in 1..7 : docs[d].status[STAGES[i]] # "FAILED"
    BY <2>3 DEF UpTo
  <2>6. \A i, j \in 1..7 : i < j /\ docs[d].status[STAGES[j]] # "PENDING"
                              => docs[d].status[STAGES[i]] \in {"DONE", "SKIPPED"}
    BY <2>3 DEF UpTo
  <2> QED BY <1>1, <1>2, <2>1, <2>4, <2>5, <2>6 DEF UnderWay, isDone
<1>5. CASE docs[d] # NotShown /\ runs[d].at = 0
  <2>1. Settled(d)
    BY <1>5 DEF UploadInv, CardInv, Shown
  <2>2. CASE UpTo(d, 7) /\ docs[d].status["completed"] = "DONE" /\ docs[d].outputs # {} /\ ~docs[d].error
    <3>1. \A i \in 1..7 : docs[d].status[STAGES[i]] \in {"DONE", "SKIPPED"}
      BY <1>2, <2>2 DEF UpTo
    <3> QED BY <1>1, <2>2, <3>1 DEF isDone
  <2>3. ASSUME NEW k \in 1..6, UpTo(d, k), docs[d].status[STAGES[k]] = "FAILED", docs[d].outputs = {},
               docs[d].error, d \in told, docs[d].stage # "completed"
        PROVE  /\ \A i, j \in 1..7 : i < j /\ docs[d].status[STAGES[j]] # "PENDING"
                                         => docs[d].status[STAGES[i]] \in {"DONE", "SKIPPED"}
               /\ isFailed(d) /\ ~isDone(d)
    BY <1>1, <1>2, <2>3 DEF UpTo, isDone
  <2>4. CASE /\ UpTo(d, 7) /\ docs[d].status["completed"] = "PENDING"
             /\ docs[d].outputs = {} /\ ~docs[d].error /\ docs[d].stage # "completed"
    <3>1. \A i \in 1..7 : docs[d].status[STAGES[i]] # "FAILED"
      BY <1>2, <2>4 DEF UpTo
    <3> QED BY <1>1, <1>2, <2>4, <3>1 DEF UpTo, isDone
  <2> QED BY <2>1, <2>2, <2>3, <2>4 DEF Settled
<1> QED BY <1>3, <1>4, <1>5

\* No card shows two runs, two badges, or an end without its outputs or its
\* message, however the list is cleared while pipelines run (UploadView.tsx).
THEOREM CardsStayCoherent == UploadSpec => []CardsAreCoherent
BY UploadInvariant, CardsOfOneRun, PTL
-----------------------------------------------------------------------------
\* The store of notifications.

Note == [key: [source: WatchedUnits \cup {"upload"}, title: States \cup {"failed"}], ts: Nat]
Lists == Seq(Note)

DashboardInv ==
  /\ clock \in Nat /\ items \in Lists /\ stored \in Lists
  /\ owed \subseteq KeysOf(items)

\* A key of the list, after n services of a poll have been looked at, is one of
\* the first n or was listed before; and the first n have theirs.
Looked(n, list, old, next) ==
  /\ \A i \in DOMAIN list : i > n => list[i].key \in old
  /\ \A j \in 1..n : Changed(Watched[j], next) =>
       \/ Key(Watched[j], next[Watched[j]]) \in old
       \/ \E i \in 1..n : i \in DOMAIN list /\ list[i].key = Key(Watched[j], next[Watched[j]])

LEMMA Roster == /\ Len(Watched) \in Nat /\ MAX_KEPT \in Nat /\ MAX_KEPT >= Len(Watched)
                /\ \A j \in 1..Len(Watched) : Watched[j] \in WatchedUnits
                /\ \A u \in WatchedUnits : \E j \in 1..Len(Watched) : Watched[j] = u
<1>1. Watched \in Seq(Range(Watched))
  BY DashboardAssumption
<1>2. DOMAIN Watched = 1..Len(Watched) /\ Len(Watched) \in Nat
  BY <1>1
<1> QED BY <1>1, <1>2, DashboardAssumption DEF WatchedUnits, Range

\* A push puts its notification first, when it is not a repetition.
LEMMA PushedFirst ==
  ASSUME clock \in Nat, NEW list \in Lists, NEW u \in WatchedUnits \cup {"upload"}, NEW t \in States \cup {"failed"}
  PROVE  /\ pushNotification(list, Key(u, t)) \in Lists
         /\ \/ /\ pushNotification(list, Key(u, t)) = list
               /\ \E i \in DOMAIN list : list[i].key = Key(u, t)
            \/ LET new == pushNotification(list, Key(u, t))
               IN /\ Len(new) = IF Len(list) + 1 <= MAX_KEPT THEN Len(list) + 1 ELSE MAX_KEPT
                  /\ Len(new) >= 1 => new[1].key = Key(u, t)
                  /\ \A i \in 2..Len(new) : i - 1 \in 1..Len(list) /\ new[i] = list[i - 1]
<1> DEFINE note == [key |-> Key(u, t), ts |-> clock]
           next == <<note>> \o list
           m == IF Len(next) <= MAX_KEPT THEN Len(next) ELSE MAX_KEPT
<1>1. note \in Note /\ note.key = Key(u, t)
  BY DEF Note, Key
<1>2. list \in Seq(Note)
  BY DEF Lists
<1> HIDE DEF note
<1>3. /\ next \in Seq(Note) /\ Len(next) = Len(list) + 1 /\ next[1] = note
      /\ \A i \in 2..Len(next) : next[i] = list[i - 1]
  BY <1>1, <1>2
<1>4. CASE Duplicate(list, Key(u, t))
  BY <1>2, <1>4 DEF pushNotification, Duplicate, Lists
<1>5. CASE ~Duplicate(list, Key(u, t))
  <2>1. pushNotification(list, Key(u, t)) = SubSeq(next, 1, m)
    BY <1>5 DEF pushNotification, note
  <2>2. Len(list) \in Nat /\ m \in Nat /\ m <= Len(next)
    BY <1>2, <1>3, Roster
  <2> HIDE DEF next
  <2>3. /\ SubSeq(next, 1, m) \in Seq(Note) /\ Len(SubSeq(next, 1, m)) = m
        /\ \A i \in 1..m : SubSeq(next, 1, m)[i] = next[i]
    BY <1>3, <2>2
  <2> QED BY <1>1, <1>2, <1>3, <2>1, <2>2, <2>3 DEF Lists
<1> QED BY <1>4, <1>5

Look(list, u, next) == IF Changed(u, next) THEN pushNotification(list, Key(u, next[u])) ELSE list

LEMMA OneLook ==
  ASSUME clock \in Nat, NEW list \in Lists, NEW n \in Nat, n + 1 <= Len(Watched),
         NEW old, NEW next, Looked(n, list, old, next)
  PROVE  /\ Look(list, Watched[n + 1], next) \in Lists
         /\ Looked(n + 1, Look(list, Watched[n + 1], next), old, next)
<1> DEFINE u == Watched[n + 1]
           new == Look(list, u, next)
<1>1. u \in WatchedUnits /\ n + 1 <= MAX_KEPT /\ MAX_KEPT \in Nat
  BY Roster
<1>2. DOMAIN list = 1..Len(list) /\ Len(list) \in Nat
  BY DEF Lists
<1>3. CASE ~Changed(u, next)
  BY <1>2, <1>3 DEF Look, Looked
<1>4. CASE Changed(u, next)
  <2> DEFINE t == next[u]
  <2>1. t \in States \cup {"failed"} /\ new = pushNotification(list, Key(u, t))
    BY <1>4 DEF Changed, States, Look
  <2>2. u \in WatchedUnits \cup {"upload"}
    BY <1>1
  <2> HIDE DEF new, u, t
  <2>3. new \in Lists
    BY <2>1, <2>2, PushedFirst
  <2>4. CASE new = list /\ \E i \in DOMAIN list : list[i].key = Key(u, t)
    <3>1. PICK i \in DOMAIN list : list[i].key = Key(u, t)
      BY <2>4
    <3>2. Key(u, t) \in old \/ i \in 1..n
      BY <1>2, <3>1 DEF Looked
    <3>3. ASSUME NEW j \in 1..n + 1, Changed(Watched[j], next)
          PROVE  \/ Key(Watched[j], next[Watched[j]]) \in old
                 \/ \E k \in 1..n + 1 : k \in DOMAIN list /\ list[k].key = Key(Watched[j], next[Watched[j]])
      <4>1. CASE j = n + 1
        BY <3>1, <3>2, <4>1 DEF u, t
      <4>2. CASE j \in 1..n
        BY <3>3, <4>2 DEF Looked
      <4> QED BY <4>1, <4>2
    <3>4. \A k \in DOMAIN list : k > n + 1 => list[k].key \in old
      BY <1>2 DEF Looked
    <3>5. Looked(n + 1, list, old, next)
      BY <3>3, <3>4 DEF Looked
    <3> QED BY <2>3, <2>4, <3>5 DEF new, u
  <2>5. CASE /\ Len(new) = IF Len(list) + 1 <= MAX_KEPT THEN Len(list) + 1 ELSE MAX_KEPT
             /\ Len(new) >= 1 => new[1].key = Key(u, t)
             /\ \A i \in 2..Len(new) : i - 1 \in 1..Len(list) /\ new[i] = list[i - 1]
    <3>1. DOMAIN new = 1..Len(new) /\ Len(new) \in Nat /\ Len(new) >= 1
      BY <1>1, <1>2, <2>3, <2>5 DEF Lists
    <3>2. \A i \in DOMAIN new : i > n + 1 => new[i].key \in old
      BY <1>2, <2>5, <3>1 DEF Looked
    <3>3. ASSUME NEW j \in 1..n + 1, Changed(Watched[j], next)
          PROVE  \/ Key(Watched[j], next[Watched[j]]) \in old
                 \/ \E k \in 1..n + 1 : k \in DOMAIN new /\ new[k].key = Key(Watched[j], next[Watched[j]])
      <4>1. CASE j = n + 1
        BY <2>5, <3>1, <4>1 DEF u, t
      <4>2. CASE j \in 1..n /\ Key(Watched[j], next[Watched[j]]) \notin old
        <5>1. PICK k \in 1..n : k \in DOMAIN list /\ list[k].key = Key(Watched[j], next[Watched[j]])
          BY <3>3, <4>2 DEF Looked
        <5>2. k + 1 \in 2..Len(new) /\ (k + 1) - 1 = k
          BY <1>1, <1>2, <2>5, <5>1
        <5>3. new[k + 1] = list[k]
          BY <2>5, <5>2
        <5> QED BY <3>1, <5>1, <5>2, <5>3
      <4> QED BY <4>1, <4>2
    <3>4. Looked(n + 1, new, old, next)
      BY <3>2, <3>3 DEF Looked
    <3> QED BY <2>3, <3>4 DEF new, u
  <2>6. \/ new = list /\ \E i \in DOMAIN list : list[i].key = Key(u, t)
        \/ /\ Len(new) = IF Len(list) + 1 <= MAX_KEPT THEN Len(list) + 1 ELSE MAX_KEPT
           /\ Len(new) >= 1 => new[1].key = Key(u, t)
           /\ \A i \in 2..Len(new) : i - 1 \in 1..Len(list) /\ new[i] = list[i - 1]
    BY <2>1, <2>2, PushedFirst
  <2> QED BY <2>4, <2>5, <2>6
<1> QED BY <1>3, <1>4

\* A poll lists every change it sees, unless it was listed before: the services
\* polled are no more than the store keeps, so a poll pushes out none of its own.
LEMMA PollLists ==
  ASSUME DashboardInv, NEW next
  PROVE  /\ Polled(next) \in Lists
         /\ \A u \in WatchedUnits : Changed(u, next) => Key(u, next[u]) \in KeysOf(items) \cup KeysOf(Polled(next))
<1>0. PICK N \in Nat : N = Len(Watched)
  BY Roster
<1>1. clock \in Nat /\ items \in Lists
  BY DEF DashboardInv
<1> DEFINE Rec(h) == [n \in 0..N |-> IF n = 0 THEN items
                                     ELSE IF Changed(Watched[n], next)
                                     THEN pushNotification(h[n - 1], Key(Watched[n], next[Watched[n]])) ELSE h[n - 1]]
           list == CHOOSE h : h = Rec(h)
<1>2. \E f : f = Rec(f)
  <2> DEFINE F == [z \in (1..N) \X Lists |-> Look(z[2], Watched[z[1]], next)]
  <2>1. ASSUME NEW n \in 1..N, NEW l \in Lists PROVE Look(l, Watched[n], next) \in Lists
    <3>1. Watched[n] \in WatchedUnits
      BY <1>0, Roster
    <3>2. CASE Changed(Watched[n], next)
      <4>1. next[Watched[n]] \in States \cup {"failed"} /\ Watched[n] \in WatchedUnits \cup {"upload"}
        BY <3>1, <3>2 DEF Changed, States
      <4> QED BY <1>1, <3>2, <4>1, PushedFirst DEF Look
    <3> QED BY <3>2 DEF Look
  <2>2. F \in [(1..N) \X Lists -> Lists]
    BY <2>1
  <2>3. \A n \in 1..N, l \in Lists : F[<<n, l>>] = Look(l, Watched[n], next)
    OBVIOUS
  <2> HIDE DEF F
  <2>4. PICK f \in [0..N -> Lists] : Iterates(f, N, items, F)
    BY <1>1, <2>2, Iteration
  <2>5. ASSUME NEW n \in 0..N PROVE f[n] = Rec(f)[n]
    <3>1. CASE n = 0
      BY <2>4, <3>1 DEF Iterates
    <3>2. CASE n \in 1..N
      <4>1. n - 1 \in 0..N /\ f[n - 1] \in Lists
        BY <2>4, <3>2
      <4>2. f[n] = Look(f[n - 1], Watched[n], next)
        BY <2>3, <2>4, <3>2, <4>1 DEF Iterates
      <4> QED BY <3>2, <4>2 DEF Look
    <3> QED BY <3>1, <3>2
  <2>6. f = Rec(f)
    <3>1. f = [n \in 0..N |-> f[n]]
      BY <2>4
    <3> QED BY <2>5, <3>1
  <2> QED BY <2>6
<1>3. list = Rec(list)
  BY <1>2
<1>4. Polled(next) = list[N]
  BY <1>0 DEF Polled
<1> HIDE DEF list
<1>5. list[0] = items /\ \A n \in 1..N : list[n] = Look(list[n - 1], Watched[n], next)
  BY <1>3 DEF Look
<1> DEFINE Fine(n) == list[n] \in Lists /\ Looked(n, list[n], KeysOf(items), next)
           T == {n \in Nat : n <= N => Fine(n)}
<1>6. 0 \in T
  <2>1. Looked(0, items, KeysOf(items), next)
    BY DEF Looked, KeysOf
  <2> QED BY <1>1, <1>5, <2>1
<1>7. ASSUME NEW n \in Nat, n \in T PROVE n + 1 \in T
  <2> SUFFICES ASSUME n + 1 <= N PROVE Fine(n + 1)
    OBVIOUS
  <2>1. Fine(n)
    <3> HIDE DEF Fine
    <3> QED BY <1>7
  <2>2. list[n + 1] = Look(list[n], Watched[n + 1], next)
    <3>1. n + 1 \in 1..N /\ (n + 1) - 1 = n
      OBVIOUS
    <3> QED BY <1>5, <3>1
  <2> QED BY <1>0, <1>1, <2>1, <2>2, OneLook
<1>8. Fine(N)
  <2> HIDE DEF Fine
  <2>1. N \in T
    <3> HIDE DEF T
    <3> QED BY <1>6, <1>7, NatInductive
  <2> QED BY <2>1
<1>9. ASSUME NEW u \in WatchedUnits, Changed(u, next) PROVE Key(u, next[u]) \in KeysOf(items) \cup KeysOf(list[N])
  <2>1. PICK j \in 1..N : Watched[j] = u
    BY <1>0, Roster
  <2> QED BY <1>8, <1>9, <2>1 DEF Looked, KeysOf
<1> QED BY <1>4, <1>8, <1>9

LEMMA LoadedIsAList == ASSUME DashboardInv PROVE loadFromStorage \in Lists
<1>1. PICK N \in Nat : N = Len(stored)
  BY DEF DashboardInv, Lists
<1>2. \A n \in 1..N : stored[n] \in Note
  BY <1>1 DEF DashboardInv, Lists
<1> DEFINE Rec(h) == [n \in 0..N |-> IF n = 0 THEN <<>>
                                     ELSE IF clock - stored[n].ts <= KeepFor THEN Append(h[n - 1], stored[n]) ELSE h[n - 1]]
           kept == CHOOSE h : h = Rec(h)
           Step(n, l) == IF clock - stored[n].ts <= KeepFor THEN Append(l, stored[n]) ELSE l
           F == [z \in (1..N) \X Lists |-> Step(z[1], z[2])]
<1>3. <<>> \in Lists
  BY DEF Lists
<1>4. F \in [(1..N) \X Lists -> Lists] /\ \A n \in 1..N, l \in Lists : F[<<n, l>>] = Step(n, l)
  BY <1>2 DEF Lists
<1> HIDE DEF F
<1>5. PICK f \in [0..N -> Lists] : Iterates(f, N, <<>>, F)
  BY <1>3, <1>4, Iteration
<1>6. ASSUME NEW n \in 0..N PROVE f[n] = Rec(f)[n]
  <2>1. CASE n = 0
    BY <1>5, <2>1 DEF Iterates
  <2>2. CASE n \in 1..N
    <3>1. n - 1 \in 0..N /\ f[n - 1] \in Lists
      BY <1>5, <2>2
    <3> QED BY <1>4, <1>5, <2>2, <3>1 DEF Iterates
  <2> QED BY <2>1, <2>2
<1>7. f = Rec(f)
  <2>1. f = [n \in 0..N |-> f[n]]
    BY <1>5
  <2> QED BY <1>6, <2>1
<1>8. kept = Rec(kept)
  BY <1>7
<1>9. loadFromStorage = kept[N]
  BY <1>1 DEF loadFromStorage
<1> HIDE DEF kept
<1>10. kept[0] = <<>> /\ \A n \in 1..N : kept[n] = Step(n, kept[n - 1])
  <2>1. kept[0] = Rec(kept)[0] /\ \A n \in 1..N : kept[n] = Rec(kept)[n]
    BY <1>8
  <2>2. \A n \in 1..N : Rec(kept)[n] = Step(n, kept[n - 1])
    OBVIOUS
  <2>3. Rec(kept)[0] = <<>>
    OBVIOUS
  <2> HIDE DEF Rec, Step
  <2> QED BY <2>1, <2>2, <2>3
<1> DEFINE T == {n \in Nat : n <= N => kept[n] \in Lists}
<1>11. 0 \in T
  BY <1>3, <1>10
<1>12. ASSUME NEW n \in Nat, n \in T PROVE n + 1 \in T
  <2> SUFFICES ASSUME n + 1 <= N PROVE kept[n + 1] \in Lists
    OBVIOUS
  <2>1. kept[n] \in Lists /\ n + 1 \in 1..N /\ (n + 1) - 1 = n
    BY <1>12
  <2>2. kept[n + 1] = Step(n + 1, kept[n])
    BY <1>10, <2>1
  <2> QED BY <1>2, <2>1, <2>2 DEF Lists
<1>13. N \in T
  <2> HIDE DEF T
  <2> QED BY <1>11, <1>12, NatInductive
<1> QED BY <1>9, <1>13

\* Whatever the list becomes, what is owed stays listed when the new claims are.
LEMMA KeepKeeps ==
  ASSUME DashboardInv, NEW list \in Lists, NEW seen, seen \subseteq KeysOf(items) \cup KeysOf(list),
         Keep(list, seen), clock' = clock
  PROVE  DashboardInv'
<1>1. items' = list /\ stored' = list /\ owed' = (owed \cup seen) \ (KeysOf(items) \ KeysOf(list))
  BY DEF Keep
<1>2. owed' \subseteq KeysOf(list)
  BY <1>1 DEF DashboardInv
<1>3. KeysOf(items)' = KeysOf(list)
  BY <1>1 DEF KeysOf
<1> QED BY <1>1, <1>2, <1>3 DEF DashboardInv, Note, Lists, WatchedUnits

\* Polls, pushes, dismissals, reloads and the writes of other tabs keep the
\* claims of RefreshTick in the list.
THEOREM DashboardInvariant == DashboardSpec => []DashboardInv
<1>1. DashboardInit => DashboardInv
  BY DEF DashboardInit, DashboardInv, Lists, KeysOf
<1>2. DashboardInv /\ [DashboardNext]_dashboardVars => DashboardInv'
  <2> SUFFICES ASSUME DashboardInv, [DashboardNext]_dashboardVars PROVE DashboardInv'
    OBVIOUS
  <2>0. clock \in Nat /\ items \in Lists /\ stored \in Lists /\ owed \subseteq KeysOf(items) /\ <<>> \in Lists
    BY DEF DashboardInv, Lists
  <2>1. ASSUME NEW next, RefreshTick(next) PROVE DashboardInv'
    <3> DEFINE seen == {Key(u, next[u]) : u \in {v \in WatchedUnits : Changed(v, next)}}
    <3>1. Polled(next) \in Lists /\ seen \subseteq KeysOf(items) \cup KeysOf(Polled(next))
      BY PollLists
    <3>2. CASE Polled(next) # items
      <4>1. Keep(Polled(next), seen) /\ clock' = clock
        BY <2>1, <3>2 DEF RefreshTick
      <4> HIDE DEF seen
      <4> QED BY <3>1, <4>1, KeepKeeps
    <3>3. CASE Polled(next) = items
      <4>1. owed' = owed \cup seen /\ UNCHANGED <<items, stored, clock>>
        BY <2>1, <3>3 DEF RefreshTick
      <4> HIDE DEF seen
      <4> QED BY <2>0, <3>1, <3>3, <4>1 DEF DashboardInv, KeysOf, Lists, Note, WatchedUnits
    <3> QED BY <3>2, <3>3
  <2>2. ASSUME UploadFails PROVE DashboardInv'
    <3> DEFINE list == pushNotification(items, Key("upload", "failed"))
    <3>1. list \in Lists
      BY <2>0, PushedFirst
    <3>2. CASE list # items
      <4>1. Keep(list, {}) /\ clock' = clock
        BY <2>2, <3>2 DEF UploadFails
      <4> HIDE DEF list
      <4> QED BY <3>1, <4>1, KeepKeeps
    <3>3. CASE list = items
      BY <2>0, <2>2, <3>3 DEF UploadFails, DashboardInv, KeysOf, Lists, Note, WatchedUnits
    <3> QED BY <3>2, <3>3
  <2>3. CASE clearAll
    BY <2>0, <2>3, KeepKeeps DEF clearAll
  <2>4. CASE markAllRead
    BY <2>0, <2>4, KeepKeeps DEF markAllRead
  <2>5. CASE Reload
    <3>1. loadFromStorage \in Lists
      BY LoadedIsAList
    <3> QED BY <2>0, <2>5, <3>1 DEF Reload, DashboardInv, KeysOf, Lists, Note, WatchedUnits
  <2>6. CASE TimePasses
    BY <2>0, <2>6 DEF TimePasses, DashboardInv, KeysOf, Lists, Note, WatchedUnits
  <2>7. ASSUME NEW i \in DOMAIN items, dismiss(i) PROVE DashboardInv'
    <3>1. RemoveAt(items, i) \in Lists
      <4>1. items \in Seq(Note) /\ i \in 1..Len(items) /\ Len(items) \in Nat
        BY <2>0, <2>7 DEF Lists
      <4>2. SubSeq(items, 1, i - 1) \in Seq(Note) /\ SubSeq(items, i + 1, Len(items)) \in Seq(Note)
        BY <4>1
      <4> QED BY <4>1, <4>2 DEF RemoveAt, Lists
    <3> QED BY <2>7, <3>1, KeepKeeps DEF dismiss
  <2>8. ASSUME NEW u \in WatchedUnits,
               OtherTabPersists(<<>>) \/ OtherTabPersists(<<[key |-> Key(u, "DOWN"), ts |-> clock]>>)
        PROVE  DashboardInv'
    <3>1. [key |-> Key(u, "DOWN"), ts |-> clock] \in Note
      BY <2>0 DEF Note, Key, States
    <3>2. <<[key |-> Key(u, "DOWN"), ts |-> clock]>> \in Lists
      BY <3>1 DEF Lists
    <3> QED BY <2>0, <2>8, <3>2 DEF OtherTabPersists, DashboardInv, KeysOf, Lists, Note, WatchedUnits
  <2>9. CASE OtherTabPersists(<<>>)
    BY <2>0, <2>9 DEF OtherTabPersists, DashboardInv, KeysOf, Lists, Note, WatchedUnits
  <2>10. ASSUME NEW v, SetView(v) PROVE DashboardInv'
    BY <2>0, <2>10 DEF SetView, DashboardInv, KeysOf, Lists, Note, WatchedUnits
  <2>11. CASE UNCHANGED dashboardVars
    BY <2>0, <2>11 DEF dashboardVars, DashboardInv, KeysOf, Lists, Note, WatchedUnits
  <2> QED BY <2>1, <2>2, <2>3, <2>4, <2>5, <2>6, <2>7, <2>8, <2>9, <2>10, <2>11 DEF DashboardNext
<1> QED BY <1>1, <1>2, PTL DEF DashboardSpec

\* Every outage the operations view saw is listed, for every roster no longer
\* than the store, and however its duplicates, its limit and its users act.
THEOREM OutagesListed == DashboardSpec => []OutagesAreListed
<1>1. DashboardInv => OutagesAreListed
  BY DEF DashboardInv, OutagesAreListed, KeysOf
<1> QED BY <1>1, DashboardInvariant, PTL
=============================================================================
