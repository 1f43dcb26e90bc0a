------------------------------- MODULE UploadView -------------------------------
(***************************************************************************)
(* The upload view of the dashboard: each file dropped in runs through the *)
(* simulated pipeline in the browser, all files at once, while the user    *)
(* may clear the list or leave the view.                                   *)
(***************************************************************************)
EXTENDS Naturals, Sequences

CONSTANT Docs   \* the files dropped in

VARIABLES
  docs,   \* the list shown: of each document what setDocs made of it, or nothing
  runs,   \* the running pipelines: the stage each is at, and whether it sleeps there
  told    \* the documents whose failure was pushed as a notification

uploadVars == <<docs, runs, told>>

STAGES == <<"received", "classification", "extraction", "conversion", "ocr", "assembly", "completed">>
Stage == {STAGES[i] : i \in DOMAIN STAGES}
FileTypes == {"pdf", "image", "email", "zip", "docx"}   \* xlsx and other go the way of docx

initialStageStatus == [s \in Stage |-> "PENDING"]
NotShown == [type |-> "none", stage |-> "none", status |-> initialStageStatus, outputs |-> {}, error |-> FALSE]
NoRun == [at |-> 0, asleep |-> FALSE, type |-> "none"]

UploadInit ==
  /\ docs = [d \in Docs |-> NotShown] /\ runs = [d \in Docs |-> NoRun] /\ told = {}

stageRelevant(stage, type) ==
  CASE stage = "extraction" -> type \in {"zip", "email"}
    [] stage = "conversion" -> type \notin {"pdf", "image"}
    [] stage = "ocr" -> type \in {"pdf", "image", "email"}
    [] OTHER -> TRUE

\* Mutant: a document that is no longer in the list is brought back.
patchDoc_Restores(d, patched) == [docs EXCEPT ![d] = patched]

\* A document that is no longer in the list is not brought back.
patchDoc(d, patched) == IF docs[d] = NotShown THEN docs ELSE [docs EXCEPT ![d] = patched]

buildOutputs(type) ==
  {"pdf", "metadata"} \cup IF type \in {"pdf", "image", "email"} THEN {"ocr-text"} ELSE {}

-----------------------------------------------------------------------------
handleFiles(d, type) ==
  /\ docs[d] = NotShown /\ runs[d] = NoRun
  /\ docs' = [docs EXCEPT ![d] = [NotShown EXCEPT !.type = type, !.stage = "received"]]
  /\ runs' = [runs EXCEPT ![d] = [at |-> 1, asleep |-> FALSE, type |-> type]]
  /\ UNCHANGED told

Awake(d) == runs[d].at # 0 /\ ~runs[d].asleep
At(d) == STAGES[runs[d].at]

SkipStage(d) ==
  /\ Awake(d) /\ ~stageRelevant(At(d), runs[d].type)
  /\ docs' = patchDoc(d, [docs[d] EXCEPT !.status[At(d)] = "SKIPPED"])
  /\ runs' = [runs EXCEPT ![d].at = @ + 1]
  /\ UNCHANGED told

StartStage(d) ==
  /\ Awake(d) /\ At(d) # "completed" /\ stageRelevant(At(d), runs[d].type)
  /\ docs' = patchDoc(d, [docs[d] EXCEPT !.stage = At(d), !.status[At(d)] = "RUNNING"])
  /\ runs' = [runs EXCEPT ![d].asleep = TRUE]
  /\ UNCHANGED told

FinishStage(d) ==
  /\ runs[d].asleep
  /\ docs' = patchDoc(d, [docs[d] EXCEPT !.status[At(d)] = "DONE"])
  /\ runs' = [runs EXCEPT ![d].at = @ + 1, ![d].asleep = FALSE]
  /\ UNCHANGED told

FailStage(d) ==
  /\ runs[d].asleep
  /\ docs' = patchDoc(d, [docs[d] EXCEPT !.stage = At(d), !.status[At(d)] = "FAILED", !.error = TRUE])
  /\ runs' = [runs EXCEPT ![d] = NoRun]
  /\ told' = told \cup {d}

\* A file that can no longer be read rejects a promise nobody handles.
FinishRun(d, readable) ==
  /\ Awake(d) /\ At(d) = "completed"
  /\ docs' = IF readable
             THEN patchDoc(d, [docs[d] EXCEPT !.stage = "completed", !.status["completed"] = "DONE",
                                              !.outputs = buildOutputs(runs[d].type)])
             ELSE docs
  /\ runs' = [runs EXCEPT ![d] = NoRun]
  /\ UNCHANGED told

\* "Clear all", or another view: the pipelines run on.
ClearAll ==
  /\ docs' = [d \in Docs |-> NotShown]
  /\ UNCHANGED <<runs, told>>

UploadStep(d) ==
  \/ SkipStage(d) \/ StartStage(d) \/ FinishStage(d) \/ FailStage(d)
  \/ \E readable \in BOOLEAN : FinishRun(d, readable)

UploadNext ==
  \/ \E d \in Docs : UploadStep(d) \/ \E type \in FileTypes : handleFiles(d, type)
  \/ ClearAll

UploadSpec == UploadInit /\ [][UploadNext]_uploadVars

-----------------------------------------------------------------------------
isFailed(d) == \E s \in Stage : docs[d].status[s] = "FAILED"
isDone(d) == docs[d].stage = "completed" \/ docs[d].status["completed"] = "DONE"

\* What a card shows belongs to one run: no two badges, at most one stage
\* runs, the stages before it are done or skipped and those after it wait; a
\* completed document has its outputs, a failed one its message and its
\* notification.
CardsAreCoherent ==
  \A d \in Docs :
    LET status == [i \in DOMAIN STAGES |-> docs[d].status[STAGES[i]]] IN
    /\ \A i, j \in DOMAIN STAGES : i < j /\ status[j] # "PENDING" => status[i] \in {"DONE", "SKIPPED"}
    /\ ~(isDone(d) /\ isFailed(d))
    /\ isDone(d) <=> docs[d].outputs # {}
    /\ isFailed(d) <=> docs[d].error
    /\ isFailed(d) => d \in told
=============================================================================
