-------------------------- MODULE PipelineExecution --------------------------
(***************************************************************************)
(* An execution of the Step Functions state machine                        *)
(* units/platform-orchestration/asl/docuploader-pipeline-mvp.asl.json.     *)
(* Every task is an SQS sendMessage: a Notify state announces a status on  *)
(* the state-change queue, a dispatch state sends its whole JSON input to  *)
(* a worker's queue.  Nothing comes back from the workers.                 *)
(***************************************************************************)
EXTENDS Naturals, Sequences

CONSTANTS
  Executions,
  Inputs        \* the inputs StartExecution is called with

VARIABLE exec   \* [Executions -> Execution]

\* The members a JSON input can have.  A Catch with no ResultPath replaces the
\* input by {Error, Cause}.
Members == {"documentId", "s3Key", "workspaceId", "route", "Error"}
Route == {"convert/office", "convert/html", "convert/image", "convert/tiff", "ocr-direct",
          "email", "archive", "media", "slipsheet", "none"}

\* Whoever starts an execution names the document (document-event-handler-lambda).
ASSUME InputsAssumption ==
  \A i \in Inputs : i.has \in SUBSET Members /\ "documentId" \in i.has /\ i.route \in Route
-----------------------------------------------------------------------------
\* The status a Notify state announces.
Announces ==
  [ Notify_QUEUED             |-> "QUEUED",     Notify_CLASSIFYING    |-> "PROCESSING",
    Notify_CONVERT_QUEUED     |-> "QUEUED",     Notify_OCR_QUEUED     |-> "QUEUED",
    Notify_CONVERT_PROCESSING |-> "PROCESSING", Notify_OCR_PROCESSING |-> "PROCESSING",
    Notify_SLIPSHEETING       |-> "PROCESSING", Notify_COMPLETED      |-> "COMPLETED",
    Notify_FAILED             |-> "FAILED" ]

\* The queue a dispatch state sends its input to, five Notify_ names included.
Dispatches ==
  [ Classify    |-> "classification", ConvertOffice |-> "convert_office",
    ConvertHTML |-> "convert_html",   ConvertImage  |-> "convert_image",
    ConvertTIFF |-> "tiff_cog",       OCRDirect     |-> "ocr_direct",
    Slipsheet   |-> "slipsheet",
    Notify_EMAIL_PROCESSING |-> "email", Notify_ARCHIVE_PROCESSING |-> "archive",
    Notify_MEDIA_PROCESSING |-> "media", Notify_PDF_PROCESSING     |-> "pdf_processing",
    Notify_ASSEMBLING       |-> "output_assembly" ]

Follows ==
  [ Notify_QUEUED |-> "Classify", Classify |-> "Notify_CLASSIFYING", Notify_CLASSIFYING |-> "RouteChoice",
    Notify_CONVERT_QUEUED |-> "DispatchConvert",
    ConvertOffice |-> "Notify_CONVERT_PROCESSING", ConvertHTML |-> "Notify_CONVERT_PROCESSING",
    ConvertImage  |-> "Notify_CONVERT_PROCESSING", ConvertTIFF |-> "Notify_CONVERT_PROCESSING",
    Notify_CONVERT_PROCESSING |-> "Notify_PDF_PROCESSING",
    Notify_OCR_QUEUED |-> "OCRDirect", OCRDirect |-> "Notify_OCR_PROCESSING",
    Notify_OCR_PROCESSING     |-> "Notify_PDF_PROCESSING",
    Notify_EMAIL_PROCESSING   |-> "Notify_PDF_PROCESSING",
    Notify_ARCHIVE_PROCESSING |-> "Notify_COMPLETED",
    Notify_MEDIA_PROCESSING   |-> "Notify_PDF_PROCESSING",
    Notify_SLIPSHEETING |-> "Slipsheet", Slipsheet |-> "Notify_ASSEMBLING",
    Notify_PDF_PROCESSING |-> "Notify_ASSEMBLING", Notify_ASSEMBLING |-> "Notify_COMPLETED",
    Notify_COMPLETED |-> "Succeeded", Notify_FAILED |-> "Failed" ]

\* Mutant: DispatchConvert sends TIFFs to the image converter.
DispatchConvert_NoTIFF(route) ==
  CASE route = "convert/office" -> "ConvertOffice"
    [] route = "convert/html"   -> "ConvertHTML"
    [] route \in {"convert/image", "convert/tiff"} -> "ConvertImage"
    [] OTHER -> "HandleError"

RouteChoice(route) ==
  CASE route \in {"convert/office", "convert/html", "convert/image", "convert/tiff"}
                             -> "Notify_CONVERT_QUEUED"
    [] route = "ocr-direct"  -> "Notify_OCR_QUEUED"
    [] route = "email"       -> "Notify_EMAIL_PROCESSING"
    [] route = "archive"     -> "Notify_ARCHIVE_PROCESSING"
    [] route = "media"       -> "Notify_MEDIA_PROCESSING"
    [] route = "slipsheet"   -> "Notify_SLIPSHEETING"
    [] OTHER                 -> "HandleError"

DispatchConvert(route) ==
  CASE route = "convert/office" -> "ConvertOffice"
    [] route = "convert/html"   -> "ConvertHTML"
    [] route = "convert/image"  -> "ConvertImage"
    [] route = "convert/tiff"   -> "ConvertTIFF"
    [] OTHER -> "HandleError"

\* What a failed sendMessage is called.  DocumentProcessingError is raised in
\* the workers, and no task of the state machine runs a worker.
SendErrors == {"Sqs.SqsException", "States.Timeout"}

\* Mutant: every failed dispatch falls back to a slipsheet.
CatchTarget_Slipsheet(state, error) == "Slipsheet"

CatchTarget(state, error) ==
  IF error = "DocumentProcessingError" /\ state \notin {"Slipsheet", "Notify_ASSEMBLING"}
    THEN "Slipsheet"
    ELSE "HandleError"

\* "Broken" is an execution that Step Functions ends: an error no Catch takes.
Ends == {"Succeeded", "Failed", "Broken"}
States == DOMAIN Announces \cup DOMAIN Dispatches \cup {"RouteChoice", "DispatchConvert", "HandleError"} \cup Ends

\* What a state sent: the queue, the status ("" from a dispatch), the members.
Sent == [queue: {"state_change"} \cup {Dispatches[s] : s \in DOMAIN Dispatches},
         status: {""} \cup {Announces[s] : s \in DOMAIN Announces}, has: SUBSET Members]
Execution == [at: States, input: Inputs, has: SUBSET Members, sent: Seq(Sent)]

ExecutionsStart == exec \in [Executions -> {[at |-> "Notify_QUEUED", input |-> i, has |-> i.has, sent |-> <<>>] : i \in Inputs}]
-----------------------------------------------------------------------------
\* A reference path its input does not have, or an error with no Catch.
Break(x) == exec' = [exec EXCEPT ![x].at = "Broken"]

\* A Notify state: its parameters name $.documentId, it has no Catch.
Announce(x) ==
  LET s == exec[x].at IN
  /\ s \in DOMAIN Announces
  /\ IF "documentId" \in exec[x].has
       THEN exec' = [exec EXCEPT ![x].at = Follows[s],
                       ![x].sent = Append(@, [queue |-> "state_change", status |-> Announces[s],
                                              has |-> {"documentId"}])]
       ELSE Break(x)

AnnounceFails(x) == exec[x].at \in DOMAIN Announces /\ Break(x)

\* "MessageBody.$": "$", with ResultPath null: the input stays as it is.
Dispatch(x) ==
  LET s == exec[x].at IN
  /\ s \in DOMAIN Dispatches
  /\ exec' = [exec EXCEPT ![x].at = Follows[s],
                ![x].sent = Append(@, [queue |-> Dispatches[s], status |-> "", has |-> exec[x].has])]

DispatchFails(x) ==
  /\ exec[x].at \in DOMAIN Dispatches
  /\ \E e \in SendErrors :
       exec' = [exec EXCEPT ![x].at = CatchTarget(exec[x].at, e), ![x].has = {"Error"}]

Choose(x) ==
  /\ exec[x].at \in {"RouteChoice", "DispatchConvert"}
  /\ IF "route" \in exec[x].has
       THEN exec' = [exec EXCEPT ![x].at = IF @ = "RouteChoice" THEN RouteChoice(exec[x].input.route)
                                                                ELSE DispatchConvert(exec[x].input.route)]
       ELSE Break(x)

\* A Pass state that reads $.documentId and $.Error: no input has both.
HandleError(x) ==
  /\ exec[x].at = "HandleError"
  /\ IF {"documentId", "Error"} \subseteq exec[x].has
       THEN exec' = [exec EXCEPT ![x].at = "Notify_FAILED"]
       ELSE Break(x)

Proceed(x) == Announce(x) \/ Dispatch(x) \/ Choose(x) \/ HandleError(x)

\* A sendMessage task fails.
SendFails(x) == AnnounceFails(x) \/ DispatchFails(x)
-----------------------------------------------------------------------------
ExecutionTypeOK == exec \in [Executions -> Execution]

Announced(x) == {exec[x].sent[i].status : i \in DOMAIN exec[x].sent} \ {""}

\* application-design.md lines 173 and 212: an execution that does not succeed
\* has announced FAILED.
FailureIsAnnounced == \A x \in Executions : exec[x].at \in {"Broken", "Failed"} => "FAILED" \in Announced(x)

\* Whatever fails, no worker is sent an input without the document's id: the
\* error object a Catch leaves behind reaches no queue (the Catch clauses of
\* the dispatch states).
DispatchesNameTheirDocument ==
  \A x \in Executions : \A i \in DOMAIN exec[x].sent : "documentId" \in exec[x].sent[i].has
=============================================================================
