------------------------- MODULE StatusTransitions -------------------------
(***************************************************************************)
(* The lifecycle of Document.status: the six values                        *)
(* libs/data-access/go/documents/document.go declares and the guard        *)
(* legalTransition of units/document-resolver/internal/handler/handler.go. *)
(***************************************************************************)
EXTENDS Naturals

Status == {"UPLOADED", "SCANNING", "QUEUED", "PROCESSING", "COMPLETED", "FAILED"}

\* The map `order` of legalTransition: FAILED has no place in it.
order == [ UPLOADED |-> 0, SCANNING |-> 1, QUEUED |-> 2,
           PROCESSING |-> 3, COMPLETED |-> 4 ]

\* Mutant: COMPLETED is not terminal.
legalTransition_CompletedFails(from, to) ==
  IF to = "FAILED"
    THEN from # "FAILED"
    ELSE from \in DOMAIN order /\ to \in DOMAIN order /\ order[to] >= order[from]

\* A status the code does not know ("WAT" in the tests) is outside DOMAIN order.
legalTransition(from, to) ==
  IF to = "FAILED"
    THEN from \notin {"COMPLETED", "FAILED"}
    ELSE /\ from \in DOMAIN order
         /\ to \in DOMAIN order
         /\ order[to] >= order[from]
=============================================================================
