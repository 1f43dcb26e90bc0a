--------------------------- MODULE StatusMachine ---------------------------
(***************************************************************************)
(* What document-resolver promises of Document.status, in the words of its *)
(* tests (handler_test.go lines 9-12 and 46-66): the happy path is walked  *)
(* forward, steps may be skipped, FAILED is reachable from any state that  *)
(* is not terminal, and nothing leaves FAILED or goes back.                *)
(***************************************************************************)
EXTENDS Naturals, Sequences

CONSTANT Docs
VARIABLE status   \* [Docs -> Steps \cup {"FAILED", "none"}]

HappyPath == <<"UPLOADED", "SCANNING", "QUEUED", "PROCESSING", "COMPLETED">>
Steps     == {HappyPath[i] : i \in DOMAIN HappyPath}

Init == status = [d \in Docs |-> "none"]

Create(d) == status[d] = "none" /\ status' = [status EXCEPT ![d] = "UPLOADED"]

Advance(d) ==
  \E i \in DOMAIN HappyPath : \E j \in i..Len(HappyPath) :
    status[d] = HappyPath[i] /\ status' = [status EXCEPT ![d] = HappyPath[j]]

Fail(d) == status[d] \in Steps \ {"COMPLETED"} /\ status' = [status EXCEPT ![d] = "FAILED"]

Next == \E d \in Docs : Create(d) \/ Advance(d) \/ Fail(d)

Spec == Init /\ [][Next]_status
=============================================================================
