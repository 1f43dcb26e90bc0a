------------------------ MODULE MCDocumentLifecycle ------------------------
(***************************************************************************)
(* Small instances of DocumentLifecycle.                                   *)
(***************************************************************************)
EXTENDS DocumentLifecycle, TLC

CONSTANTS d1, d2, b1, b2, k1, k2, u1, x1, x2, c1, c2, c3

MCCreateRequests == {[op |-> "create", key |-> k1, batch |-> b1]}

MCUpdateRequests ==
  {[op |-> "update", doc |-> d1, to |-> s, stage |-> "", key |-> u1]
     : s \in {"SCANNING", "FAILED"}}

MCNoUpdateRequests == {}

\* The messages an execution started by the event handler gets to send: its
\* input has no route, RouteChoice ends it after the second one.
MCScript == << [toState |-> "QUEUED",     phase |-> "queued"],
               [toState |-> "PROCESSING", phase |-> "classifying"] >>

MCOneMessage == << [toState |-> "QUEUED", phase |-> "queued"] >>

\* The state after each document was created under a key of its own, indexed,
\* uploaded and found clean, and its execution started: the messages run is
\* about what follows.
Started ==
  /\ log = (d1 :> <<[ batch |-> b1, status |-> "UPLOADED", stage |-> "", key |-> k1,
                      malware |-> FALSE, by |-> "resolver", base |-> 0 ]>>) @@
           (d2 :> <<[ batch |-> b2, status |-> "UPLOADED", stage |-> "", key |-> k2,
                      malware |-> FALSE, by |-> "resolver", base |-> 0 ]>>)
  /\ indexed = [d \in Docs |-> 1]
  /\ ResolverInit
  /\ LambdaInit
  /\ findings = {[doc |-> d, nth |-> 1, verdict |-> "NO_THREATS_FOUND", n |-> 1] : d \in Docs}
  /\ runs = (x1 :> [doc |-> d1, nth |-> 1, sent |-> 0]) @@ (x2 :> [doc |-> d2, nth |-> 1, sent |-> 0])
  /\ handler = <<>>

\* The calls of a behaviour differ in nothing but their names.
CallSymmetry == Permutations(Calls)

StartedSpec == Started /\ [][Next]_vars /\ Fairness
=============================================================================
