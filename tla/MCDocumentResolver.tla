------------------------- MODULE MCDocumentResolver -------------------------
(***************************************************************************)
(* Small instances of DocumentResolver on its own: one create key, and     *)
(* updates that race on the same document.                                 *)
(***************************************************************************)
EXTENDS DocumentResolver, TLC

CONSTANTS d1, d2, b1, b2, k1, u1, u2

MCCreateRequests == {[op |-> "create", key |-> k1, batch |-> b] : b \in {b1, b2}}

\* u1 is used for two different statuses: a replay is the key and the status.
MCUpdateRequests ==
  { [op |-> "update", doc |-> d1, to |-> "PROCESSING", stage |-> "s", key |-> u1],
    [op |-> "update", doc |-> d1, to |-> "COMPLETED",  stage |-> "",  key |-> u1],
    [op |-> "update", doc |-> d1, to |-> "FAILED",     stage |-> "",  key |-> u2],
    [op |-> "update", doc |-> d1, to |-> "WAT",        stage |-> "",  key |-> u2] }
=============================================================================
