----------------------------- MODULE MCPipeline -----------------------------
(***************************************************************************)
(* One document and its execution.                                         *)
(***************************************************************************)
EXTENDS Pipeline, TLC

CONSTANT r1

\* The input document-event-handler-lambda starts an execution with.
Deployed(name) == [doc |-> <<r1, 0, 0>>, name |-> name, has |-> {"documentId", "s3Key"}, route |-> "none"]

\* The input RouteChoice is written for: the route, and the workspace the
\* classification service asks for.
Routed(name, r) == [ doc |-> <<r1, 0, 0>>, name |-> name, route |-> r,
                     has |-> {"documentId", "s3Key", "workspaceId", "route"} ]

RouteOf == [ pdf |-> "ocr-direct", office |-> "convert/office", html |-> "convert/html",
             image |-> "convert/image", tiff |-> "convert/tiff", media |-> "media",
             email |-> "email", archive |-> "archive", other |-> "slipsheet" ]

MCInputs == {Deployed("pdf")} \cup {Routed(name, RouteOf[name]) : name \in DOMAIN RouteOf}
MCDeployedInputs == {Deployed(name) : name \in Uploaded}

\* A document that becomes others, and one that does not.
MCOverlapInputs == {Routed(name, RouteOf[name]) : name \in {"email", "archive", "other"}}

Symmetry == Permutations(Pods)
=============================================================================
