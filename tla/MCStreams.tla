------------------------------ MODULE MCStreams ------------------------------
(***************************************************************************)
(* The programs that share no state with the pipeline: the two servers     *)
(* that push to streaming clients, the two pages of the web module with    *)
(* timers of their own, the audit trail and the workspaces.  A behaviour   *)
(* is one of the six modules extended here, so their state spaces add up.  *)
(***************************************************************************)
EXTENDS StatusSubscriptions, MonitorPoller, MonitorDashboard, UploadView,
        AuditTrail, WorkspaceSettings

VARIABLE server   \* which of them this behaviour is about

CONSTANTS w1, w2
MCWatched == <<w1, w2>>

streamVars == <<subscriptionVars, pollerVars>>
pageVars   == <<dashboardVars, uploadVars>>
recordVars == <<auditVars, workspaceVars>>
allVars    == <<streamVars, pageVars, recordVars, server>>

MCInit ==
  /\ SubscriptionsInit /\ PollerInit /\ DashboardInit /\ UploadInit
  /\ AuditTrailInit /\ WorkspaceInit
  /\ server \in {"document-resolver", "monitor", "dashboard", "upload", "audit", "workspace"}

MCNext ==
  \/ server = "document-resolver" /\ SubscriptionsNext
     /\ UNCHANGED <<pollerVars, pageVars, recordVars, server>>
  \/ server = "monitor" /\ PollerNext
     /\ UNCHANGED <<subscriptionVars, pageVars, recordVars, server>>
  \/ server = "dashboard" /\ DashboardNext
     /\ UNCHANGED <<streamVars, uploadVars, recordVars, server>>
  \/ server = "upload" /\ UploadNext
     /\ UNCHANGED <<streamVars, dashboardVars, recordVars, server>>
  \/ server = "audit" /\ AuditTrailNext
     /\ UNCHANGED <<streamVars, pageVars, workspaceVars, server>>
  \/ server = "workspace" /\ WorkspaceNext
     /\ UNCHANGED <<streamVars, pageVars, auditVars, server>>

MCSpec == /\ MCInit /\ [][MCNext]_allVars
          /\ WF_pollerVars(server = "monitor" /\ PollerStep
                           /\ UNCHANGED <<subscriptionVars, pageVars, recordVars, server>>)
=============================================================================
