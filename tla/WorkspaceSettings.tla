------------------------- MODULE WorkspaceSettings -------------------------
(***************************************************************************)
(* units/workspace-resolver/internal/handler/handler.go: CreateWorkspace   *)
(* and UpdateWorkspace on the table docuploader-api-workspaces.  A row has *)
(* two settings, each changed by an update that names it; a row is read    *)
(* and put whole.  As in DocumentsTable every row ever put is kept; `by`   *)
(* and `base` are the auxiliary fields that say which call put it and      *)
(* which row that call had read.                                           *)
(***************************************************************************)
EXTENDS Naturals, Sequences

CONSTANTS
  Workspaces,      \* ids (uuid.NewString)
  WorkspaceCalls,  \* the RPCs of a behaviour, each served once
  SettingValues,   \* the values a caller may give a setting
  Unset,           \* the field is absent from the request
  Default,         \* what an absent setting is at creation
  NoWorkspace

VARIABLES
  wrows,           \* [Workspaces -> Seq(WorkspaceRow)]
  aliases,         \* the workspaces whose KMS alias was made
  wcall            \* [WorkspaceCalls -> WorkspaceCall]

workspaceVars == <<wrows, aliases, wcall>>

ASSUME SettingsAssumption == Unset \notin SettingValues /\ Default \in SettingValues

Fields == {"retention", "pipeline"}
Request == [Fields -> SettingValues \cup {Unset}]
NoRequestYet == [f \in Fields |-> Unset]

WorkspaceInit ==
  /\ wrows = [w \in Workspaces |-> <<>>]
  /\ aliases = {}
  /\ wcall = [c \in WorkspaceCalls |->
                [pc |-> "idle", ws |-> NoWorkspace, req |-> NoRequestYet, base |-> 0]]

\* pbToRetentionPolicy and pbToPipelineConfig of an absent message.
OrDefault(v) == IF v = Unset THEN Default ELSE v

PutWorkspace(w, row) == wrows' = [wrows EXCEPT ![w] = Append(@, row)]
-----------------------------------------------------------------------------
\* Mutant: UpdateWorkspace converts a setting that the request does not name.
UpdateWorkspacePut_Resets(c) ==
  /\ wcall[c].pc = "put"
  /\ LET w == wcall[c].ws
         b == wcall[c].base IN
       PutWorkspace(w, [set |-> [f \in Fields |-> OrDefault(wcall[c].req[f])], by |-> c, base |-> b])
  /\ wcall' = [wcall EXCEPT ![c].pc = "done"]
  /\ UNCHANGED aliases
-----------------------------------------------------------------------------
\* CreateWorkspace up to CreateAlias, under a fresh id.
CreateAlias(c) ==
  /\ wcall[c].pc = "idle"
  /\ \E w \in Workspaces \ aliases : \E r \in Request :
       /\ aliases' = aliases \cup {w}
       /\ wcall' = [wcall EXCEPT ![c] = [pc |-> "create", ws |-> w, req |-> r, base |-> 0]]
  /\ UNCHANGED wrows

CreateWorkspacePut(c) ==
  /\ wcall[c].pc = "create"
  /\ PutWorkspace(wcall[c].ws,
       [set |-> [f \in Fields |-> OrDefault(wcall[c].req[f])], by |-> c, base |-> 0])
  /\ wcall' = [wcall EXCEPT ![c].pc = "done"]
  /\ UNCHANGED aliases

\* UpdateWorkspace up to Get; a workspace that is not there is refused.
UpdateWorkspaceGet(c) ==
  /\ wcall[c].pc = "idle"
  /\ \E w \in Workspaces : \E r \in Request :
       wcall' = [wcall EXCEPT ![c] =
         [ pc |-> IF wrows[w] # <<>> THEN "put" ELSE "done",
           ws |-> w, req |-> r, base |-> Len(wrows[w]) ]]
  /\ UNCHANGED <<wrows, aliases>>

\* The settings the request names, over the row as it was read.
UpdateWorkspacePut(c) ==
  /\ wcall[c].pc = "put"
  /\ LET w == wcall[c].ws
         b == wcall[c].base
         r == wcall[c].req IN
       PutWorkspace(w, [ set |-> [f \in Fields |-> IF r[f] # Unset THEN r[f] ELSE wrows[w][b].set[f]],
                         by |-> c, base |-> b ])
  /\ wcall' = [wcall EXCEPT ![c].pc = "done"]
  /\ UNCHANGED aliases

\* A call to KMS or DynamoDB fails or the replica dies: an alias that was
\* made stays.
WorkspaceCallFails(c) ==
  /\ wcall[c].pc \in {"create", "put"}
  /\ wcall' = [wcall EXCEPT ![c].pc = "done"]
  /\ UNCHANGED <<wrows, aliases>>

WorkspaceNext ==
  \E c \in WorkspaceCalls :
    \/ CreateAlias(c) \/ CreateWorkspacePut(c)
    \/ UpdateWorkspaceGet(c) \/ UpdateWorkspacePut(c)
    \/ WorkspaceCallFails(c)

WorkspaceSpec == WorkspaceInit /\ [][WorkspaceNext]_workspaceVars
-----------------------------------------------------------------------------
\* A setting a call gave a workspace lasts until a call that names the setting
\* changes it, or is undone by a call that had read the workspace before; and
\* a row is there only for a workspace whose alias was made (CreateWorkspace,
\* UpdateWorkspace: put whole, no condition).
SettingsAreUndoneOnlyByOverlap ==
  \A w \in Workspaces : \A i \in DOMAIN wrows[w] :
    /\ w \in aliases
    /\ \A f \in Fields : \A j \in i..Len(wrows[w]) :
         LET row == wrows[w] IN
           wcall[row[i].by].req[f] # Unset =>
             \/ row[j].set[f] = row[i].set[f]
             \/ \E k \in i+1..j : wcall[row[k].by].req[f] # Unset \/ row[k].base < i
=============================================================================
