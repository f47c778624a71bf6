--------------------------- MODULE SessionLayout ----------------------------
(***************************************************************************)
(* The page around the chat panel (components/chat/                        *)
(* chat-session-layout.tsx): the rows of the answer under way, those of    *)
(* the whole conversation, from which the context of operations is         *)
(* derived (components/activity/ops-session-context.tsx), and the panel    *)
(* that shows the answer under way or an earlier one.                      *)
(***************************************************************************)
EXTENDS ActivityLog, FiniteSets

CONSTANTS
    ToolSteps,  \* the steps of an answer
    MaxRuns     \* bound: answers

ASSUME LayoutAssumption == ToolSteps \subseteq Steps

VARIABLES
    run,        \* the answer under way, or the last one
    workspace,  \* workspaceLog: rows by answer, step and the event that made them
    touched,    \* ids of the rows changed since the history was last loaded
    history,    \* the history of the panel is under way
    layout      \* panelMode, the panel's state in localStorage and on the page

layoutVars == <<activityVars, run, workspace, touched, history, layout>>

LayoutInit ==
    /\ ActivityInit
    /\ run = 1 /\ workspace = {} /\ touched = {}
    /\ history \in BOOLEAN
    /\ layout = [mode |-> "live", stored |-> TRUE, open |-> TRUE]

----------------------------------------------------------------------------
Id(row) == <<row.run, row.step, row.by>>
InRun(log) == {[run |-> run, step |-> log[i].step, by |-> log[i].by, status |-> log[i].status] :
                  i \in DOMAIN log}

\* Let every step fetch the logs of a container of its own: containers are a set, the
\* fetched logs a list with an element for each row.
deriveOpsSnapshot(entries) == [containersReferenced |-> {<<row.run, row.step>> : row \in entries},
                               logsFetched          |-> Cardinality(entries)]

\* The later version of a row takes the place of the earlier one.
MutantMergeWorkspaceEntries(previous, next) ==  \* the earlier one stays
    previous \cup {row \in next : \A p \in previous : Id(p) # Id(row)}
MergeWorkspaceEntries(previous, next) ==
    next \cup {row \in previous : \A n \in next : Id(n) # Id(row)}

\* handleActivityEvent with an update of the log.
Updates ==
    /\ \E s \in ToolSteps : StepReports(s)
    /\ workspace' = MergeWorkspaceEntries(workspace, InRun(rows'))
    /\ touched' = touched \cup {Id(row) : row \in InRun(rows')}
    /\ UNCHANGED <<run, history, layout>>

\* A new answer, or an edit, sets the log back: what it held is merged once more, and the
\* panel shows the answer under way.
NewAnswer ==
    /\ run < MaxRuns /\ run' = run + 1
    /\ progress' = [s \in Steps |-> "idle"] /\ rows' = <<>> /\ seen' = {}
    /\ workspace' = MergeWorkspaceEntries(workspace, InRun(rows))
    /\ touched' = touched \cup {Id(row) : row \in InRun(rows)}
    /\ layout' = [layout EXCEPT !.mode = "live"]
    /\ UNCHANGED history

\* handleHistoryLoaded, when the history has rows: they replace those of the workspace,
\* also when an answer has begun meanwhile.
HandleHistoryLoaded ==
    /\ history /\ history' = FALSE
    /\ \/ workspace' = {[run |-> 0, step |-> s, by |-> "history", status |-> "completed"] : s \in ToolSteps}
          /\ touched' = {}
       \/ UNCHANGED <<workspace, touched>>
    /\ UNCHANGED <<activityVars, run, layout>>

----------------------------------------------------------------------------
\* The panel's state is shared by the tabs of the browser.
SetPanelState(open) == [layout EXCEPT !.stored = open, !.open = open]

HandleToggleActivity ==
    /\ layout' = SetPanelState(~layout.open)
    /\ UNCHANGED <<activityVars, run, workspace, touched, history>>
HandleOpenHistorical ==
    /\ layout' = [SetPanelState(TRUE) EXCEPT !.mode = "earlier"]
    /\ UNCHANGED <<activityVars, run, workspace, touched, history>>
BackToLive ==
    /\ layout.mode = "earlier" /\ layout' = [layout EXCEPT !.mode = "live"]
    /\ UNCHANGED <<activityVars, run, workspace, touched, history>>
OtherTabToggles ==
    /\ layout' = [layout EXCEPT !.stored = ~@]
    /\ UNCHANGED <<activityVars, run, workspace, touched, history>>
StorageEvent ==
    /\ layout' = [layout EXCEPT !.open = layout.stored]
    /\ UNCHANGED <<activityVars, run, workspace, touched, history>>

LayoutNext ==
    \/ Updates \/ NewAnswer \/ HandleHistoryLoaded
    \/ HandleToggleActivity \/ HandleOpenHistorical \/ BackToLive
    \/ OtherTabToggles \/ StorageEvent

LayoutSpec == LayoutInit /\ [][LayoutNext]_layoutVars

----------------------------------------------------------------------------
(* The context of operations is derived from every row of the conversation as it was
   last shown: a row changed since the history was loaded is neither lost when the next
   answer sets the log back, nor kept in an earlier state. *)
WorkspaceUpToDate ==
    /\ LET ops == deriveOpsSnapshot({row \in workspace : Id(row) \in touched})
       IN  /\ ops.logsFetched = Cardinality(touched)
           /\ ops.containersReferenced = {<<id[1], id[2]>> : id \in touched}
    /\ \A row \in InRun(rows) : Id(row) \in touched => row \in workspace

(* What the panel shows can be trusted: of each tool no more calls are shown running,
   completed or failed than are (ActivityLog), and the rows of the conversation are those
   last shown, each counted once. *)
RowsCanBeTrusted == RowsMatchCalls /\ WorkspaceUpToDate
=============================================================================
