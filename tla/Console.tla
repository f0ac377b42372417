------------------------------ MODULE Console ------------------------------
(***************************************************************************)
(* The web console: the views that the routes of the application lead to,  *)
(* side by side.  Each view is a module of its own over its own variables, *)
(* as the views share no state but the server's; the lists, the forms, the *)
(* preview, the run history and the logs let that be changed by others.    *)
(* The editor is extended, so that its assumption and its properties are   *)
(* the console's.                                                          *)
(*                                                                         *)
(* Bound: a behaviour stays with the view it starts with, so that the      *)
(* states of the console are those of its views added, not multiplied.     *)
(***************************************************************************)
EXTENDS PipelineEditor, Naturals

CONSTANTS
  Connectors, Schemas, Tables, Names, Columns, Texts, MaxItems, Blank, None,
  Catalog,
  Titles, Configs, Default, Rows, Chains,
  Jobs, MaxSyncs,
  MaxVersions, Notices,
  ColumnKeys, Values, MaxRows,
  Pipelines, Crons, Runs

VARIABLES
  view,
  kind, shown, data, items, answered, typed,
  editing, showSchedule, cronValue, known, schedule_cron, put, wanted, crossing,
  run, visited, runs, runsFetch, runsAnswer, retry, cancel, followed,
  pipeline, pipelines, loaded, listFetch, listAnswer, mounted, statusFilter, deletion, unseen,
  rows, columns, sortKey, sortDir,
  formOpen, editConnector, name, config, testResult, saved, chain, connectors, overtaken,
  expandedConnector, expandedSchema, selectedTable, entries, fetching, dragged, dropped,
  version, selected, preview, previewFetch, reading, refreshed,
  open, filled, chosen, tracking, creation, jobs, touched,
  row, listed, jobsFetch, jobsAnswer, broken, onPage, panel, command, excused, outdated,
  started, finished, logsShown, logs, logsFetch, logsAnswer, sync,
  stats, days, webhookUrl, mutation, left, toasts, armed, crashed, owed

nodeVars == <<kind, shown, data, items, answered, typed>>
scheduleVars == <<editing, showSchedule, cronValue, known, schedule_cron, put, wanted, crossing>>
runVars == <<run, visited, runs, runsFetch, runsAnswer, retry, cancel, followed>>
listVars == <<pipeline, pipelines, loaded, listFetch, listAnswer, mounted, statusFilter, deletion,
              unseen>>
tableVars == <<rows, columns, sortKey, sortDir>>
connectorVars == <<formOpen, editConnector, name, config, testResult, saved, chain, connectors,
                   overtaken>>
treeVars == <<expandedConnector, expandedSchema, selectedTable, entries, fetching, dragged,
              dropped>>
previewVars == <<version, selected, preview, previewFetch, reading, refreshed>>
jobFormVars == <<open, filled, chosen, tracking, creation, jobs, touched>>
jobListVars == <<row, listed, jobsFetch, jobsAnswer, broken, onPage, panel, command, excused,
                 outdated>>
syncLogVars == <<started, finished, logsShown, logs, logsFetch, logsAnswer, sync>>
monitorVars == <<stats, days, webhookUrl, mutation, left, toasts, armed, crashed, owed>>

(* On the editor's page, beside the drawing itself. *)
Node == INSTANCE NodeConfig
Schedule == INSTANCE SchedulePanel
History == INSTANCE RunHistory

(* The other pages. *)
List == INSTANCE PipelineList
Table == INSTANCE DataTable
Connector == INSTANCE ConnectorForms
Tree == INSTANCE CatalogTree
Preview == INSTANCE TablePreview
JobForm == INSTANCE CDCJobForm WITH Slots <- Chains
JobList == INSTANCE CDCList
SyncLog == INSTANCE SyncLogs
Monitor == INSTANCE Monitoring

Views == {"drawing", "node", "schedule", "history", "pipelines", "table", "connectors", "tree",
          "preview", "job form", "jobs", "sync logs", "monitoring"}

ASSUME ConsoleAssumption ==
  /\ Node!NodeAssumption /\ Schedule!ScheduleAssumption /\ History!HistoryAssumption
  /\ Table!TableAssumption /\ Connector!FormAssumption /\ Tree!TreeAssumption
  /\ Preview!PreviewAssumption
  /\ JobForm!FormAssumption /\ JobList!ListAssumption /\ SyncLog!SyncAssumption

(* What is stored when the view that shows it is not the one looked at. *)
Still ==
  /\ view = "node" \/ kind = "source"
  /\ view = "schedule" \/ schedule_cron = Blank
  /\ view = "history" \/ run = History!NoShot
  /\ view = "pipelines" \/ pipeline = List!Nothing
  /\ view = "connectors" \/ connectors = [r \in Rows |-> None]
  /\ view = "jobs" \/ row = [j \in Jobs |-> "idle"]

ConsoleInit ==
  /\ view \in Views
  /\ Init
  /\ Node!Init /\ Schedule!Init /\ History!Init
  /\ List!Init /\ Table!Init /\ Connector!Init /\ Tree!Init /\ Preview!Init
  /\ JobForm!Init /\ JobList!Init /\ SyncLog!Init /\ Monitor!Init
  /\ Still

(* A step of the view. *)
ConsoleNext ==
  /\ UNCHANGED view
  /\ IF view = "drawing"    THEN Next           ELSE UNCHANGED vars
  /\ IF view = "node"       THEN Node!Next      ELSE UNCHANGED nodeVars
  /\ IF view = "schedule"   THEN Schedule!Next  ELSE UNCHANGED scheduleVars
  /\ IF view = "history"    THEN History!Next   ELSE UNCHANGED runVars
  /\ IF view = "pipelines"  THEN List!Next      ELSE UNCHANGED listVars
  /\ IF view = "table"      THEN Table!Next     ELSE UNCHANGED tableVars
  /\ IF view = "connectors" THEN Connector!Next ELSE UNCHANGED connectorVars
  /\ IF view = "tree"       THEN Tree!Next      ELSE UNCHANGED treeVars
  /\ IF view = "preview"    THEN Preview!Next   ELSE UNCHANGED previewVars
  /\ IF view = "job form"   THEN JobForm!Next   ELSE UNCHANGED jobFormVars
  /\ IF view = "jobs"       THEN JobList!Next   ELSE UNCHANGED jobListVars
  /\ IF view = "sync logs"  THEN SyncLog!Next   ELSE UNCHANGED syncLogVars
  /\ IF view = "monitoring" THEN Monitor!Next   ELSE UNCHANGED monitorVars

consoleVars ==
  <<view, vars, nodeVars, scheduleVars, runVars, listVars, tableVars, connectorVars,
    treeVars, previewVars, jobFormVars, jobListVars, syncLogVars, monitorVars>>

(* Nothing of a view that is not looked at is ready to happen, so that its     *)
(* fairness asks nothing.                                                      *)
ConsoleSpec ==
  /\ ConsoleInit /\ [][ConsoleNext]_consoleVars
  /\ Fairness /\ History!Fairness /\ SyncLog!Fairness /\ Monitor!Fairness

----------------------------------------------------------------------------
(* The properties of the views, each stated and explained in its own module.   *)

(* Every view's variables stay within their types.                             *)
ViewsTypeOK ==
  /\ view \in Views /\ TypeOK
  /\ Node!TypeOK /\ Schedule!TypeOK /\ History!TypeOK /\ List!TypeOK /\ Table!TypeOK
  /\ Connector!TypeOK /\ Tree!TypeOK /\ Preview!TypeOK
  /\ JobForm!TypeOK /\ JobList!TypeOK /\ SyncLog!TypeOK /\ Monitor!TypeOK

(* A node's selected columns are among those of its table.                     *)
SelectionListed == Node!SelectionListed

(* A cast is to a type of the list.                                            *)
CastsHaveTypes == Node!CastsHaveTypes

(* The pipeline keeps the schedule that was last sent.                         *)
LastScheduleStays == Schedule!LastScheduleStays

(* What a retry starts is shown to its end.                                    *)
RetryFollowed == History!RetryFollowed

(* The list of pipelines shows those that are there.                           *)
ListsWhatIsThere == List!ListsWhatIsThere

(* A table shows each row once, in a stable order.                             *)
ShownInOrder == Table!ShownInOrder

(* A form that says it is saved shows what was stored.                         *)
SavedIsShown == Connector!SavedIsShown

(* A click on the connector form stores at most one connector, as shown.       *)
OneConnectorPerClick == Connector!OneConnectorPerClick

(* What the tree selects or drags is a table of that connector and schema.     *)
TreeNamesTables == Tree!TreeNamesTables

(* Refresh shows rows no older than the click.                                 *)
RefreshShowsLatest == Preview!RefreshShowsLatest

(* A job tracks a column of its own table.                                     *)
JobsTrackTheirTable == JobForm!JobsTrackTheirTable

(* The job form changes only by the user's hand or the answer that stored it.  *)
EntriesKept == JobForm!EntriesKept

(* A click on the job form stores at most one job, as shown.                   *)
OneJobPerClick == JobForm!OneJobPerClick

(* The answer of a deletion closes the logs of its job, unless it cannot know. *)
NoPanelOfDeleted == JobList!NoPanelOfDeleted

(* The list of jobs shows what is stored, but for what the page was not told.  *)
ListCatchesUp == JobList!ListCatchesUp

(* A log shown running is shown ended in the end.                              *)
RunningLogsSettle == SyncLog!RunningLogsSettle

(* A click on the monitoring page is told of once.                             *)
ToldOnce == Monitor!ToldOnce

(* Notices go.                                                                 *)
NoticesGo == Monitor!NoticesGo
=============================================================================
