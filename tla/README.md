# Formal model of data-builder

TLA+ models of the parts of data-builder whose correctness depends on order,
timing and failure: the runs of a pipeline, polling change capture, the
scheduler, the execution of a pipeline's graph, the editor that saves it, and
the other pages of the web console with their query caches, requests and
notices. TLC checks them on small instances; TLAPS proves the safety
properties for every instance. Source paths are relative to the repository; `app/` stands for
`backend/app/` (`PROJECT.json` puts `src/` in front of every path).

## The system

A FastAPI process serves a React editor. It stores pipelines, runs, connectors,
CDC jobs and sync logs in PostgreSQL (or SQLite) and publishes Celery tasks to
Redis. Worker processes execute them. A daemon thread in the API process checks
cron schedules and dispatches the watchers of running CDC jobs.

| Component | State it keeps | Operations | Talks to | What is hard | What makes it correct |
|---|---|---|---|---|---|
| Pipeline runs (`services/run_service.py`, `routers/pipelines.py`, `tasks.py`, `celery_app.py`) | `pipeline_runs.status`, `pipelines.status`, `celery_task_id`; messages in Redis; the session of each worker | start, retry, cancel, delete, validate; `_run_pipeline` | database, Redis, execution engine, notifications | cancel against a worker between two commits; a lost worker; redelivery with late acknowledgement; SQLAlchemy writing only changed columns | a timely cancel is kept, no run is forgotten, COMPLETED means executed and written, a delivery writes once, a queued run settles |
| Polling CDC (`services/cdc_service.py`, `tasks.py`) | `cdc_jobs.status`, `last_value`, `celery_task_id`; `cdc_sync_logs`; S3 objects | sync, snapshot, start, stop, `_run_sync`, `_watch_poll`, retries | source table, S3, Redis, scheduler | several tasks of one job; crash between S3 and commit; stale `last_value`; retries | the checkpoint never passes undelivered data; a sync's log closes; a running job delivers |
| Scheduler, cron (`services/scheduler_service.py`) | `created_at` of scheduled runs; its clock | `_check_and_trigger` | run service | checks drift; restart; a fire time seen by two checks | at most one run for a fire time; a fire time clear of checks is run |
| Scheduler, watcher dispatch (same file) | `celery_task_id` of RUNNING jobs | inspect, select, dispatch | Redis, workers, CDC | inspection is stale when used; a watcher still in the broker | a running job has a watcher again after a failure |
| Execution engine (`services/execution_engine.py`) | `_node_outputs`, `node_results` | topological sort, one handler per node type | connectors | cycles, duplicate edges, unknown ids, a failure after a write | inputs before nodes; only cycles refused; the outcome tells what was written |
| Pipeline validation (`services/pipeline_service.py`) | `pipelines.status` | `validate_pipeline` | editor | the same graphs; a run beside it | VALID definitions execute |
| Connectors, S3 writer (`connectors/`, `services/s3_writer.py`) | external | read, write, upload | external systems | partial writes without transactions | seen as outcomes of the callers' steps |
| Connector and catalog services (`services/connector_service.py`, `routers/catalog.py`) | connector rows; none | create, update, delete, test; list schemas, tables, columns | database, connectors | little: one transaction each | seen as the server's steps of the forms and the tree |
| Monitoring API | none | aggregation, export | database | little: read-only | seen as answers to the page |
| Notifications | none | webhook, e-mail | external | failures are swallowed | not modelled |
| Pipeline editor (`frontend/src/stores/pipeline-store.ts`, `pages/PipelineEditorPage.tsx`, `api/pipelines.ts`) | nodes, edges, dirty flag, autosave timer, query cache, requests in flight | edit, rename, autosave, save, validate, run, create, open, leave | API | answers that arrive after further changes; a cache older than the server; a store that outlives the page | an edit is lost only by a known hazard; the screen shows what is stored; a run executes what was drawn |
| Node configuration (`components/pipeline/NodeConfigPanel.tsx`, `api/catalog.ts`) | a node's data, lists, catalog queries | pick, type, select columns; add, change, remove entries | store, catalog | columns that arrive after the table has changed; lists edited by index | selected columns are the table's; a cast's target is a type |
| Schedule panel, run history (`PipelineEditorPage.tsx`, `api/pipelines.ts`) | field and stored expression; the polled list of runs | save, remove; retry, cancel | API | saves crossing; polling that stops and must start again | the last schedule sent stays; a retry is followed to its end |
| Pipeline list (`pages/PipelineListPage.tsx`) | cached list, filter | filter, delete | API | a deletion beside a fetch | the list shows what is there |
| Data table (`components/ui/data-table.tsx`) | sort key and direction | sort | its page | blank and equal values in both directions | every row once, in a stable order |
| Connectors page (`pages/ConnectorsPage.tsx`, `components/connectors/ConnectorForm.tsx`) | one form for creating and editing, chains of save and test | open, edit, submit, close, delete | API | a chain that outlives its form | one connector per click, as shown; "saved" shows what was saved |
| Catalog page and sidebar (`pages/CatalogPage.tsx`, `CatalogSidebar.tsx`, `PipelineCanvas.tsx`) | unfolded connector and schema, selection, drag, preview | toggle, select, drag and drop, refresh | catalog | one schema name for two connectors; rows that change while they are fetched | what is selected or dropped exists; Refresh shows what is newest |
| CDC page (`pages/CDCPage.tsx`, `components/cdc/CDCDetailDrawer.tsx`, `api/cdc.ts`) | job form, list, log panel and drawer, polled logs | choose, create, sync, snapshot, delete, show logs | API | callbacks of an older render; a list read before its job changed; answers that are lost | jobs track their table; one job per click; no logs of deleted jobs; running logs settle |
| Monitoring page and notices (`pages/MonitoringPage.tsx`, `components/ui/toast.tsx`, `ErrorBoundary.tsx`, `api/client.ts`) | three requests, notices with timers | export, push, test; dismiss | API | interceptor and page both tell; timers that restart | a click is told of once; notices go |

`PROJECT.json` lists every component with its status, and under `hazards` what
can go wrong at which line and which property would show it.

## Modules

| Module | Models | Used by |
|---|---|---|
| `PipelineRuns` | the runs of one pipeline: API, broker, workers | `MCPipelineRuns`, `PipelineRunsProofs` |
| `CDCDelivery` | one CDC job: source, syncs, watchers, scheduler dispatch, S3 | `MCCDCDelivery`, `CDCDeliveryProofs` |
| `CronScheduler` | the cron check of one scheduled pipeline in discrete time | `MCCronScheduler`, `CronSchedulerProofs` |
| `ExecutionEngine` | validation and execution of one pipeline definition | `MCExecutionEngine`, `ExecutionEngineProofs` |
| `PipelineEditor` | the editor page of one pipeline, its cache and the API's definition | `Console`, `PipelineEditorProofs` |
| `NodeConfig` | the panel that configures a node | `Console`, `NodeConfigProofs` |
| `SchedulePanel`, `RunHistory` | the other two panels of the editor page | `Console`, `ConsoleProofs` |
| `PipelineList`, `DataTable` | the list of pipelines; the table of every list | `Console`, `ConsoleProofs` |
| `ConnectorForms` | the connector form with its chains, and the connectors stored | `Console`, `FormProofs` |
| `CatalogTree`, `TablePreview` | the catalog page and the editor's sidebar | `Console`, `ConsoleProofs` |
| `CDCJobForm`, `CDCList`, `SyncLogs` | the CDC page: form, list, logs | `Console`, `FormProofs`, `ConsoleProofs` |
| `Monitoring` | the monitoring page and the notices | `Console`, `ConsoleProofs` |
| `Submission` | abstract: what a form that stores rows promises | `ConnectorForms`, `CDCJobForm` |
| `Capture` | abstract: what polling capture promises, whoever polls | `CDCDelivery` |
| `Console` | all of the front end: `PipelineEditor` and an instance of each view | `MCConsole`, and the proof modules named above |

Operators named "Variant" in a comment are the form a plausible mistake would
give to the definition that follows; no specification uses them. They serve to
see that the properties notice the mistake.

### PipelineRuns

A step is whatever happens between two points at which another process can
interleave: a commit, a query that reads a row, an effect outside the database.
`start_run` is `CreateRun` (first commit), `StoreTaskId`, `Dispatch`, with
`StartFails` for an exception in between; `cancel_run` is `CancelRequest`
(status read), `CancelRevoke`, `CancelCommit`. A worker's `pc` follows
`_run_pipeline`: `Receive`, `Load` (skips what is CANCELLED), `MarkRunning`,
`Execute` or `ExecuteRaises`, `Refresh`, `CommitOutcome`, `RecordCrash`, then
`Acknowledge`. `rowSeen` is the status the worker's session loaded, `Flushed`
SQLAlchemy's rule that only changed columns are written. `WorkerLost`,
`VisibilityTimeout` and `Terminate` are the broker and the Celery worker, as
`celery_app.py` configures them (late acknowledgement, reject on worker lost);
at most `MaxRedeliveries` redeliveries of a message. `writes`, `succeeded`, `timely`,
`raised`, `stopped` and `unrecorded` are history. A definition need not have a
destination: `start_run` does not ask for a validated pipeline, and
`tests/test_execution_engine.py:295` executes one of a source and a filter, with
success. The runs of such a definition are `Sinkless`: they are reported COMPLETED and
write nothing, so that COMPLETED is said to mean an execution that succeeded, and a write
where there is a `Destinations` to write. Several destinations of one definition count as
one here; their order and partial writes are `ExecutionEngine`'s. `CreateRun` and `CommitOutcome`
write `pipelines.status` in any case, also where the session has the same value
loaded.

### CDCDelivery

`tracking` gives each row's tracking column; `WriteRow` writes a new version,
at most `MaxLate` of them at or below a value that is already in use (`late`).
A sync is `TriggerSync` or `TriggerSnapshot` (log row, checkpoint copied into
`from`), `SendSync`, then `SyncLoad`, `Query`, `SyncWrite`, `SyncCommit`, with
`SyncTransient` for errors that are retried, `MarkSyncFailed` when retries are
exhausted, `SyncFails` for other errors, `SyncUnrecorded` when the outcome
cannot be committed. The object of a sync is keyed by its log, so a retry
replaces it. A watcher is `WatchBegin`, `WatchRefresh`, `Query`, `WatchWrite`,
`WatchCommit` in a loop. `Inspect`, `SelectOrphan` and `DispatchWatcher` are the
scheduler, which keeps no lock between them. `StopJob` loads the job and revokes
its task, `StopCommit` commits: a dispatch can come between. `MaxFaults` bounds
worker losses, failed publishes and refused commits. Creation, update and
deletion of jobs are not modelled, nor two simultaneous executions of one sync
after a visibility timeout: one that is still between its query and its write while
another delivers would replace the newer object by an older one, so what is
said of `CDCDelivery` is said of syncs that end within that timeout (an hour unless
configured, and it is not).

`Capture` knows neither tasks nor objects. A row that changes is owed (`Change`)
until it is delivered (`Deliver`) or changes again; a delivery is never undone; the
checkpoint may move anywhere below the rows that are owed, backwards too
(`MoveCheckpoint`). A change at or below a value in use is owed to nobody
(`ChangeLate`). `AtLeastOnce` says that `CDCDelivery` implements it with `tracking` for
`version`, `Pending` for `owed` and `lastValue` for `checkpoint`.

### CronScheduler

Time is discrete. `BeginCheck` opens the transaction (`began`, which becomes
`created_at`), `ReadClock` reads `now`, `Decide` or `Skip` compares with
`get_prev` and the recent runs, `Trigger` creates the run. Each of these takes
at most `Delay`; the thread then waits `Interval`. Any of these may raise: `CheckFails` is
the query for the scheduled pipelines, whose exception ends the check ("Scheduler loop
error"), `DecideFails` the query for the recent runs and `TriggerFails` `start_run`, which
are logged for the pipeline. The history records the first by forgetting the checks before it (`checks`),
the others by the fire time that was given up on (`refused`). `ProcessExits` may stop it
anywhere and `StartScheduler` starts it again. `created_at` is taken to be UTC.

### ExecutionEngine

`kind`, `tail` and `head` are the definition, with duplicate edges, loops and
ids of no node, as the API accepts them (both ends of an edge are given;
the empty definition is left out). `Visit` is one iteration of the loop over
`queue`, which `validate_pipeline` and `_topological_sort` have in the same
form; the queue is a set, as nothing stated here depends on which element is
taken. `NodeCompletes` and `NodeFails` are one iteration of the loop in
`execute`; a failing node may have written part of its destination.
`RaiseCycle` and `RaiseStranger` are the two ways in which `execute` raises
instead of returning. The definition does not change between validation and
execution.

### PipelineEditor

A drawing is the set of edits it contains. `identified`, `content` and `isDirty`
are the store, which outlives the page; `cached`, `cache`, `invalidated` and
`fetch` are the query `["pipelines", id]`. A request goes from its click
(`AutoSave`, `ClickSave`, `ClickValidate`, `ClickRun`, `ClickCreate`) through the
server (`ServerSaves`, `ServerCreates`, `ServerStartsRun`) to its answer
(`AutoSaveAnswered`, `SaveAnswered`, `RunSaveAnswered`, `CreateAnswered`,
`CreateSaveAnswered`, `RunAnswered`), which does what follows the `await` whether
or not the page is still open; `RequestFails` loses it on either way. `OpenPage`,
`ServerReads`, `FetchAnswered`, `Refetch`, `Invalidate` and `CacheExpires` are the
query as `@tanstack/react-query` 5 runs it: `invalidateQueries` restarts a fetch
unless it is the first or no page shows the query. `Layout` is React Flow
reporting sizes and selections, which sets the dirty flag. The page is the same
component instance before and after `navigate` from `/pipelines/new`. Buttons are
disabled by their own mutation's latest request only, hence `latestSave` and
`latestRun`.

The code does lose edits. `hazards` records the nine ways in which it does, each
at the step where the user or the network brings it about:

| Hazard | Step |
|---|---|
| `renamed` | the name field is changed with unsaved changes (`loadPipeline` marks them saved) |
| `swept` | a save is answered after further changes (`markClean`) |
| `concurrent` | a definition is sent while another is under way to the server |
| `failed` | a request or fetch fails (an autosave has marked the store clean already) |
| `left` | the page is left with unsaved changes (the timer is cleared) |
| `discarded` | the first save of a new drawing (the created pipeline's empty definition is loaded) |
| `early` | changes on a page whose definition has not arrived |
| `hasty` | the page is opened before the former visit's requests are settled |
| `crossed` | a save is answered while a fetch older than it continues |

With none of them nothing is lost: that is what the run checks. Each of the nine
is needed: without any one of them in the list, `NothingForgotten` is violated.

### NodeConfig, SchedulePanel, RunHistory

`NodeConfig` is one node of any type with its panel. `data` is what the store
keeps of it, `answered` the catalog queries that have data. `PickConnector`,
`PickSchema`, `PickTable` and their typed forms are the cascade; `Populated` is the
effect that copies a table's columns once they are there, which happens with any
step after which the panel shows a key that has data (`Answer`, `SelectNode`, a
pick). The lists of conditions, transformations and aggregations share `Add`,
`RemoveItem` and `SetOperation`. `typed` and a list entry's `carried` record the two
ways in which the code itself lets the data disagree.

`SchedulePanel` has the field (`cronValue`), what the page last read (`known`) and
what is stored (`schedule_cron`). A PUT is sent by `ClickSave` or `ClickRemove`,
served by `update_pipeline` in any order, and answered; a blank field is sent as
nothing. `wanted` is what was last sent, `crossing` that two were under way at once
or one failed. `RunHistory` has the runs at the server, the query that polls while
its data shows an active run (`hasActive`), and the two buttons with the
invalidation that follows their answers.

### PipelineList, DataTable, CatalogTree, TablePreview

In these, as in the views below, a query is `idle`, `sent` or `read`: the server
reads it at a step of its own, so that everything may change between that and the
answer, and an invalidation or a refresh starts it again. `DataTable` has the
comparison of the code (`cmp`, `Before`) and states what JavaScript's stable sort makes
of it: a row's place is the number of those that precede it (`Position`), and
`sortedRows` is the row of each place. A comparison that were no order would leave a
place without a row.
`CatalogTree` keeps its queries by key (`entries`), one unfolded connector and one
unfolded schema *name* (`Observed`), and drags and drops tables of what is shown.
`TablePreview` counts versions of the rows; its Refresh button is disabled while a fetch
is under way, and its variant shows what that is for.

### ConnectorForms, CDCJobForm, Submission

`ConnectorForms` is the one dialog for both purposes. `handleSubmit` starts a chain,
which goes on through the server's `create_connector` or `update_connector`,
`StartTest`, `test_connector` to `Finish`, or is refused anywhere, while the dialog is
edited, closed (`handleClose`), opened for another connector (`handleEdit`) or its page
left (`Leave`); `Finish` shows what it has to say in the dialog as it is then.
`overtaken` records that this may be another one. `CDCJobForm` is the same of one
request and a cascade of choices.

`Submission` states what either promises and knows nothing of dialogs, requests
or pages: rows are stored only for a click, as the form showed them then, in the row
it edited then, and once. Its submissions under way are the chains (requests) whose
stage is `sent`; everything after the server has stored is a stutter.

### CDCList, SyncLogs

`CDCList` is the list, the menu of each row and the log panel (`panel` is `logsJobId`).
The callbacks of `mutate` are those of the render they were clicked in, and only the
latest call's are run. A request is refused, served and answered, served and its answer
lost, or, for a trigger, raised by the broker after RUNNING is committed (`RequestFails`
of a request that is `done`); only an answer invalidates the list. A fetch is tried once
more and then shows its error in place of the rows (`ListFails`, `broken`). The jobs are
changed beside the page by syncs that end, the scheduler, start and stop, the drawer and
other tabs (`ChangedElsewhere`). `outdated` records what the page is not told of: such a
change, a failed fetch, a served request without its answer, an answer that comes when
the page is gone; `excused` that nothing will close the panel. `SyncLogs` is the query of one job's logs behind
panel and drawer: polled while it shows a running one, however many show it.

### Monitoring

Each of three mutations is sent and outlives its page (`left`); its end is told by
`OnSuccess`, or by the client's interceptor in `OnError`. `toasts` are the notices
shown and `armed` those whose timer runs; every change of the list restarts them all.
`OnInvalid` is a refusal with a structured detail, which cannot be drawn: the boundary
shows until `Return`.

### Console

`Console` extends `PipelineEditor` and instantiates every other view over variables of
its own: the views share no state but the server's. Others change that in the lists
(`ChangedElsewhere` of `PipelineList` and `CDCList`), the table (`RowsFetched`), the
preview (`RowsChange`), the run history (`RunStarts`, `RunEnds`), the logs (`SyncStarts`,
`SyncEnds`), and by deletion in the two forms (`delete_connector`, `Delete`). The drawing
and the schedule are those of one tab, which nothing else edits, and the catalog's
schemas, tables and columns do not change. `ConsoleNext` is a step of the view at
hand. A behaviour stays with the view it starts with, so that the states of the views
add up and do not multiply; nothing is lost by this, as no view reads another's
variables, and visits of the same view (leave and come back) are in its module.

## Runs

| Run | Instance | Shows |
|---|---|---|
| `runs_one` | 1 run, 2 workers, 2 redeliveries, fair | CancelHonoured, NoRunForgotten, OneWritePerDelivery, QueuedRunsSettle |
| `runs_pair` | 2 runs (one may be the other's retry), one of them without a destination, 2 workers | ReportedSuccessIsReal where two runs share the pipeline's status |
| `runs_cancel_overwritten` | 1 run | a cancel during execution is overwritten (finding) |
| `cdc_one` | 2 rows, 1 sync, 2 values, 2 retries, 1 fault, 1 late version, fair | SyncLogCloses |
| `cdc_sync` | 2 rows, 2 syncs, 2 values, 1 fault | NoLoss, AtLeastOnce (`Capture` as a PROPERTY): stale commits of overlapping syncs |
| `cdc_running` | 1 row, 2 watchers, 1 fault, fair | RunningJobDelivers |
| `cdc_seen_twice` | 1 row, 2 syncs | two syncs deliver the same version (finding) |
| `cdc_sync_stops_watch` | 1 row, 1 sync, 1 watcher | a sync ends the watcher of its job (finding) |
| `cron_checks` | interval 3, delay 1, fire times 4 and 15, 20 units | AtMostOneRunPerFire, SpacedFiresRun |
| `cron_missed` | interval 3, delay 1, fire time 5 | a fire time in a check's overhead is never run (finding) |
| `engine_graph` | 3 nodes, 1 unknown id, 3 edges: all wirings | TypeOK, InputsFirst, CyclesRefused, ValidatedExecutes, OutcomeTellsAll, ExecutionEnds |
| `console` | each view by itself, fair; sizes below | the properties of the next table |

| View of `console` | Properties |
|---|---|
| all | ViewsTypeOK |
| the drawing (`PipelineEditor`) | NothingForgotten, ScreenIsCurrent, RunSeesClick, EditsAreStored |
| node, schedule, history | SelectionListed, CastsHaveTypes; LastScheduleStays; RetryFollowed |
| pipelines, table | ListsWhatIsThere; ShownInOrder |
| connectors | SavedIsShown, OneConnectorPerClick (`Submission` as a PROPERTY) |
| tree, preview | TreeNamesTables; RefreshShowsLatest |
| job form | JobsTrackTheirTable, EntriesKept, OneJobPerClick (`Submission` as a PROPERTY) |
| jobs, sync logs | NoPanelOfDeleted, ListCatchesUp; RunningLogsSettle |
| monitoring | ToldOnce, NoticesGo |

What a run no longer lists because a theorem states it for every instance (`TypeOK` of
the runs, capture, the cron check and the editor) is not repeated; `NoLoss` and
`ReportedSuccessIsReal` are run where two actors meet.

### Why the bounds are enough

- *Runs.* Every conflict about a run's status is between one API request and at
  most two executions of the same message; two workers and two redeliveries give
  a second execution that itself is redelivered. Runs only share the pipeline's
  status, for which a pair is enough.
- *CDC.* A version is lost when one task commits a checkpoint another task's
  data is below. That takes two tasks, two rows, and two values: one to deliver,
  one to overtake it. Two watchers together with two values, and a sync
  beside a watcher with two rows, are left to the theorem, which has no bounds.
- *Cron.* An interval of 3 and delays of at most 1 make a check's overhead
  a third of the interval, so that neighbouring checks both see a fire time;
  20 units are several checks around two fire times and a restart.
- *Engine.* Three nodes give a join, chains, loops of each length up to three,
  and three edges give duplicates; one stranger gives the count of visited ids
  a wrong contributor.
- *Editor.* An edit is lost when a second one, or a second visit, meets a
  request under way; two requests at a time are a save and what overtakes it.
  Visits are not bounded. The state constraint `UntilHazard` ends a behaviour at
  its first hazard, after which the properties say nothing.

- *Console.* Two edits and two requests together in the drawing; one or two of
  everything else: two connectors with a schema of the same name and different tables,
  one table without columns, two list entries, two rows of two columns with equal and
  blank values, two connectors stored, one chain and one creation at a time (the button is
  disabled while one is pending; a second one needs a new visit and is left to the
  theorems), one job and its two requests (the panel changing between two jobs is left to
the theorem), two runs, two notices. Each conflict above
  is between one request and one later act of the user, or between two requests.

The rows of `cdc_sync` and the workers of `runs_pair` are interchangeable; these two
runs, which check no liveness, use that symmetry. Deadlock is not checked
because every one of these systems may come to rest: all requests made,
all tasks done, bounds reached.

### Fairness

A worker process takes the next step of the code it executes (`WorkStep`,
`SyncStep`, `WatchStep`, `ExecuteStep`): weak fairness, as the operating system
schedules it. Taking a message is such a step: a free Celery worker consumes
its queue. The scheduler thread loops for ever (`SchedulerStep`), and a worker
discards a revoked task it receives (`WatchRevoked`). In the editor the browser
and the server handle every request that does not fail (`RequestStep`), and the
timer expires (`AutoSave`): a render restarts it, but only name, selection, flag
and query data render the page, not edits, so it does unless the user
selects for ever. In the other views timers expire (the polls of `RunHistory` and
`SyncLogs`, the dismissal of a notice in `Monitoring`), the server answers, and a run
or a sync that is active ends; fetches of logs may fail any number of times but not
for ever (strong fairness of `LogsAnswered`: the poll asks again), while
one failed fetch of the run list is what `RetryFollowed` excuses. Nothing is assumed of
users, of the source table, of the clock, of failures or of redeliveries. The
`ExecuteRaises`, `SyncTransient` and similar alternatives of a fair step may be
chosen at any time.

## Findings

- **A cancellation can be overwritten.** `_run_pipeline` refreshes the run
  before it commits the outcome, but not in its `except` branch (`FAILED` is
  written whatever the status), and a cancel committed between refresh and commit
  is lost. `tests/test_run_service.py:190` says the execution "must not overwrite
  its state". What does hold is `CancelHonoured`.
- **A tracking value can be seen twice.** Two syncs of a job sent before either
  commits start from the same checkpoint; `docs/cdc-event-schema.md:75` promises
  that a value "is only seen once across syncs".
- **A manual sync ends a watcher.** When `_run_sync` ends it sets the job IDLE,
  at which the watcher exits; the cdc-v2 foundation design describes
  `POST /sync` as not touching RUNNING.
- **A cron fire time can be missed.** Checks are an interval plus their own
  duration apart but look back one interval only
  (`scheduler_service.py:81-84`).

Seen while reading, and not pursued by a run: a redelivered run writes its
destinations again (bounded by `OneWritePerDelivery`); validation accepts
a cyclic graph when an edge to an unknown id makes the number of visited ids
equal the number of nodes (`CyclesRefused` therefore speaks of closed graphs);
`_run_sync` ignores the `event-jsonl` format; the editor loses edits in the nine
ways listed above, and its schedule cannot be removed (`Remove` saves the former
value, and an empty one is not sent, `PipelineEditorPage.tsx:143`, `388`).

On the other pages, most of it excused by name in a property: the end of a chain shows
in whatever the connector form shows by then (`ConnectorForm.tsx:121`); an edit sends
a blank default connection (`:65`); a test stores a status that no list fetches again
(`api/connectors.ts:63`); a CDC job's late answer empties a form filled again
(`CDCPage.tsx:391`); a typed table keeps the former one's selected columns
(`NodeConfigPanel.tsx:233`) and a changed operation its target (`:463`); a comma typed
into GROUP BY vanishes, so that a second column can only be pasted (`:628`); two saves
of the schedule may arrive in either order (`PipelineEditorPage.tsx:379`); Enter on a row's
Actions button also opens the drawer, as only its click is stopped (`CDCPage.tsx:168`);
failures of tests and deletions are told of twice (`ConnectorsPage.tsx:41`,
`PipelineListPage.tsx:62`); a 422 answer replaces the page by the error boundary
(`client.ts:23`); a webhook push always reports success, as `_send_webhook` swallows its
errors (`notification_service.py:97`); when the first fetch of the statistics fails the
page shows its spinner until the next focus (`MonitoringPage.tsx:95`); runs the scheduler
starts are not shown while no run is active (`api/pipelines.ts:111`).

## Proofs

The proof modules hold for every value of the constants that satisfies the
named assumptions, which TLC also evaluates in each run.

| Theorem | Property | Argument |
|---|---|---|
| `PipelineRunsProofs!TypeCorrect` | TypeOK | inductive as it stands |
| `PipelineRunsProofs!CancellationIsHonoured` | CancelHonoured | a timely cancelled run is CANCELLED or deleted, and no worker is between the load that found it live and the last commit that load can lead to |
| `PipelineRunsProofs!RunsAreNotForgotten` | NoRunForgotten | a run without a final status is not yet sent, in the broker, or with a worker that has still to write or to acknowledge |
| `PipelineRunsProofs!SuccessIsReal` | ReportedSuccessIsReal | a worker with a successful verdict has had a success, and written unless there is no destination |
| `PipelineRunsProofs!WritesNeedDeliveries` | OneWritePerDelivery | writes + waiting copies + workers before their write never exceed 1 + redeliveries; needs a finite set of workers |
| `CDCDeliveryProofs!TypeCorrect` | TypeOK | inductive as it stands |
| `CDCDeliveryProofs!CheckpointNeverPassesData` | NoLoss | below |
| `CDCDeliveryProofs!CaptureIsImplemented` | AtLeastOnce (refinement) | below |
| `CDCDeliveryProofs!CaptureSuffices` | NoLoss, from AtLeastOnce alone | `Capture`'s own invariant, under the mapping |
| `CronSchedulerProofs!TypeCorrect` | TypeOK | inductive as it stands |
| `CronSchedulerProofs!NoDuplicateRuns` | AtMostOneRunPerFire | below |
| `CronSchedulerProofs!SpacedFiresGetRuns` | SpacedFiresRun | below |
| `ExecutionEngineProofs!TypeCorrect` | TypeOK | `in_degree` counts edges from unvisited ids, hence never below 0 |
| `ExecutionEngineProofs!InputsRunFirst` | InputsFirst | below |
| `ExecutionEngineProofs!ExactlyCyclesRefused` | CyclesRefused | below |
| `ExecutionEngineProofs!ValidatedRuns` | ValidatedExecutes | below |
| `ExecutionEngineProofs!OutcomesAreTrue` | OutcomeTellsAll | below |
| `PipelineEditorProofs!TypeCorrect` | TypeOK | inductive as it stands |
| `PipelineEditorProofs!NothingIsForgotten` | NothingForgotten | below |
| `PipelineEditorProofs!ScreenStaysCurrent` | ScreenIsCurrent | below |
| `PipelineEditorProofs!RunsSeeTheirClick` | RunSeesClick | below |
| `NodeConfigProofs!SelectionIsListed` | SelectionListed | below |
| `NodeConfigProofs!CastsAreTyped` | CastsHaveTypes | below |
| `NodeConfigProofs!NodeTypeCorrect` | the panel's types | with `CascadeInv`, `ItemsInv` and `AnsweredInv` |
| `FormProofs!ConnectorTypeCorrect` | the form's types | part of its invariant |
| `FormProofs!SavedFormIsShown` | SavedIsShown | below |
| `FormProofs!ConnectorKeepsPromise` | OneConnectorPerClick (refinement) | below |
| `FormProofs!JobTypeCorrect` | the form's types | part of its invariant |
| `FormProofs!JobsTrack` | JobsTrackTheirTable | below |
| `FormProofs!EntriesAreKept` | EntriesKept (action property) | below |
| `FormProofs!JobKeepsPromise` | OneJobPerClick (refinement) | below |
| `ConsoleProofs!SentScheduleStays` | LastScheduleStays | below |
| `ConsoleProofs!FollowedRunIsPolled` | the safety half of RetryFollowed | below |
| `ConsoleProofs!ListIsTrue` | ListsWhatIsThere | below |
| `ConsoleProofs!TableIsSorted` | ShownInOrder | below |
| `ConsoleProofs!TreeNamesRealTables` | TreeNamesTables | below |
| `ConsoleProofs!RefreshIsLatest` | RefreshShowsLatest | below |
| `ConsoleProofs!NoPanelStays` | NoPanelOfDeleted | below |
| `ConsoleProofs!JobsAreCurrent` | ListCatchesUp | below |
| `ConsoleProofs!LogsAreTrue` | the safety half of RunningLogsSettle | below |
| `ConsoleProofs!ClicksAreToldOnce` | ToldOnce | below |
| `ConsoleProofs!EveryNoticeIsTimed` | the safety half of NoticesGo | below |
| `ConsoleProofs!DrawingIsTheEditor` | the editor's theorems hold of the console | a step of the console is one of the editor or a stutter |
| `ConsoleProofs!ViewsTypeCorrect` | ViewsTypeOK | the views' invariants together |

**CheckpointNeverPassesData.** `NoLoss` alone is not inductive: a commit copies
`newest` to `last_value`, and nothing in `NoLoss` speaks of either before. `IInv`
adds that each task's `from` is itself a complete checkpoint, that its batch
covers what changed between `from` and `newest` (`Covers`), that between S3 write
and commit the batch is in S3, and that a retry's new object contains the
current versions its former object had (`SyncOK`). Stale commits of other tasks
then never matter: any value ever committed was complete when it was read and
completeness is kept by every step, a new version being either above all values
in use or late.

**CaptureIsImplemented, CaptureSuffices.** Every step is a write of the source, a
query, a write to S3 or bookkeeping (`StepIsBookOrWrites`, which the invariance of `IInv`
uses too). A write of the source maps to `Change`, as no object holds a version above
`highest` (`Bounded`, `SyncOK`), or to `ChangeLate`. A write to S3 maps to `Deliver` of the
rows it settles, because it takes nothing back: a sync that replaces its object has
what was current of it in its batch (`SyncOK`), since both executions query from the
checkpoint in their message. TLC finds the promise broken when `SyncLoad` takes the job's
checkpoint instead. Bookkeeping maps to `MoveCheckpoint`, as the value committed is complete
(`CommitIsComplete`), and a query to a stutter. `CaptureSuffices` shows the abstraction
to be strong enough: `NoLoss` follows from `Capture`'s four actions.

**NoDuplicateRuns.** A run's `created_at` is at most `Delay` before the fire time
it is for (`RunOK`), a check that finds the fire time due reads its clock at most
one interval after it (`DecisionOK`), so with `Delay <= Interval` the first
run is younger than two intervals at the second check. The assumption is the
weakest under which the code's window of two intervals suffices.

**SpacedFiresGetRuns.** Some check before is followed by the next within an interval and
three delays, or four if it had something to do itself (`PaceOK`). A fire time that is
clear of the former's overhead is therefore due at the latter: in the second case the
spacing makes up for the fourth delay. A check whose first query raised is not one of
`checks`, and neither is any before it. A recent run found there was created at most an
interval and two delays after its own fire time (`CreatedOK`), so it cannot be an earlier
one's (`FoundDue`).

**InputsRunFirst, ExactlyCyclesRefused.** `IInv` says that for each id
`inDegree` is the number of edges that enter it from unvisited ids, that ids in
the queue have none and that other unvisited nodes have one (`VisitOK`), that
each id comes after its predecessors (`OrderOK`) and that the order has no
repetition (`CountOK`). `InputsFirst` follows because what has run is a prefix of
the order. For cycles, no set of nodes in which each has a predecessor is ever
entered (`LoopsOut`); if all nodes are visited there is hence no such set, and if
the visit ends earlier the unvisited nodes are one.

**ValidatedRuns, OutcomesAreTrue.** The order has no id twice (`NoRepeat`), so the node that
runs next has no output yet and all its predecessors have (`NodeIsNew`). Nodes with an
output are completed and written, the others have no result until one fails
(`ResultsOK`); a success has run all of `Nodes` because its order is as long as `Nodes`
and an unknown id in it would have raised (`AllHaveRun`). A join that validation
accepted has two inputs (`JoinsOK`), which then have outputs.

**NothingIsForgotten, ScreenStaysCurrent, RunsSeeTheirClick.** Hazards are only
ever added, so it is enough to show `Safe` for states without one. There the
screen is exactly what the user has drawn (`DrawnOK`), at most one definition is
under way and it contains the stored one (`PutOK`), what is not marked unsaved is
stored or under way (`CleanOK`), and valid data of the cache is what is stored
unless an answer is still to invalidate it (`CacheOK`). The last is what opening
the page relies on: without former requests the cache is the database.

The theorems about the other views are of `ConsoleSpec`, the specification the run
checks. Each proof first shows that a step of the console is a step of its view or
leaves it alone (`InView`, or a step of the invariance lemma).

**SelectionIsListed, CastsAreTyped.** A source's columns, if it has any and nothing was
typed, are those of the key its data names, and every selected one is among them
(`CascadeOK`): each pick clears what is behind it, and `Populated` only ever fills in the
columns of the key that is shown. Lists of any length keep every cast whose target was
not carried over with a type or a blank (`CastOK`), where removal shifts entries
(`Removed`) but makes none.

**SavedFormIsShown.** While a chain may still end in the form it shows what the chain
carries, unless it was overtaken (`ConnectorFormInv`), and a stored chain names a row
(`ChainsInv`).

**JobsTrack.** A column is only ever in the form together with the table it belongs to
(`ChosenInOrder`, `JobFormTracks`): so are the requests sent (`RequestsTrack`), and then the
jobs stored.

**EntriesAreKept.** Every step that changes the form, whether or not it is open, is one of
the user's or the answer of a request of this visit that stored a job
(`EntriesGoForReason`). Until the form is changed it shows what that request
carries (`JobShown`), so that the answer that empties it has stored just that. The request
is the only one of this page: the button is disabled while it is pending, and the requests
of a former visit are no longer `here`.

**ConnectorKeepsPromise, JobKeepsPromise.** The refinement: a click maps to `Click`, the server's storing to
`Store`, a refusal before it to `Lose`, a deletion to `Remove`, an act on the form to
`Compose` and everything else to a stutter.

**SentScheduleStays.** `LastScheduleStays` speaks of a state at rest. While no two
requests were under way at once and none failed, there is at most one, and what was last
sent is what the pipeline will have once it is served (`ScheduleInv`): the expression it
carries, or, when that is blank and hence not sent, the one that is stored.

**FollowedRunIsPolled.** A run that a retry started and whose end was not shown is never
left to a list that has gone to sleep: the list is fetched, or its answer was read after
the run was there, or the run is shown active, at which the list polls (`HistoryInv`). The
invalidation that follows the retry's answer is what makes the second case true, as it
drops an answer read before.

**ListIsTrue, JobsAreCurrent.** Whatever is read, under way or shown differs from what is
stored at most in rows that a request, handled but not yet answered, has changed
(`SeenBut`, `ShotBut`); the answer of that request fetches the list again. What breaks this
is recorded (`unseen`, `outdated`): changes elsewhere, failed fetches and, for jobs, requests
served of which the page is not told. With nothing
under way there is no such row. A list that has never been read is told apart
(`loaded`), and the commands on jobs follow the first answer, since they are given in it.

**NoPanelStays.** The panel of a job that is gone waits for the deletion that took it away,
and each deletion under way of the job whose panel is shown is one that closes it when it
is answered (`JobListInv`). The second part fails when the panel was opened after the click
or another deletion's `mutate` took the callback's place, the first when the answer is lost
or the job was deleted elsewhere; `excused` records these.

**TableIsSorted.** `RowsAreOrdered`: with a comparison of cells that puts blanks last
(`CellsCompare`) the rows are strictly and totally ordered by `Precedes` in both
directions, ties by place. So if one row precedes another, its set of predecessors is a
proper subset of the other's, and their numbers differ (`RowsHavePlaces`); the places are
thus an injection of a finite set into itself, hence onto, and every place has just one
row. The invariant it takes is that there is a direction just when there is a column, which
is one of the table's.

**TreeNamesRealTables.** `TreeNamesTables` speaks of what is selected or dragged, the
invariant of the cache: under each key are schemas or tables of the connector and schema of
the query with that key (`TreeInv`). No two queries share a key (`KeysDiffer`), although
two connectors may each have a schema of the same name and the tree remembers only the
name. What is shown is then always there (`ShownIsThere`).

**RefreshIsLatest.** An answer that was read, and not only the one that is shown, is no
older than the last click of Refresh (`PreviewInv`): the button is only enabled when
nothing is being fetched, so that the click's own fetch is still to be read.

**LogsAreTrue.** Both the logs shown and an answer on its way count no more syncs than have
started and no more ended ones than have ended (`LogsTrue`).

**ClicksAreToldOnce, EveryNoticeIsTimed.** Inductive together with the types
(`MonitorInv`).

**ViewsTypeCorrect.** The types are part of each view's invariant, as most are not inductive
by themselves: that a query's key is of given parts needs `CascadeInv`, that a job's panel
is one of a job needs the commands' jobs, and so on.

What TLC alone checks is liveness (`QueuedRunsSettle`, `SyncLogCloses`,
`RunningJobDelivers`, `ExecutionEnds`, `EditsAreStored`, `RetryFollowed`,
`RunningLogsSettle`, `NoticesGo`), which the prover cannot treat: it has no rule for
ENABLED. Every safety property of the passing runs is a theorem.

The assumptions on the constants are what the code's data give: "nothing" and the blank
text are none of the names, keys, rows and schedules they stand beside, bounds are natural
numbers, each table has its columns, and sets that are counted are finite. The one about
time is that of **NoDuplicateRuns**.

## Not modelled

Notifications, the queries of the catalog and monitoring services, SQL text, row
contents and their serialisation, WAL and MongoDB capture (which raise
`NotImplementedError` or are design documents), database migrations, and the front
end's drawing and wording. Notifications and logging change no state that a property is
about. Of `NodeConfig` labels, join keys, GROUP BY columns and the write mode are left
out; of the connectors page the Test button of a row; of CDC the update of a job, for
which there is no form.

## Plan

In order of importance; the first seven are done.

1. `PipelineRuns` with its runs and proofs.
2. `CDCDelivery` with its runs and proofs.
3. `CronScheduler` with its runs and proofs.
4. `ExecutionEngine`: graph, order and outcome, with its run and proofs.
5. `PipelineEditor` with its run and proofs.
6. The other views of the console, `Submission`, `Console` with its run, and the
   proofs about every view.
7. `Capture` and that `CDCDelivery` implements it, checked and proved.
8. `WatcherDispatch`: several CDC jobs that share the workers' slots; watchers never
   return, redelivered watchers occupy further slots. Properties: a running job is
   eventually watched when slots suffice; jobs that raise at once do not starve others.
9. The relational operators (filter, join, aggregate) as operators, checked against
   reference definitions over bounded tables.

A run has no such abstraction: a redelivered message and a cancel that
commits late lead from every status to nearly every other, so what there is to say is
said by the properties of `PipelineRuns`.

## How to check

    tlc -workers 2 -config PipelineRuns_one.cfg MCPipelineRuns.tla
    tlapm PipelineRunsProofs.tla

and likewise for the other configurations (named `<module>_<run>.cfg`, with the
module `MC<module>`) and proof modules.
