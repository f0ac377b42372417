---------------------------- MODULE ConsoleProofs ----------------------------
(***************************************************************************)
(* Proofs about the views of the console that have no proof module of      *)
(* their own, for any number of pipelines, jobs, runs, tables, rows and    *)
(* requests under way; and with them that every variable of the console    *)
(* stays within its type.                                                  *)
(***************************************************************************)
EXTENDS PipelineEditorProofs, NodeConfigProofs, FormProofs, Integers, FiniteSetTheorems, TLAPS

----------------------------------------------------------------------------
(* The monitoring page and its notices.                                        *)

(* Every notice that is shown has its timer.                                   *)
MonitorInv == Monitor!TypeOK /\ Monitor!ToldOnce /\ armed = toasts

(* An application that was just loaded, at first or anew.                      *)
LEMMA MonitorFresh ==
  ASSUME stats = "unasked", days = TRUE, webhookUrl = FALSE, toasts = {}, armed = {},
         mutation = [k \in Monitor!Kinds |-> "idle"], left = {}, crashed = FALSE,
         owed = [k \in Monitor!Kinds |-> 0]
  PROVE  MonitorInv
<1>1. owed \in [Monitor!Kinds -> Int] /\ \A k \in Monitor!Kinds : owed[k] = 0
  OBVIOUS
<1>2. mutation \in [Monitor!Kinds -> {"idle", "sent", "done", "refused", "invalid"}]
  OBVIOUS
<1>3. \A k \in Monitor!Kinds : mutation[k] = "idle"
  OBVIOUS
<1>. QED
  BY <1>1, <1>2, <1>3 DEF MonitorInv, Monitor!TypeOK, Monitor!ToldOnce

LEMMA MonitorStep ==
  ASSUME MonitorInv, [Monitor!Next]_(Monitor!vars)
  PROVE  MonitorInv'
<1>. USE DEF MonitorInv, Monitor!TypeOK, Monitor!ToldOnce, Monitor!noticeVars
<1>1. CASE Monitor!Dismiss
  BY <1>1 DEF Monitor!Dismiss, Monitor!removeToast
<1>2. CASE Monitor!OtherFails
  BY <1>2 DEF Monitor!OtherFails, Monitor!addToast
<1>3. CASE Monitor!Return
  <2>1. /\ stats' = "unasked" /\ days' = TRUE /\ webhookUrl' = FALSE
        /\ toasts' = {} /\ armed' = {} /\ crashed' = FALSE
        /\ mutation' = [k \in Monitor!Kinds |-> "idle"] /\ left' = {}
        /\ owed' = [k \in Monitor!Kinds |-> 0]
    BY <1>3 DEF Monitor!Return
  <2>2. owed' \in [Monitor!Kinds -> Int] /\ \A k \in Monitor!Kinds : owed'[k] = 0
    BY <2>1
  <2>3. mutation' \in [Monitor!Kinds -> {"idle", "sent", "done", "refused", "invalid"}]
    BY <2>1
  <2>. QED
    BY <2>1, <2>2, <2>3
<1>4. CASE Monitor!OpenPage \/ Monitor!StatsAnswered \/ Monitor!EditFields
  BY <1>4 DEF Monitor!OpenPage, Monitor!StatsAnswered, Monitor!EditFields, Monitor!Visible
<1>5. CASE Monitor!StatsFail
  BY <1>5 DEF Monitor!StatsFail, Monitor!addToast
<1>6. CASE Monitor!Leave
  BY <1>6 DEF Monitor!Leave
<1>7. ASSUME NEW k \in Monitor!Kinds, Monitor!Click(k) PROVE MonitorInv'
  BY <1>7 DEF Monitor!Click, Monitor!Visible
<1>8. ASSUME NEW k \in Monitor!Kinds, Monitor!Serve(k) PROVE MonitorInv'
  BY <1>8 DEF Monitor!Serve
<1>9. ASSUME NEW k \in Monitor!Kinds, Monitor!OnSuccess(k) PROVE MonitorInv'
  BY <1>9 DEF Monitor!OnSuccess, Monitor!Settle, Monitor!Told, Monitor!addToast
<1>10. ASSUME NEW k \in Monitor!Kinds, Monitor!OnError(k) PROVE MonitorInv'
  BY <1>10 DEF Monitor!OnError, Monitor!Settle, Monitor!Told, Monitor!addToast
<1>11. ASSUME NEW k \in Monitor!Kinds, Monitor!OnInvalid(k) PROVE MonitorInv'
  <2>1. CASE k = "export"
    BY <1>11, <2>1 DEF Monitor!OnInvalid, Monitor!Settle, Monitor!Told, Monitor!addToast
  <2>2. CASE k # "export"
    BY <1>11, <2>2 DEF Monitor!OnInvalid, Monitor!Settle
  <2>. QED
    BY <2>1, <2>2
<1>12. CASE UNCHANGED Monitor!vars
  BY <1>12 DEF Monitor!vars
<1>. QED
  BY <1>1, <1>2, <1>3, <1>4, <1>5, <1>6, <1>7, <1>8, <1>9, <1>10, <1>11, <1>12 DEF Monitor!Next

LEMMA MonitorInvariance == ConsoleSpec => []MonitorInv
<1>1. ConsoleInit => MonitorInv
  BY MonitorFresh DEF ConsoleInit, Monitor!Init
<1>2. [ConsoleNext]_consoleVars => [Monitor!Next]_(Monitor!vars)
  BY DEF ConsoleNext, consoleVars, monitorVars, Monitor!vars
<1>3. MonitorInv /\ [ConsoleNext]_consoleVars => MonitorInv'
  BY <1>2, MonitorStep
<1>. QED
  BY <1>1, <1>3, PTL DEF ConsoleSpec

(* A click on the monitoring page is told of exactly once while its page       *)
(* stays, and at most once when it was left.                                   *)
THEOREM ClicksAreToldOnce == ConsoleSpec => []ToldOnce
<1>1. MonitorInv => ToldOnce
  BY DEF MonitorInv, ToldOnce
<1>. QED
  BY <1>1, MonitorInvariance, PTL

(* No notice is ever without the timer that takes it away, however additions   *)
(* and dismissals restart the timers of the others.                            *)
THEOREM EveryNoticeIsTimed == ConsoleSpec => [](armed = toasts)
<1>1. MonitorInv => armed = toasts
  BY DEF MonitorInv
<1>. QED
  BY <1>1, MonitorInvariance, PTL

----------------------------------------------------------------------------
(* The schedule panel.                                                         *)

(* What the pipeline will have once the requests under way are handled is what *)
(* was last sent, until one is sent beside another or fails.                   *)
ScheduleInv ==
  /\ Schedule!TypeOK
  /\ ~crossing =>
       /\ \A s, t \in Slots : put[s].stage = "sent" /\ put[t].stage = "sent" => s = t
       /\ \A s \in Slots : put[s].stage = "sent" =>
            wanted = IF put[s].cron = Blank THEN schedule_cron ELSE put[s].cron
       /\ (\A s \in Slots : put[s].stage # "sent") => wanted = schedule_cron

LEMMA ScheduleStep ==
  ASSUME ScheduleInv, [Schedule!Next]_(Schedule!vars)
  PROVE  ScheduleInv'
<1>. USE DEF ScheduleInv, Schedule!TypeOK, Schedule!panelVars
<1>1. CASE Schedule!OpenEditor
  BY <1>1 DEF Schedule!OpenEditor
<1>2. CASE Schedule!LeaveEditor
  BY <1>2 DEF Schedule!LeaveEditor
<1>3. CASE Schedule!DataArrives \/ Schedule!ToggleSchedule
  BY <1>3 DEF Schedule!DataArrives, Schedule!ToggleSchedule
<1>4. ASSUME NEW c \in Crons \cup {Blank}, Schedule!TypeCron(c) PROVE ScheduleInv'
  BY <1>4 DEF Schedule!TypeCron
<1>5. ASSUME NEW s \in Slots, Schedule!handleSaveSchedule(s),
             UNCHANGED <<editing, showSchedule, known, schedule_cron>>,
             cronValue' \in {cronValue, Blank}
      PROVE  ScheduleInv'
  BY <1>5 DEF Schedule!handleSaveSchedule, Schedule!Free
<1>6. ASSUME NEW s \in Slots, Schedule!ClickSave(s) \/ Schedule!ClickRemove(s)
      PROVE  ScheduleInv'
  BY <1>5, <1>6 DEF Schedule!ClickSave, Schedule!ClickRemove
<1>7. ASSUME NEW s \in Slots, Schedule!update_pipeline(s) PROVE ScheduleInv'
  BY <1>7 DEF Schedule!update_pipeline
<1>8. ASSUME NEW s \in Slots, Schedule!SaveAnswered(s) PROVE ScheduleInv'
  BY <1>8 DEF Schedule!SaveAnswered, Schedule!Free
<1>9. ASSUME NEW s \in Slots, Schedule!SaveFails(s) PROVE ScheduleInv'
  BY <1>9 DEF Schedule!SaveFails, Schedule!Free
<1>10. CASE UNCHANGED Schedule!vars
  BY <1>10 DEF Schedule!vars
<1>. QED
  BY <1>1, <1>2, <1>3, <1>4, <1>6, <1>7, <1>8, <1>9, <1>10 DEF Schedule!Next

LEMMA ScheduleInvariance == ConsoleSpec => []ScheduleInv
<1>1. ConsoleInit => ScheduleInv
  <2>1. Schedule!Free \in [stage : {"free", "sent", "stored"}, cron : Crons \cup {Blank},
                           here : BOOLEAN]
    BY DEF Schedule!Free
  <2>2. Schedule!Init => put \in [Slots -> {Schedule!Free}]
    BY DEF Schedule!Init
  <2>3. Schedule!Free.stage = "free"
    BY DEF Schedule!Free
  <2>. QED
    BY <2>1, <2>2, <2>3 DEF ConsoleInit, Schedule!Init, ScheduleInv, Schedule!TypeOK
<1>2. [ConsoleNext]_consoleVars => [Schedule!Next]_(Schedule!vars)
  BY DEF ConsoleNext, consoleVars, scheduleVars, Schedule!vars, Schedule!panelVars
<1>3. ScheduleInv /\ [ConsoleNext]_consoleVars => ScheduleInv'
  BY <1>2, ScheduleStep
<1>. QED
  BY <1>1, <1>3, PTL DEF ConsoleSpec

(* With nothing under way the pipeline has the schedule that was last sent,    *)
(* unless two crossed or one failed.                                           *)
THEOREM SentScheduleStays == ConsoleSpec => []LastScheduleStays
<1>1. ScheduleInv => LastScheduleStays
  BY DEF ScheduleInv, LastScheduleStays, Schedule!LastScheduleStays
<1>. QED
  BY <1>1, ScheduleInvariance, PTL

----------------------------------------------------------------------------
(* The run history.                                                            *)

(* A run that is followed has been started, and is not shown ended.            *)
HistoryInv ==
  /\ History!TypeOK
  /\ retry.stage \in {"sent", "done"} => retry.of \in Runs
  /\ retry.stage = "done" => retry.new \in Runs /\ run[retry.new] # "none"
  /\ followed # None =>
       /\ visited /\ run[followed] # "none"
       /\ \/ runsFetch = "sent"
          \/ runsFetch = "read" /\ runsAnswer[followed] # "none"
          \/ runsFetch = "idle" /\ runs[followed] = "active"

(* The steps of the query, of the buttons and of the server.                   *)
LEMMA HistoryStep ==
  ASSUME History!HistoryAssumption, HistoryInv, [History!Next]_(History!vars)
  PROVE  HistoryInv'
<1>. USE DEF HistoryInv, History!TypeOK, History!Shots, History!HistoryAssumption
<1>1. CASE History!Poll \/ History!Refocus
  BY <1>1 DEF History!Poll, History!Refocus, History!Ask
<1>2. CASE History!ServerReads
  BY <1>2 DEF History!ServerReads
<1>3. CASE History!RunsAnswered
  BY <1>3 DEF History!RunsAnswered, History!NoShot
<1>4. CASE History!RunsFail
  BY <1>4 DEF History!RunsFail, History!NoShot
<1>5. CASE History!OpenEditor \/ History!LeaveEditor
  BY <1>5 DEF History!OpenEditor, History!LeaveEditor
<1>6. CASE History!cancel_run
  BY <1>6 DEF History!cancel_run
<1>7. CASE History!RetryAnswered
  BY <1>7 DEF History!RetryAnswered, History!Invalidate, History!NoShot, History!Idle
<1>8. CASE History!CancelAnswered
  BY <1>8 DEF History!CancelAnswered, History!Invalidate, History!NoShot, History!Idle
<1>9. CASE History!ButtonFails
  BY <1>9 DEF History!ButtonFails, History!Idle
<1>10. ASSUME NEW r \in Runs, History!handleRetry(r) \/ History!handleCancel(r) PROVE HistoryInv'
  <2>1. /\ UNCHANGED <<run, visited, runs, runsFetch, runsAnswer, followed>>
        /\ \/ retry' = [stage |-> "sent", of |-> r, new |-> None] /\ UNCHANGED cancel
           \/ cancel' = [stage |-> "sent", of |-> r, new |-> None] /\ UNCHANGED retry
    BY <1>10 DEF History!handleRetry, History!handleCancel, History!Idle
  <2>2. [stage |-> "sent", of |-> r, new |-> None] \in
          [stage : {"idle", "sent", "done", "refused"}, of : Runs \cup {None},
           new : Runs \cup {None}]
    OBVIOUS
  <2>. QED
    BY <2>1, <2>2
<1>11. ASSUME NEW r \in Runs, History!retry_run(r) PROVE HistoryInv'
  BY <1>11 DEF History!retry_run
<1>12. ASSUME NEW r \in Runs, History!RunStarts(r) \/ History!RunEnds(r) PROVE HistoryInv'
  BY <1>12 DEF History!RunStarts, History!RunEnds
<1>13. CASE UNCHANGED History!vars
  BY <1>13 DEF History!vars
<1>. QED
  BY <1>1, <1>2, <1>3, <1>4, <1>5, <1>6, <1>7, <1>8, <1>9, <1>10, <1>11, <1>12, <1>13
     DEF History!Next

LEMMA HistoryInvariance == ConsoleSpec => []HistoryInv
<1>1. ConsoleInit => HistoryInv
  <2>1. History!Idle \in [stage : {"idle", "sent", "done", "refused"}, of : Runs \cup {None},
                          new : Runs \cup {None}]
        /\ History!Idle.stage = "idle"
    BY DEF History!Idle
  <2>2. History!NoShot \in History!Shots
    BY DEF History!NoShot, History!Shots
  <2>3. [Runs -> {"none", "retryable"}] \subseteq History!Shots
    BY DEF History!Shots
  <2>. QED
    BY <2>1, <2>2, <2>3 DEF ConsoleInit, History!Init, HistoryInv, History!TypeOK
<1>2. [ConsoleNext]_consoleVars => [History!Next]_(History!vars)
  BY DEF ConsoleNext, consoleVars, runVars, History!vars
<1>3. HistoryInv /\ [ConsoleNext]_consoleVars => HistoryInv'
  BY <1>2, HistoryStep, ConsoleAssumption
<1>. QED
  BY <1>1, <1>3, PTL DEF ConsoleSpec

(* While a run that a retry has started is not yet shown ended, the list is    *)
(* being fetched or polls: the run is never left to a list that has gone to    *)
(* sleep, whatever fetch was under way when the retry was answered.            *)
THEOREM FollowedRunIsPolled ==
  ConsoleSpec => [](followed # None => visited /\ (runsFetch # "idle" \/ History!hasActive))
<1>1. HistoryInv => (followed # None => visited /\ (runsFetch # "idle" \/ History!hasActive))
  BY DEF HistoryInv, History!TypeOK, History!hasActive
<1>. QED
  BY <1>1, HistoryInvariance, PTL

----------------------------------------------------------------------------
(* The list of pipelines.                                                      *)

(* A shot differs from what is there only where a deletion has been handled    *)
(* whose answer is still to come.                                              *)
SeenBut(shot) ==
  \A p \in Pipelines :
    shot[p] = pipeline[p] \/ \E s \in Slots : deletion[s].done /\ deletion[s].of = p

ListInv ==
  /\ List!TypeOK
  /\ mounted /\ listFetch = "idle" => loaded \/ unseen
  /\ ~unseen /\ loaded /\ listFetch = "idle" => SeenBut(pipelines)
  /\ ~unseen /\ listFetch = "read" => SeenBut(listAnswer)

LEMMA ListStep ==
  ASSUME ListInv, [List!Next]_(List!vars)
  PROVE  ListInv'
<1>. USE DEF ListInv, List!TypeOK, List!queryVars, List!Shots, SeenBut
<1>1. CASE List!Mount \/ List!Leave \/ List!Refocus
  BY <1>1 DEF List!Mount, List!Leave, List!Refocus
<1>2. CASE List!ServerReads
  BY <1>2 DEF List!ServerReads
<1>3. CASE List!ListAnswered
  BY <1>3 DEF List!ListAnswered, List!Nothing
<1>4. CASE List!ListFails
  BY <1>4 DEF List!ListFails, List!Nothing
<1>5. ASSUME NEW f \in List!Statuses \cup {"all"}, List!SetFilter(f) PROVE ListInv'
  BY <1>5 DEF List!SetFilter
<1>6. ASSUME NEW s \in Slots, List!delete_pipeline(s) PROVE ListInv'
  <2>. DEFINE q == deletion[s].of
  <2>1. pipeline' = [pipeline EXCEPT ![q] = "gone"] /\ pipeline' \in List!Shots
    BY <1>6 DEF List!delete_pipeline
  <2>2. /\ deletion' \in [Slots -> [of : Pipelines \cup {None}, done : BOOLEAN]]
        /\ deletion'[s].done /\ deletion'[s].of = q
        /\ \A t \in Slots : t # s => deletion'[t] = deletion[t]
    <3>1. deletion' = [deletion EXCEPT ![s] = [deletion[s] EXCEPT !.done = TRUE]]
      BY <1>6 DEF List!delete_pipeline
    <3>2. ASSUME NEW d \in [of : Pipelines \cup {None}, done : BOOLEAN]
          PROVE  /\ [d EXCEPT !.done = TRUE] \in [of : Pipelines \cup {None}, done : BOOLEAN]
                 /\ [d EXCEPT !.done = TRUE].done /\ [d EXCEPT !.done = TRUE].of = d.of
      BY ONLY <3>2
    <3>. QED
      BY <3>1, <3>2
  <2>3. UNCHANGED <<pipelines, loaded, listFetch, listAnswer, mounted, statusFilter, unseen>>
    BY <1>6 DEF List!delete_pipeline
  <2>4. ASSUME NEW shot, SeenBut(shot)
        PROVE  \A p \in Pipelines : shot[p] = pipeline'[p]
                 \/ \E t \in Slots : deletion'[t].done /\ deletion'[t].of = p
    BY <2>1, <2>2, <2>4
  <2>. QED
    BY <2>1, <2>2, <2>3, <2>4
<1>7. ASSUME NEW s \in Slots, List!DeleteAnswered(s) PROVE ListInv'
  BY <1>7 DEF List!DeleteAnswered, List!Invalidate, List!Nothing, List!Free
<1>8. ASSUME NEW s \in Slots, List!DeleteFails(s) PROVE ListInv'
  BY <1>8 DEF List!DeleteFails, List!Free
<1>9. ASSUME NEW s \in Slots, NEW p \in Pipelines, List!handleDelete(s, p) PROVE ListInv'
  <2>1. /\ deletion' \in [Slots -> [of : Pipelines \cup {None}, done : BOOLEAN]]
        /\ \A t \in Slots : deletion[t].done => deletion'[t] = deletion[t]
    <3>1. deletion' = [deletion EXCEPT ![s] = [deletion[s] EXCEPT !.of = p]] /\ ~deletion[s].done
      BY <1>9 DEF List!handleDelete, List!Free
    <3>2. [deletion[s] EXCEPT !.of = p] \in [of : Pipelines \cup {None}, done : BOOLEAN]
      OBVIOUS
    <3>. QED
      BY <3>1, <3>2
  <2>2. UNCHANGED <<pipeline, pipelines, loaded, listFetch, listAnswer, mounted, statusFilter,
                    unseen>>
    BY <1>9 DEF List!handleDelete
  <2>. QED
    BY <2>1, <2>2
<1>10. ASSUME NEW p \in Pipelines, NEW status \in List!Statuses, List!ChangedElsewhere(p, status)
       PROVE  ListInv'
  BY <1>10 DEF List!ChangedElsewhere
<1>11. CASE UNCHANGED List!vars
  BY <1>11 DEF List!vars
<1>. QED
  BY <1>1, <1>2, <1>3, <1>4, <1>5, <1>6, <1>7, <1>8, <1>9, <1>10, <1>11 DEF List!Next

LEMMA ListInvariance == ConsoleSpec => []ListInv
<1>1. ConsoleInit => ListInv
  <2>1. List!Nothing \in List!Shots /\ [Pipelines -> {"draft", "gone"}] \subseteq List!Shots
    BY DEF List!Nothing, List!Shots, List!Statuses
  <2>2. List!Free \in [of : Pipelines \cup {None}, done : BOOLEAN]
    BY DEF List!Free
  <2>. QED
    BY <2>1, <2>2 DEF ConsoleInit, List!Init, ListInv, List!TypeOK
<1>2. [ConsoleNext]_consoleVars => [List!Next]_(List!vars)
  BY DEF ConsoleNext, consoleVars, listVars, List!vars, List!queryVars
<1>3. ListInv /\ [ConsoleNext]_consoleVars => ListInv'
  BY <1>2, ListStep
<1>. QED
  BY <1>1, <1>3, PTL DEF ConsoleSpec

(* With nothing under way the page lists the pipelines that are there, in any  *)
(* crossing of deletions, fetches and visits.                                  *)
THEOREM ListIsTrue == ConsoleSpec => []ListsWhatIsThere
<1>1. ListInv => ListsWhatIsThere
  BY DEF ListInv, List!TypeOK, SeenBut, ListsWhatIsThere, List!ListsWhatIsThere, List!rows,
         List!Free
<1>. QED
  BY <1>1, ListInvariance, PTL

----------------------------------------------------------------------------
(* The preview of a table's rows.                                              *)

(* What is being answered was read after the last click of Refresh.            *)
PreviewInv ==
  /\ Preview!TypeOK /\ Preview!RefreshShowsLatest
  /\ previewFetch = "read" => reading >= refreshed

LEMMA PreviewStep ==
  ASSUME Preview!PreviewAssumption, PreviewInv, [Preview!Next]_(Preview!vars)
  PROVE  PreviewInv'
<1>. USE DEF PreviewInv, Preview!TypeOK, Preview!RefreshShowsLatest, Preview!PreviewAssumption
<1>1. CASE Preview!Select
  BY <1>1 DEF Preview!Select
<1>2. CASE Preview!RowsChange
  BY <1>2 DEF Preview!RowsChange
<1>3. CASE Preview!Refresh \/ Preview!Refocus
  BY <1>3 DEF Preview!Refresh, Preview!Refocus
<1>4. CASE Preview!PreviewRead
  BY <1>4 DEF Preview!PreviewRead
<1>5. CASE Preview!PreviewAnswered
  BY <1>5 DEF Preview!PreviewAnswered
<1>6. CASE Preview!PreviewFails
  BY <1>6 DEF Preview!PreviewFails
<1>7. CASE UNCHANGED Preview!vars
  BY <1>7 DEF Preview!vars
<1>. QED
  BY <1>1, <1>2, <1>3, <1>4, <1>5, <1>6, <1>7 DEF Preview!Next

LEMMA PreviewInvariance == ConsoleSpec => []PreviewInv
<1>1. ConsoleInit => PreviewInv
  <2>1. 0 \in 0..MaxVersions /\ -1 \in -1..0
    BY ConsoleAssumption DEF Preview!PreviewAssumption
  <2>2. Preview!Init => Preview!TypeOK
    BY <2>1, Zenon DEF Preview!Init, Preview!TypeOK
  <2>3. Preview!Init => Preview!RefreshShowsLatest /\ previewFetch # "read"
    BY DEF Preview!Init, Preview!RefreshShowsLatest
  <2>. QED
    BY <2>2, <2>3 DEF ConsoleInit, PreviewInv
<1>2. [ConsoleNext]_consoleVars => [Preview!Next]_(Preview!vars)
  BY DEF ConsoleNext, consoleVars, previewVars, Preview!vars
<1>3. PreviewInv /\ [ConsoleNext]_consoleVars => PreviewInv'
  BY <1>2, PreviewStep, ConsoleAssumption
<1>. QED
  BY <1>1, <1>3, PTL DEF ConsoleSpec

(* When a fetch that Refresh started has been answered, the rows shown are no  *)
(* older than the click, for any number of changes.                            *)
THEOREM RefreshIsLatest == ConsoleSpec => []RefreshShowsLatest
<1>1. PreviewInv => RefreshShowsLatest
  BY DEF PreviewInv, RefreshShowsLatest
<1>. QED
  BY <1>1, PreviewInvariance, PTL

----------------------------------------------------------------------------
(* The sync logs.                                                              *)

(* No more logs are shown than there are, and none shown ended that has not.   *)
LogsTrue(x) == x[1] <= started /\ x[2] <= finished /\ x[2] <= x[1]

SyncLogInv == SyncLog!TypeOK /\ LogsTrue(logs) /\ LogsTrue(logsAnswer)

LEMMA SyncLogStep ==
  ASSUME SyncLog!SyncAssumption, SyncLogInv, [SyncLog!Next]_(SyncLog!vars)
  PROVE  SyncLogInv'
<1>. USE DEF SyncLogInv, SyncLog!TypeOK, LogsTrue, SyncLog!Logs, SyncLog!SyncAssumption
<1>1. CASE \E where \in {"panel", "drawer"} : SyncLog!Show(where) \/ SyncLog!Hide(where)
  BY <1>1 DEF SyncLog!Show, SyncLog!Hide
<1>2. CASE SyncLog!Poll \/ SyncLog!ClickSync \/ SyncLog!SyncRefused
  BY <1>2 DEF SyncLog!Poll, SyncLog!ClickSync, SyncLog!SyncRefused
<1>3. CASE SyncLog!ServerReads
  BY <1>3 DEF SyncLog!ServerReads
<1>4. SyncLog!NoLogs \in SyncLog!Logs /\ LogsTrue(SyncLog!NoLogs)
  BY DEF SyncLog!NoLogs
<1>5. CASE SyncLog!LogsAnswered
  BY <1>4, <1>5 DEF SyncLog!LogsAnswered
<1>6. CASE SyncLog!FetchFails \/ SyncLog!SyncAnswered
  BY <1>4, <1>6 DEF SyncLog!FetchFails, SyncLog!SyncAnswered
<1>7. CASE SyncLog!SyncStarts
  BY <1>7 DEF SyncLog!SyncStarts
<1>8. CASE SyncLog!SyncEnds
  BY <1>8 DEF SyncLog!SyncEnds
<1>9. CASE UNCHANGED SyncLog!vars
  BY <1>9 DEF SyncLog!vars
<1>. QED
  BY <1>1, <1>2, <1>3, <1>5, <1>6, <1>7, <1>8, <1>9 DEF SyncLog!Next

(* The logs never tell more than there is: a log that is shown ended has.      *)
THEOREM LogsAreTrue == ConsoleSpec => [](SyncLog!TypeOK /\ LogsTrue(logs))
<1>1. ConsoleInit => SyncLogInv
  BY ConsoleAssumption DEF ConsoleInit, SyncLog!Init, SyncLog!SyncAssumption,
     SyncLogInv, SyncLog!TypeOK, LogsTrue, SyncLog!Logs, SyncLog!NoLogs
<1>2. [ConsoleNext]_consoleVars => [SyncLog!Next]_(SyncLog!vars)
  BY DEF ConsoleNext, consoleVars, syncLogVars, SyncLog!vars
<1>3. SyncLogInv /\ [ConsoleNext]_consoleVars => SyncLogInv'
  BY <1>2, SyncLogStep, ConsoleAssumption
<1>4. SyncLogInv => SyncLog!TypeOK /\ LogsTrue(logs)
  BY DEF SyncLogInv
<1>. QED
  BY <1>1, <1>3, <1>4, PTL DEF ConsoleSpec

----------------------------------------------------------------------------
(* The list of CDC jobs.                                                       *)

(* A shot differs from what is stored only where a request of this page has    *)
(* been handled whose answer is still to come.                                 *)
ShotBut(shot) ==
  \A j \in Jobs : shot[j] = row[j] \/ \E s \in Slots : command[s].done /\ command[s].job = j

(* A list that is not outdated differs from what is stored only so.  The panel *)
(* of a job that is gone waits for the deletion that took it away, and every   *)
(* deletion of that job is one that closes the panel.                          *)
JobListInv ==
  /\ JobList!TypeOK
  /\ \A s \in Slots : IF command[s].kind = "free" THEN command[s] = JobList!Free
                                                  ELSE command[s].job \in Jobs
  /\ jobsFetch = "idle" /\ ~outdated => ShotBut(listed)
  /\ jobsFetch = "read" /\ ~outdated => ShotBut(jobsAnswer)
  /\ panel # None /\ ~excused =>
       /\ \A s \in Slots : command[s].kind = "delete" /\ command[s].job = panel =>
            command[s].here /\ command[s].closes
       /\ row[panel] = "gone" =>
            \E s \in Slots : command[s].kind = "delete" /\ command[s].job = panel /\ command[s].done

Command == [kind : {"free", "sync", "snapshot", "delete"}, job : Jobs \cup {None},
            done : BOOLEAN, here : BOOLEAN, closes : BOOLEAN]

(* A request whose page is gone, or which has been handled.                    *)
LEMMA HereChanged ==
  ASSUME NEW c \in Command, NEW b \in BOOLEAN, NEW d, d = [c EXCEPT !.here = b]
  PROVE  /\ d \in Command /\ d.here = b
         /\ d.kind = c.kind /\ d.job = c.job /\ d.done = c.done /\ d.closes = c.closes
         /\ c.here = b => d = c
BY DEF Command

LEMMA DoneChanged ==
  ASSUME NEW c \in Command, NEW d, d = [c EXCEPT !.done = TRUE]
  PROVE  /\ d \in Command /\ d.done
         /\ d.kind = c.kind /\ d.job = c.job /\ d.here = c.here /\ d.closes = c.closes
BY DEF Command

(* A slot that is taken, with nothing handled yet.                             *)
LEMMA CommandSent ==
  ASSUME JobListInv, NEW s \in Slots, NEW j \in Jobs, NEW kind_ \in {"sync", "snapshot"},
         JobList!Send(s, kind_, j)
  PROVE  JobListInv'
<1>. DEFINE sent == [kind |-> kind_, job |-> j, done |-> FALSE, here |-> TRUE, closes |-> FALSE]
<1>. USE DEF JobListInv, JobList!TypeOK, JobList!queryVars, ShotBut
<1>1. sent \in Command
  BY DEF Command
<1>2. /\ command' = [command EXCEPT ![s] = sent] /\ command[s] = JobList!Free
      /\ UNCHANGED <<row, listed, jobsFetch, jobsAnswer, broken, onPage, panel, excused,
                     outdated>>
  BY DEF JobList!Send
<1>3. command[s].kind = "free" /\ ~command[s].done
  BY <1>2 DEF JobList!Free
<1>4. command' \in [Slots -> Command] /\ command'[s] = sent
      /\ \A t \in Slots : t # s => command'[t] = command[t]
  BY <1>1, <1>2 DEF Command
<1>. QED
  BY <1>2, <1>3, <1>4 DEF Command

LEMMA JobListStep ==
  ASSUME JobList!ListAssumption, JobListInv, [JobList!Next]_(JobList!vars)
  PROVE  JobListInv'
<1>. USE DEF JobListInv, JobList!TypeOK, JobList!queryVars, ShotBut
<1>1. CASE JobList!ServerReads
  BY <1>1 DEF JobList!ServerReads
<1>2. CASE JobList!ListAnswered
  BY <1>2 DEF JobList!ListAnswered
<1>3. CASE JobList!Refetch \/ JobList!Mount \/ JobList!ListFails
  BY <1>3 DEF JobList!Refetch, JobList!Mount, JobList!ListFails
<1>4. CASE JobList!Leave
  <2>1. \A s \in Slots : /\ command'[s] \in Command
                         /\ command'[s].kind = command[s].kind
                         /\ command'[s].job = command[s].job
                         /\ command'[s].done = command[s].done
                         /\ command[s] = JobList!Free => command'[s] = JobList!Free
    <3>. SUFFICES ASSUME NEW s \in Slots
                  PROVE  /\ command'[s] \in Command
                         /\ command'[s].kind = command[s].kind
                         /\ command'[s].job = command[s].job
                         /\ command'[s].done = command[s].done
                         /\ command[s] = JobList!Free => command'[s] = JobList!Free
      OBVIOUS
    <3>1. command[s] \in Command
      BY DEF Command
    <3>2. command'[s] = [command[s] EXCEPT !.here = FALSE]
      BY <1>4 DEF JobList!Leave
    <3>3. command[s] = JobList!Free => command[s].here = FALSE
      BY DEF JobList!Free
    <3>4. command[s].here = FALSE => command'[s] = command[s]
      BY ONLY <3>1, <3>2, HereChanged, Zenon
    <3>5. /\ command'[s] \in Command /\ command'[s].kind = command[s].kind
          /\ command'[s].job = command[s].job /\ command'[s].done = command[s].done
      BY ONLY <3>1, <3>2, HereChanged, Zenon
    <3>. QED
      BY <3>3, <3>4, <3>5
  <2>2. command' \in [Slots -> Command]
    BY <1>4, <2>1 DEF JobList!Leave
  <2>3. /\ panel' = None /\ onPage' \in BOOLEAN
        /\ UNCHANGED <<row, listed, jobsFetch, jobsAnswer, broken, excused, outdated>>
    BY <1>4 DEF JobList!Leave
  <2>. QED
    BY <2>1, <2>2, <2>3 DEF Command
<1>5. ASSUME NEW j \in Jobs, JobList!ToggleLogs(j) PROVE JobListInv'
  BY <1>5 DEF JobList!ToggleLogs, JobList!Deleting
<1>6. ASSUME NEW j \in Jobs, NEW status \in JobList!Statuses, JobList!ChangedElsewhere(j, status)
      PROVE  JobListInv'
  BY <1>6 DEF JobList!ChangedElsewhere, JobList!Shots, JobList!Statuses
<1>7. ASSUME NEW s \in Slots, NEW j \in Jobs,
             JobList!handleSync(s, j) \/ JobList!handleSnapshot(s, j)
      PROVE  JobListInv'
  BY <1>7, CommandSent DEF JobList!handleSync, JobList!handleSnapshot
<1>8. ASSUME NEW s \in Slots, NEW j \in Jobs, JobList!handleDelete(s, j) PROVE JobListInv'
  <2>. DEFINE sent == [kind |-> "delete", job |-> j, done |-> FALSE, here |-> TRUE,
                       closes |-> panel = j]
  <2>1. sent \in Command
    BY DEF Command
  <2>2. command' = [t \in Slots |-> IF t = s THEN sent
                      ELSE [command[t] EXCEPT !.here = @ /\ command[t].kind # "delete"]]
    BY <1>8 DEF JobList!handleDelete
  <2>3. command[s].kind = "free" /\ ~command[s].done
    BY <1>8 DEF JobList!handleDelete, JobList!Free
  <2>4. \A t \in Slots : t # s => /\ command'[t] \in Command
                                  /\ command'[t].kind = command[t].kind
                                  /\ command'[t].job = command[t].job
                                  /\ command'[t].done = command[t].done
                                  /\ command[t] = JobList!Free => command'[t] = JobList!Free
    <3>. SUFFICES ASSUME NEW t \in Slots, t # s
                  PROVE  /\ command'[t] \in Command
                         /\ command'[t].kind = command[t].kind
                         /\ command'[t].job = command[t].job
                         /\ command'[t].done = command[t].done
                         /\ command[t] = JobList!Free => command'[t] = JobList!Free
      OBVIOUS
    <3>1. command[t] \in Command
      BY DEF Command
    <3>2. PICK b \in BOOLEAN : /\ command'[t] = [command[t] EXCEPT !.here = b]
                               /\ command[t] = JobList!Free => b = FALSE
      <4>1. (command[t].here /\ command[t].kind # "delete") \in BOOLEAN
        OBVIOUS
      <4>2. command'[t] = [command[t] EXCEPT !.here =
                             command[t].here /\ command[t].kind # "delete"]
        BY <2>2
      <4>3. command[t] = JobList!Free => ~command[t].here
        BY DEF JobList!Free
      <4>. QED
        BY <4>1, <4>2, <4>3
    <3>3. command[t] = JobList!Free => command[t].here = FALSE
      BY DEF JobList!Free
    <3>6. b \in BOOLEAN
      BY <3>2
    <3>4. command[t].here = b => command'[t] = command[t]
      BY ONLY <3>1, <3>2, <3>6, HereChanged
    <3>5. /\ command'[t] \in Command /\ command'[t].kind = command[t].kind
          /\ command'[t].job = command[t].job /\ command'[t].done = command[t].done
      BY ONLY <3>1, <3>2, <3>6, HereChanged
    <3>. QED
      BY <3>2, <3>3, <3>4, <3>5
  <2>5. command'[s] = sent /\ command' \in [Slots -> Command]
    BY <2>1, <2>2, <2>4
  <2>6. UNCHANGED <<row, listed, jobsFetch, jobsAnswer, broken, onPage, panel, outdated>>
    BY <1>8 DEF JobList!handleDelete
  <2>7. /\ excused' \in BOOLEAN
        /\ ~excused' => ~excused /\ \A t \in Slots : ~(command[t].kind = "delete"
                                                       /\ command[t].job = panel)
    BY <1>8 DEF JobList!handleDelete, JobList!Deleting
  <2>. HIDE DEF sent
  <2>8. sent.kind = "delete" /\ sent.job = j /\ sent.here /\ sent.closes = (panel = j)
    BY DEF sent
  <2>9. \A t \in Slots : command[t].done => command'[t].done /\ command'[t].job = command[t].job
    BY <2>3, <2>4
  <2>10. \A t \in Slots : IF command'[t].kind = "free" THEN command'[t] = JobList!Free
                                                     ELSE command'[t].job \in Jobs
    BY <2>4, <2>5, <2>8
  <2>11. panel # None /\ ~excused' =>
           /\ \A t \in Slots : command'[t].kind = "delete" /\ command'[t].job = panel =>
                command'[t].here /\ command'[t].closes
           /\ row[panel] # "gone"
    <3>. SUFFICES ASSUME panel # None, ~excused'
                  PROVE  /\ \A t \in Slots : /\ command'[t].kind = "delete"
                                            /\ command'[t].job = panel
                                            => command'[t].here /\ command'[t].closes
                         /\ row[panel] # "gone"
      OBVIOUS
    <3>1. \A t \in Slots : t # s => ~(command'[t].kind = "delete" /\ command'[t].job = panel)
      BY <2>4, <2>7
    <3>2. command'[s].job = panel => command'[s].here /\ command'[s].closes
      BY <2>5, <2>8
    <3>3. row[panel] # "gone"
      BY <2>7
    <3>. QED
      BY <3>1, <3>2, <3>3
  <2>. QED
    BY <2>5, <2>6, <2>7, <2>9, <2>10, <2>11 DEF Command
<1>9. ASSUME NEW s \in Slots, JobList!ServerTriggers(s) \/ JobList!ServerDeletes(s)
      PROVE  JobListInv'
  <2>. DEFINE done == [command[s] EXCEPT !.done = TRUE]  job == command[s].job
  <2>1. /\ command' = [command EXCEPT ![s] = done] /\ command[s].kind # "free"
        /\ UNCHANGED <<listed, jobsFetch, jobsAnswer, broken, onPage, panel, excused, outdated>>
    BY <1>9 DEF JobList!ServerTriggers, JobList!ServerDeletes, JobList!Handled
  <2>2. /\ done \in Command /\ done.done /\ done.job = job /\ done.kind = command[s].kind
        /\ done.here = command[s].here /\ done.closes = command[s].closes
    <3>1. command[s] \in Command
      BY DEF Command
    <3>. QED
      BY <3>1, DoneChanged
  <2>3. job \in Jobs
    BY <2>1
  <2>4. /\ command' \in [Slots -> Command] /\ command'[s] = done
        /\ \A t \in Slots : t # s => command'[t] = command[t]
    BY <2>1, <2>2 DEF Command
  <2>5. \/ row' = [row EXCEPT ![job] = "running"] /\ row[job] # "gone"
        \/ row' = [row EXCEPT ![job] = "gone"] /\ command[s].kind = "delete"
    BY <1>9 DEF JobList!ServerTriggers, JobList!ServerDeletes
  <2>6. /\ row' \in JobList!Shots
        /\ \A k \in Jobs : k # job => row'[k] = row[k]
        /\ row'[job] = "gone" => command[s].kind = "delete"
    BY <2>3, <2>5 DEF JobList!Shots, JobList!Statuses
  <2>. HIDE DEF done
  <2>. QED
    BY <2>1, <2>2, <2>3, <2>4, <2>6 DEF Command
<1>10. ASSUME NEW s \in Slots, JobList!TriggerAnswered(s) \/ JobList!DeleteAnswered(s)
              \/ JobList!RequestFails(s)
       PROVE  JobListInv'
  <2>1. /\ command' = [command EXCEPT ![s] = JobList!Free] /\ command[s].kind # "free"
        /\ UNCHANGED <<row, listed, broken, onPage>>
    BY <1>10 DEF JobList!TriggerAnswered, JobList!DeleteAnswered, JobList!RequestFails
  <2>2. JobList!Free \in Command /\ JobList!Free.kind = "free"
    BY DEF JobList!Free, Command
  <2>3. /\ command' \in [Slots -> Command] /\ command'[s] = JobList!Free
        /\ \A t \in Slots : t # s => command'[t] = command[t]
    BY <2>1, <2>2 DEF Command
  <2>4. CASE JobList!RequestFails(s)
    <3>1. /\ outdated' = (outdated \/ command[s].done)
          /\ excused' = (excused \/ (command[s].done /\ command[s].kind = "delete"
                                       /\ command[s].job = panel))
          /\ UNCHANGED <<jobsFetch, jobsAnswer, panel>>
      BY <2>4 DEF JobList!RequestFails
    <3>. QED
      BY <2>1, <2>2, <2>3, <3>1 DEF Command
  <2>5. CASE JobList!TriggerAnswered(s) \/ JobList!DeleteAnswered(s)
    <3>1. \/ jobsFetch' = "sent" /\ jobsAnswer' = JobList!NoShot /\ UNCHANGED outdated
          \/ outdated' = TRUE /\ UNCHANGED <<jobsFetch, jobsAnswer>>
      BY <2>5 DEF JobList!TriggerAnswered, JobList!DeleteAnswered, JobList!Invalidate
    <3>2. /\ UNCHANGED excused
          /\ \/ /\ UNCHANGED panel
                /\ ~(command[s].kind = "delete" /\ command[s].here /\ command[s].closes)
             \/ panel' = None
      BY <2>5 DEF JobList!TriggerAnswered, JobList!DeleteAnswered
    <3>3. panel' # None /\ ~excused =>
            /\ \A t \in Slots : command'[t].kind = "delete" /\ command'[t].job = panel =>
                 command'[t].here /\ command'[t].closes
            /\ row[panel] = "gone" =>
                 \E t \in Slots : /\ command'[t].kind = "delete" /\ command'[t].job = panel
                                 /\ command'[t].done
      BY <2>2, <2>3, <3>2
    <3>4. panel' = panel \/ panel' = None
      BY <3>2
    <3>5. /\ jobsFetch' = "idle" /\ ~outdated' => FALSE
          /\ jobsFetch' = "read" /\ ~outdated' => FALSE
          /\ jobsFetch' \in {"idle", "sent", "read"} /\ outdated' \in BOOLEAN
          /\ jobsAnswer' \in JobList!Shots \cup {JobList!NoShot}
      BY <3>1
    <3>6. \A t \in Slots : IF command'[t].kind = "free" THEN command'[t] = JobList!Free
                                                      ELSE command'[t].job \in Jobs
      BY <2>2, <2>3
    <3>. QED
      BY <2>1, <2>3, <3>2, <3>3, <3>4, <3>5, <3>6 DEF Command
  <2>. QED
    BY <1>10, <2>4, <2>5
<1>11. CASE UNCHANGED JobList!vars
  BY <1>11 DEF JobList!vars
<1>. QED
  BY <1>1, <1>2, <1>3, <1>4, <1>5, <1>6, <1>7, <1>8, <1>9, <1>10, <1>11 DEF JobList!Next

LEMMA JobListInvariance == ConsoleSpec => []JobListInv
<1>1. ConsoleInit => JobListInv
  <2>1. JobList!Free \in Command /\ JobList!Free.kind = "free"
    BY DEF JobList!Free, Command
  <2>. QED
    BY <2>1 DEF ConsoleInit, JobList!Init, JobListInv, JobList!TypeOK, JobList!Shots,
           JobList!Statuses, Command
<1>2. [ConsoleNext]_consoleVars => [JobList!Next]_(JobList!vars)
  BY DEF ConsoleNext, consoleVars, jobListVars, JobList!vars, JobList!queryVars
<1>3. JobListInv /\ [ConsoleNext]_consoleVars => JobListInv'
  BY <1>2, JobListStep, ConsoleAssumption
<1>. QED
  BY <1>1, <1>3, PTL DEF ConsoleSpec

(* The panel does not go on showing the logs of a job that is gone, in any      *)
(* crossing of deletions, answers, toggles, fetches and visits, unless its     *)
(* callback could not know: logs opened since the click, a deletion overtaken  *)
(* by the next, an answer that was lost, a job deleted elsewhere.              *)
THEOREM NoPanelStays == ConsoleSpec => []NoPanelOfDeleted
<1>1. JobListInv => NoPanelOfDeleted
  BY DEF JobListInv, NoPanelOfDeleted, JobList!NoPanelOfDeleted, JobList!Deleting
<1>. QED
  BY <1>1, JobListInvariance, PTL

(* With nothing under way the list of jobs shows what is stored, unless since  *)
(* it was read a job changed elsewhere, a fetch failed, or a request was       *)
(* served without the page being there and told.                               *)
THEOREM JobsAreCurrent == ConsoleSpec => []ListCatchesUp
<1>1. JobListInv => ListCatchesUp
  <2>. SUFFICES ASSUME JobListInv, jobsFetch = "idle", \A s \in Slots : command[s] = JobList!Free,
                       ~outdated
                PROVE  listed = row
    BY DEF ListCatchesUp, JobList!ListCatchesUp
  <2>1. \A j \in Jobs : listed[j] = row[j]
    BY DEF JobListInv, ShotBut, JobList!Free
  <2>2. listed = [j \in Jobs |-> listed[j]] /\ row = [j \in Jobs |-> row[j]]
    BY DEF JobListInv, JobList!TypeOK, JobList!Shots, JobList!NoShot
  <2>. QED
    BY <2>1, <2>2
<1>. QED
  BY <1>1, JobListInvariance, PTL

----------------------------------------------------------------------------
(* The catalog's tree.                                                         *)

(* The queries there can be: key, connector, schema.                           *)
Queries ==
  {<<Tree!useSchemas(c), c, None>> : c \in Connectors}
    \cup {<<Tree!useTables(c, s), c, s>> : c \in Connectors, s \in Schemas}

(* What is cached under a key is of its connector and schema.                  *)
TreeInv ==
  /\ Tree!TypeOK /\ Tree!TreeNamesTables
  /\ fetching \subseteq Queries
  /\ \A q \in Queries : q[1] \in DOMAIN entries => entries[q[1]] \subseteq Tree!Content(q[2], q[3])

(* No two queries share a key, although a schema's name is that of several.    *)
LEMMA KeysDiffer ==
  ASSUME NEW q \in Queries, NEW r \in Queries, q[1] = r[1]
  PROVE  q = r
<1>1. ASSUME NEW c, NEW d, NEW s PROVE Tree!useSchemas(c) # Tree!useTables(d, s)
  <2>1. Len(<<c, "schemas">>) = 2 /\ Len(<<d, s, "tables">>) = 3
    OBVIOUS
  <2>. QED
    BY <2>1 DEF Tree!useSchemas, Tree!useTables
<1>2. ASSUME NEW c, NEW d, Tree!useSchemas(c) = Tree!useSchemas(d) PROVE c = d
  BY <1>2 DEF Tree!useSchemas
<1>3. ASSUME NEW c, NEW d, NEW s, NEW t, Tree!useTables(c, s) = Tree!useTables(d, t)
      PROVE  c = d /\ s = t
  BY <1>3 DEF Tree!useTables
<1>. QED
  BY <1>1, <1>2, <1>3 DEF Queries

(* The schemas that are shown are of the connector that is unfolded, and the   *)
(* tables of that connector and schema.                                        *)
LEMMA ShownIsThere ==
  ASSUME Tree!TreeAssumption, TreeInv
  PROVE  /\ Tree!SchemasShown \subseteq Schemas
         /\ Tree!SchemasShown # {} => expandedConnector \in Connectors
         /\ Tree!TablesShown \subseteq Catalog
         /\ Tree!Observed \subseteq Queries
<1>. USE DEF Tree!TreeAssumption
<1>1. ASSUME NEW s \in Tree!SchemasShown PROVE s \in Schemas /\ expandedConnector \in Connectors
  <2>1. expandedConnector \in Connectors /\ s \in Tree!Cached(Tree!useSchemas(expandedConnector))
    BY <1>1 DEF Tree!SchemasShown, TreeInv, Tree!TypeOK
  <2>2. <<Tree!useSchemas(expandedConnector), expandedConnector, None>> \in Queries
    BY <2>1 DEF Queries
  <2>3. s \in Tree!Content(expandedConnector, None)
    BY <2>1, <2>2 DEF Tree!Cached, TreeInv
  <2>. QED
    BY <2>1, <2>3 DEF Tree!Content
<1>2. ASSUME NEW x \in Tree!TablesShown PROVE x \in Catalog
  <2>. DEFINE c == expandedConnector  s == expandedSchema
  <2>1. s \in Tree!SchemasShown
    BY <1>2 DEF Tree!TablesShown
  <2>2. PICK t \in Tree!Cached(Tree!useTables(c, s)) : x = <<c, s, t>>
    BY <1>2, <2>1 DEF Tree!TablesShown
  <2>3. c \in Connectors /\ s \in Schemas /\ s # None
    BY <1>1, <2>1
  <2>4. <<Tree!useTables(c, s), c, s>> \in Queries
    BY <2>3 DEF Queries
  <2>5. t \in Tree!Content(c, s)
    BY <2>2, <2>4 DEF Tree!Cached, TreeInv
  <2>6. PICK y \in Catalog : y[1] = c /\ y[2] = s /\ y[3] = t
    BY <2>3, <2>5 DEF Tree!Content
  <2>. QED
    BY <2>2, <2>6
<1>3. ASSUME NEW q \in Tree!Observed PROVE q \in Queries
  BY <1>1, <1>3 DEF Tree!Observed, Queries, TreeInv, Tree!TypeOK
<1>. QED
  BY <1>1, <1>2, <1>3

LEMMA TreeStep ==
  ASSUME Tree!TreeAssumption, TreeInv, [Tree!Next]_(Tree!vars)
  PROVE  TreeInv'
<1>. USE DEF TreeInv, Tree!TypeOK, Tree!TreeNamesTables, Tree!treeVars, Tree!TreeAssumption
<1>1. Tree!TablesShown \subseteq Catalog /\ Tree!SchemasShown \subseteq Schemas
      /\ Tree!Observed \subseteq Queries
  BY ShownIsThere
<1>2. CASE Tree!Fetch
  BY <1>1, <1>2 DEF Tree!Fetch
<1>3. CASE Tree!Answered
  <2>1. PICK q \in fetching : /\ fetching' = fetching \ {q}
                              /\ \/ entries' = [k \in DOMAIN entries \cup {q[1]} |->
                                      IF k = q[1] THEN Tree!Content(q[2], q[3]) ELSE entries[k]]
                                 \/ UNCHANGED entries
    BY <1>3 DEF Tree!Answered
  <2>2. q \in Queries
    BY <2>1
  <2>3. ASSUME NEW r \in Queries, r[1] \in DOMAIN entries'
        PROVE  entries'[r[1]] \subseteq Tree!Content(r[2], r[3])
    <3>1. CASE r[1] = q[1]
      <4>1. r = q
        BY <2>2, <3>1, KeysDiffer
      <4>. QED
        BY <2>1, <2>2, <2>3, <4>1
    <3>2. CASE r[1] # q[1]
      BY <2>1, <2>3, <3>2
    <3>. QED
      BY <3>1, <3>2
  <2>. QED
    BY <1>3, <2>1, <2>3 DEF Tree!Answered, Queries, Tree!Content
<1>4. CASE Tree!Expire
  <2>1. PICK key \in DOMAIN entries : entries' = [k \in DOMAIN entries \ {key} |-> entries[k]]
    BY <1>4 DEF Tree!Expire
  <2>2. \A q \in Queries : q[1] \in DOMAIN entries' =>
          entries'[q[1]] \subseteq Tree!Content(q[2], q[3])
    BY <2>1
  <2>. QED
    BY <1>4, <2>2 DEF Tree!Expire
<1>5. ASSUME NEW c \in Connectors, Tree!ToggleConnector(c) PROVE TreeInv'
  BY <1>5 DEF Tree!ToggleConnector, Tree!Toggled
<1>6. ASSUME NEW s \in Schemas, Tree!ToggleSchema(s) PROVE TreeInv'
  BY <1>6 DEF Tree!ToggleSchema, Tree!Toggled
<1>7. ASSUME NEW x \in Connectors \X Schemas \X Tables, Tree!SelectTable(x) \/ Tree!DragTable(x)
      PROVE  TreeInv'
  BY <1>1, <1>7 DEF Tree!SelectTable, Tree!DragTable
<1>8. CASE Tree!onDrop
  BY <1>8 DEF Tree!onDrop
<1>9. CASE UNCHANGED Tree!vars
  BY <1>9 DEF Tree!vars
<1>. QED
  BY <1>2, <1>3, <1>4, <1>5, <1>6, <1>7, <1>8, <1>9 DEF Tree!Next

LEMMA TreeInvariance == ConsoleSpec => []TreeInv
<1>1. ConsoleInit => TreeInv
  BY DEF ConsoleInit, Tree!Init, TreeInv, Tree!TypeOK, Tree!TreeNamesTables
<1>2. [ConsoleNext]_consoleVars => [Tree!Next]_(Tree!vars)
  BY DEF ConsoleNext, consoleVars, treeVars, Tree!vars, Tree!treeVars
<1>3. TreeInv /\ [ConsoleNext]_consoleVars => TreeInv'
  BY <1>2, TreeStep, ConsoleAssumption
<1>. QED
  BY <1>1, <1>3, PTL DEF ConsoleSpec

(* What is selected, dragged or made a node is a table there is, although      *)
(* schemas of one name are unfolded in one connector after the other while the *)
(* answers are still to come.                                                  *)
THEOREM TreeNamesRealTables == ConsoleSpec => []TreeNamesTables
<1>1. TreeInv => TreeNamesTables
  BY DEF TreeInv, TreeNamesTables
<1>. QED
  BY <1>1, TreeInvariance, PTL

----------------------------------------------------------------------------
(* The table of a list page.                                                   *)

(* The instance's cardinality is the library's.                                *)
LEMMA SameCount == ASSUME NEW S PROVE Table!Cardinality(S) = Cardinality(S)
BY DEF Table!Cardinality, Cardinality

(* A sort is by a column that is there, and has a direction.                   *)
TableInv ==
  /\ Table!TypeOK
  /\ sortKey \in columns \cup {"none"}
  /\ sortKey = "none" <=> sortDir = "none"

(* Cells compare as the order of the values has it, with blanks above all.     *)
LEMMA CellsCompare ==
  ASSUME Table!TableAssumption, NEW a \in Values \cup {Blank}, NEW b \in Values \cup {Blank}
  PROVE  /\ Table!cmp(a, b) \in Int
         /\ Table!cmp(a, b) < 0 <=> Table!Below(a, b)
         /\ Table!cmp(a, b) > 0 <=> Table!Below(b, a)
         /\ Table!Below(a, b) \/ Table!Below(b, a) \/ a = b
BY DEF Table!TableAssumption, Table!cmp, Table!Below

(* A row comes before another when its cell is below, or above, the other's.   *)
LEMMA RowsCompare ==
  ASSUME Table!TableAssumption, TableInv, sortKey # "none",
         NEW i \in 1..Len(rows), NEW j \in 1..Len(rows)
  PROVE  /\ rows[i][sortKey] \in Values \cup {Blank}
         /\ Table!Before(i, j) <=> IF sortDir = "asc"
                                     THEN Table!Below(rows[i][sortKey], rows[j][sortKey])
                                     ELSE Table!Below(rows[j][sortKey], rows[i][sortKey])
<1>1. rows[i] \in Table!Row /\ rows[j] \in Table!Row /\ sortKey \in ColumnKeys
  BY DEF TableInv, Table!TypeOK
<1>2. rows[i][sortKey] \in Values \cup {Blank} /\ rows[j][sortKey] \in Values \cup {Blank}
  BY <1>1 DEF Table!Row
<1>. QED
  <2>. DEFINE a == rows[i][sortKey]  b == rows[j][sortKey]  result == Table!cmp(a, b)
  <2>1. Table!Before(i, j) <=> IF sortDir = "asc" THEN result < 0 ELSE -result < 0
    BY DEF Table!Before
  <2>2. result \in Int /\ (result < 0 <=> Table!Below(a, b)) /\ (result > 0 <=> Table!Below(b, a))
    BY <1>2, CellsCompare
  <2>. HIDE DEF result
  <2>3. -result < 0 <=> result > 0
    BY <2>2
  <2>. QED
    BY <1>2, <2>1, <2>2, <2>3

(* The order of the rows is total.                                             *)
LEMMA RowsAreOrdered ==
  ASSUME Table!TableAssumption, TableInv, sortKey # "none"
  PROVE  /\ \A i \in 1..Len(rows) : ~Table!Precedes(i, i)
         /\ \A i, j, k \in 1..Len(rows) :
              Table!Precedes(i, j) /\ Table!Precedes(j, k) => Table!Precedes(i, k)
         /\ \A i, j \in 1..Len(rows) : i # j => Table!Precedes(i, j) \/ Table!Precedes(j, i)
<1>. DEFINE Cell(i) == rows[i][sortKey]
<1>1. \A i \in 1..Len(rows) : Cell(i) \in Values \cup {Blank}
  BY RowsCompare
<1>2. \A i, j \in 1..Len(rows) :
        Table!Before(i, j) <=> IF sortDir = "asc" THEN Table!Below(Cell(i), Cell(j))
                                                  ELSE Table!Below(Cell(j), Cell(i))
  BY RowsCompare
<1>3. /\ \A a \in Values \cup {Blank} : ~Table!Below(a, a)
      /\ \A a, b, c \in Values \cup {Blank} :
           /\ Table!Below(a, b) /\ Table!Below(b, c) => Table!Below(a, c)
           /\ Table!Below(a, b) => Table!Below(a, c) \/ Table!Below(c, b)
  BY DEF Table!TableAssumption, Table!Below
<1>. HIDE DEF Cell
<1>4. /\ \A i \in 1..Len(rows) : ~Table!Before(i, i)
      /\ \A i, j, k \in 1..Len(rows) :
           /\ Table!Before(i, j) /\ Table!Before(j, k) => Table!Before(i, k)
           /\ Table!Before(i, j) => Table!Before(i, k) \/ Table!Before(k, j)
  <2>1. CASE sortDir = "asc"
    BY <1>1, <1>2, <1>3, <2>1
  <2>2. CASE sortDir # "asc"
    BY <1>1, <1>2, <1>3, <2>2
  <2>. QED
    BY <2>1, <2>2
<1>. QED
  BY <1>4 DEF Table!Precedes

(* Each row has a place of its own, after those of the rows before it.         *)
LEMMA RowsHavePlaces ==
  ASSUME Table!TableAssumption, TableInv, sortKey # "none"
  PROVE  /\ \A i \in 1..Len(rows) : Table!Position(i) \in 1..Len(rows)
         /\ \A i, j \in 1..Len(rows) :
              Table!Precedes(i, j) => Table!Position(i) < Table!Position(j)
         /\ \A p \in 1..Len(rows) : \E i \in 1..Len(rows) : Table!Position(i) = p
<1>. DEFINE n == Len(rows)  place(i) == Table!Position(i)
            Sooner(i) == {k \in 1..n : Table!Precedes(k, i)}
            places == [i \in 1..n |-> place(i)]
<1>1. n \in Nat /\ IsFiniteSet(1..n) /\ Cardinality(1..n) = n
  <2>1. n \in Nat
    BY DEF TableInv, Table!TypeOK
  <2>. HIDE DEF n
  <2>. QED
    BY <2>1, FS_Interval
<1>2. /\ \A i \in 1..n : i \notin Sooner(i) /\ Sooner(i) \in SUBSET (1..n)
      /\ \A i, j \in 1..n :
           Table!Precedes(i, j) => i \in Sooner(j) /\ Sooner(i) \in SUBSET Sooner(j)
      /\ \A i, j \in 1..n : i # j => Table!Precedes(i, j) \/ Table!Precedes(j, i)
  BY RowsAreOrdered
<1>3. \A i \in 1..n : place(i) = 1 + Cardinality(Sooner(i))
  BY SameCount DEF Table!Position
<1>. HIDE DEF n, Sooner, place
<1>4. ASSUME NEW i \in 1..n PROVE /\ IsFiniteSet(Sooner(i)) /\ Cardinality(Sooner(i)) \in Nat
                                  /\ place(i) \in 1..n
  <2>1. Sooner(i) \in SUBSET (1..n) /\ Sooner(i) # 1..n
    BY <1>2
  <2>2. /\ IsFiniteSet(Sooner(i)) /\ Cardinality(Sooner(i)) <= n
        /\ Cardinality(Sooner(i)) # n
    BY <1>1, <2>1, FS_Subset
  <2>3. Cardinality(Sooner(i)) \in Nat
    BY <2>2, FS_CardinalityType
  <2>. QED
    BY <1>1, <1>3, <2>2, <2>3
<1>5. ASSUME NEW i \in 1..n, NEW j \in 1..n, Table!Precedes(i, j) PROVE place(i) < place(j)
  <2>1. Sooner(i) \in SUBSET Sooner(j) /\ Sooner(i) # Sooner(j)
    BY <1>2, <1>5
  <2>2. /\ Cardinality(Sooner(i)) <= Cardinality(Sooner(j))
        /\ Cardinality(Sooner(j)) # Cardinality(Sooner(i))
    BY <1>4, <2>1, FS_Subset
  <2>. QED
    BY <1>3, <1>4, <2>2
<1>6. ASSUME NEW i \in 1..n, NEW j \in 1..n, place(i) = place(j) PROVE i = j
  <2>1. place(i) \in Int
    BY <1>1, <1>4
  <2>. QED
    BY <1>2, <1>5, <1>6, <2>1
<1>7. places \in Injection(1..n, 1..n)
  BY <1>4, <1>6 DEF Injection, IsInjective
<1>8. places \in Surjection(1..n, 1..n)
  BY <1>1, <1>7, FS_Injection
<1>9. \A p \in 1..n : \E i \in 1..n : place(i) = p
  BY <1>8 DEF Surjection
<1>. QED
  BY <1>4, <1>5, <1>9 DEF n, place

LEMMA TableStep ==
  ASSUME Table!TableAssumption, TableInv, [Table!Next]_(Table!vars)
  PROVE  TableInv'
<1>. USE DEF TableInv, Table!TypeOK, Table!TableAssumption
<1>1. CASE Table!RowsFetched
  BY <1>1 DEF Table!RowsFetched
<1>2. CASE Table!ColumnsChange
  BY <1>2 DEF Table!ColumnsChange
<1>3. ASSUME NEW key \in ColumnKeys, Table!handleSort(key) PROVE TableInv'
  BY <1>3 DEF Table!handleSort
<1>4. CASE UNCHANGED Table!vars
  BY <1>4 DEF Table!vars
<1>. QED
  BY <1>1, <1>2, <1>3, <1>4 DEF Table!Next

LEMMA TableInvariance == ConsoleSpec => []TableInv
<1>1. ConsoleInit => TableInv
  BY ConsoleAssumption DEF ConsoleInit, Table!Init, TableInv, Table!TypeOK, Table!TableAssumption
<1>2. [ConsoleNext]_consoleVars => [Table!Next]_(Table!vars)
  BY DEF ConsoleNext, consoleVars, tableVars, Table!vars
<1>3. TableInv /\ [ConsoleNext]_consoleVars => TableInv'
  BY <1>2, TableStep, ConsoleAssumption
<1>. QED
  BY <1>1, <1>3, PTL DEF ConsoleSpec

(* Every row of a table is shown once, sorted by a column that is there, and   *)
(* rows with equal cells in the order they were fetched, however rows and      *)
(* columns change between the clicks.                                          *)
THEOREM TableIsSorted == ConsoleSpec => []ShownInOrder
<1>1. ASSUME Table!TableAssumption, TableInv PROVE Table!ShownInOrder
  <2>. DEFINE n == Len(rows)  order == Table!sortedRows  Cell(p) == rows[order[p]][sortKey]
  <2>1. n \in Nat /\ order = [p \in 1..n |-> order[p]] /\ Len(order) = n
    BY <1>1 DEF TableInv, Table!TypeOK, Table!sortedRows
  <2>2. CASE sortKey = "none"
    <3>1. sortDir = "none" /\ order = [p \in 1..n |-> p]
      BY <1>1, <2>2 DEF TableInv, Table!sortedRows
    <3>. QED
      BY <1>1, <2>1, <3>1, <2>2 DEF Table!ShownInOrder, Table!ToSet, TableInv
  <2>3. CASE sortKey # "none"
    <3>1. \A p \in 1..n : order[p] \in 1..n /\ Table!Position(order[p]) = p
      <4>1. \A p \in 1..n : order[p] = CHOOSE i \in 1..n : Table!Position(i) = p
        BY <2>3 DEF Table!sortedRows
      <4>2. \A p \in 1..n : \E i \in 1..n : Table!Position(i) = p
        BY <1>1, <2>3, RowsHavePlaces
      <4>. HIDE DEF order
      <4>. QED
        BY <4>1, <4>2
    <3>. HIDE DEF order
    <3>2. \A p, q \in 1..n : p < q => Table!Precedes(order[p], order[q])
      <4>1. ASSUME NEW p \in 1..n, NEW q \in 1..n, p < q
            PROVE  Table!Precedes(order[p], order[q])
        <5>1. order[p] # order[q]
          BY <3>1, <4>1
        <5>2. Table!Precedes(order[q], order[p]) => q < p
          BY <1>1, <2>1, <2>3, <3>1, RowsHavePlaces
        <5>. QED
          BY <1>1, <2>1, <2>3, <3>1, <4>1, <5>1, <5>2, RowsAreOrdered
      <4>. QED
        BY <4>1
    <3>3. \A i \in 1..n : Table!Position(i) \in 1..n /\ order[Table!Position(i)] = i
      <4>1. ASSUME NEW i \in 1..n
            PROVE  Table!Position(i) \in 1..n /\ order[Table!Position(i)] = i
        <5>. DEFINE j == order[Table!Position(i)]
        <5>1. /\ Table!Position(i) \in 1..n /\ j \in 1..n
              /\ Table!Position(j) = Table!Position(i)
          BY <1>1, <2>3, <3>1, RowsHavePlaces
        <5>2. ~Table!Precedes(i, j) /\ ~Table!Precedes(j, i)
          <6>1. ~(Table!Position(i) < Table!Position(j)) /\ ~(Table!Position(j) < Table!Position(i))
            BY <2>1, <5>1
          <6>. HIDE DEF j
          <6>. QED
            BY <1>1, <2>3, <5>1, <6>1, RowsHavePlaces
        <5>. QED
          BY <1>1, <2>3, <5>1, <5>2, RowsAreOrdered
      <4>. QED
        BY <4>1
    <3>4. Table!ToSet(order) = 1..n
      BY <2>1, <3>1, <3>3 DEF Table!ToSet
    <3>5. ASSUME NEW p \in 1..n, NEW q \in 1..n, p < q
          PROVE  \/ sortDir = "asc" /\ Table!Below(Cell(p), Cell(q))
                 \/ sortDir = "desc" /\ Table!Below(Cell(q), Cell(p))
                 \/ (sortDir = "none" \/ Cell(p) = Cell(q)) /\ order[p] < order[q]
      <4>1. /\ Cell(p) \in Values \cup {Blank} /\ Cell(q) \in Values \cup {Blank}
            /\ Table!Before(order[p], order[q]) <=>
                 IF sortDir = "asc" THEN Table!Below(Cell(p), Cell(q))
                                    ELSE Table!Below(Cell(q), Cell(p))
            /\ Table!Before(order[q], order[p]) <=>
                 IF sortDir = "asc" THEN Table!Below(Cell(q), Cell(p))
                                    ELSE Table!Below(Cell(p), Cell(q))
        BY <1>1, <2>3, <3>1, RowsCompare
      <4>. HIDE DEF Cell
      <4>2. \/ Table!Before(order[p], order[q])
            \/ ~Table!Before(order[q], order[p]) /\ order[p] < order[q]
        <5>1. Table!Precedes(order[p], order[q])
          BY <3>2, <3>5
        <5>. QED
          BY <5>1 DEF Table!Precedes
      <4>3. sortDir \in {"asc", "desc"}
        BY <1>1, <2>3 DEF TableInv, Table!TypeOK
      <4>4. \/ Table!Below(Cell(p), Cell(q)) \/ Table!Below(Cell(q), Cell(p))
            \/ Cell(p) = Cell(q)
        BY <1>1, <4>1, CellsCompare
      <4>. QED
        BY <4>1, <4>2, <4>3, <4>4
    <3>. HIDE DEF Cell, n
    <3>6. \A p, q \in 1..n : p < q =>
            \/ sortDir = "asc" /\ Table!Below(Cell(p), Cell(q))
            \/ sortDir = "desc" /\ Table!Below(Cell(q), Cell(p))
            \/ (sortDir = "none" \/ Cell(p) = Cell(q)) /\ order[p] < order[q]
      BY <3>5
    <3>. QED
      BY <1>1, <2>1, <3>4, <3>6 DEF Table!ShownInOrder, TableInv, order, n, Cell
  <2>. QED
    BY <2>2, <2>3
<1>2. TableInv => ShownInOrder
  BY <1>1, ConsoleAssumption DEF ShownInOrder
<1>. QED
  BY <1>2, TableInvariance, PTL

----------------------------------------------------------------------------
(* The console as a whole.                                                     *)

(* The drawing of the console is the pipeline editor, so that what is proved   *)
(* of the editor holds of the console.                                         *)
THEOREM DrawingIsTheEditor == ConsoleSpec => FairSpec
<1>1. ConsoleInit => Init
  BY DEF ConsoleInit
<1>2. [ConsoleNext]_consoleVars => [Next]_vars
  BY DEF ConsoleNext, consoleVars
<1>. QED
  BY <1>1, <1>2, PTL DEF ConsoleSpec, FairSpec, Spec

(* Every variable of every view stays within its type.                         *)
THEOREM ViewsTypeCorrect == ConsoleSpec => []ViewsTypeOK
<1>1. ConsoleInit => view \in Views
  BY DEF ConsoleInit
<1>2. view \in Views /\ [ConsoleNext]_consoleVars => (view \in Views)'
  BY DEF ConsoleNext, consoleVars
<1>3. ConsoleSpec => [](view \in Views)
  BY <1>1, <1>2, PTL DEF ConsoleSpec
<1>4. ConsoleSpec => []TypeOK
  BY DrawingIsTheEditor, TypeCorrect, PTL DEF FairSpec
<1>5. /\ ScheduleInv => Schedule!TypeOK
      /\ HistoryInv => History!TypeOK
      /\ ListInv => List!TypeOK
      /\ TableInv => Table!TypeOK
      /\ TreeInv => Tree!TypeOK
      /\ PreviewInv => Preview!TypeOK
      /\ JobListInv => JobList!TypeOK
      /\ MonitorInv => Monitor!TypeOK
  BY DEF ScheduleInv, HistoryInv, ListInv, TableInv, TreeInv, PreviewInv, JobListInv, MonitorInv
<1>6. /\ view \in Views /\ TypeOK
      /\ Node!TypeOK /\ ScheduleInv /\ HistoryInv /\ ListInv /\ TableInv
      /\ Connector!TypeOK /\ TreeInv /\ PreviewInv
      /\ JobForm!TypeOK /\ JobListInv /\ SyncLog!TypeOK /\ MonitorInv
      => ViewsTypeOK
  BY <1>5 DEF ViewsTypeOK
<1>. QED
  BY <1>3, <1>4, <1>6, NodeTypeCorrect, ScheduleInvariance, HistoryInvariance, ListInvariance,
     TableInvariance, ConnectorTypeCorrect, TreeInvariance, PreviewInvariance, JobTypeCorrect,
     JobListInvariance, LogsAreTrue, MonitorInvariance, PTL
=============================================================================
