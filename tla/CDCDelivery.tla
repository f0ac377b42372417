---------------------------- MODULE CDCDelivery -----------------------------
(***************************************************************************)
(* Polling change capture for one CDC job: the source table that changes   *)
(* under it, the one-shot cdc.sync task (cdc_service.trigger_sync,         *)
(* trigger_snapshot, _run_sync and the retry policy of tasks.py), the      *)
(* long-running cdc.watch task (_run_watcher, _watch_poll), start and      *)
(* stop, and the scheduler's dispatch of watchers.  What is at stake is    *)
(* the checkpoint last_value: rows at or below it are never read again.    *)
(***************************************************************************)
EXTENDS Naturals, FiniteSets

CONSTANTS
  Rows,         (* primary keys of the source table                          *)
  Syncs,        (* cdc_sync_logs rows of one-shot syncs, one task each        *)
  Watches,      (* executions of cdc.watch; also the task ids they are given  *)
  NoTask,       (* celery_task_id IS NULL                                     *)
  MaxTracking,  (* bound: largest value of the tracking column                *)
  MaxLate,      (* bound: number of versions written late                     *)
  MaxRetries,   (* max_retries of _CDCSyncTask                                *)
  MaxFaults     (* bound: worker losses, failed publishes and failed commits  *)

ASSUME BoundsAssumption ==
  /\ MaxTracking \in Nat /\ MaxLate \in Nat
  /\ MaxRetries \in Nat /\ MaxFaults \in Nat
ASSUME TasksAssumption == NoTask \notin Watches /\ Syncs \cap Watches = {}

VARIABLES
  tracking,   (* tracking column of each row, 0 while the row is absent     *)
  highest,    (* the largest tracking value ever written                    *)
  late,       (* history: versions written at or below that value           *)
  status,     (* cdc_jobs.status                                            *)
  lastValue,  (* cdc_jobs.last_value, 0 for NULL                            *)
  taskId,     (* cdc_jobs.celery_task_id                                    *)
  logStatus,  (* cdc_sync_logs.status of each one-shot sync                 *)
  pc,         (* where each task's execution is                             *)
  from,       (* last_value in a task's job_snapshot                        *)
  batch,      (* what its query returned, in tracking order                 *)
  newest,     (* the tracking value of the last row of the batch            *)
  full,       (* the syncs that are snapshots                               *)
  retries,    (* Celery retries of a sync so far                            *)
  seenStatus, (* status of the job as a sync's database session loaded it   *)
  seenLast,   (* last_value of the job as that session loaded it            *)
  watchTask,  (* the task id a cdc.watch execution runs under               *)
  revoked,    (* task ids the workers were told to revoke                   *)
  stopping,   (* task id and status that a stop request in progress loaded      *)
  tick,       (* how far the scheduler is in an iteration of its loop         *)
  active,     (* the task ids that inspection returned                      *)
  object,     (* S3 object of each one-shot sync: its key is its log's id   *)
  stream,     (* contents of all S3 objects written by watchers             *)
  faults

sourceVars == <<tracking, highest, late>>
jobVars    == <<status, lastValue, taskId>>
taskVars   == <<pc, from, batch, newest>>
syncVars   == <<full, retries, seenStatus, seenLast>>
watchVars  == <<watchTask, revoked>>
schedVars  == <<stopping, tick, active>>
storeVars  == <<object, stream>>
notSync  == <<sourceVars, taskId, watchVars, schedVars, stream>>
notWatch == <<sourceVars, taskId, logStatus, syncVars, revoked, schedVars, object>>
vars == <<sourceVars, jobVars, logStatus, taskVars, syncVars, watchVars,
          schedVars, storeVars, faults>>

Tasks == Syncs \cup Watches
Version == Rows \X (1..MaxTracking)
Current(r) == <<r, tracking[r]>>
Delivered(v) == v \in stream \/ \E s \in Syncs : v \in object[s]

Statuses == {"idle", "running", "failed"}
Steps == {"none", "triggered", "queued", "loop", "query", "read", "written",
          "exhausted", "ack", "done", "lost"}

TypeOK ==
  /\ tracking \in [Rows -> 0..MaxTracking]
  /\ highest \in 0..MaxTracking
  /\ late \in SUBSET Version
  /\ status \in Statuses
  /\ lastValue \in 0..MaxTracking
  /\ taskId \in Watches \cup {NoTask}
  /\ logStatus \in [Syncs -> {"none", "running", "completed", "failed"}]
  /\ pc \in [Tasks -> Steps]
  /\ from \in [Tasks -> 0..MaxTracking]
  /\ batch \in [Tasks -> SUBSET Version]
  /\ newest \in [Tasks -> 0..MaxTracking]
  /\ full \in SUBSET Syncs
  /\ retries \in [Syncs -> 0..MaxRetries]
  /\ seenStatus \in [Syncs -> Statuses]
  /\ seenLast \in [Syncs -> 0..MaxTracking]
  /\ watchTask \in [Watches -> Watches]
  /\ revoked \in SUBSET Watches
  /\ stopping \in SUBSET ((Watches \cup {NoTask}) \X Statuses)
  /\ tick \in {"due", "inspected", "orphan"}
  /\ active \in SUBSET Watches
  /\ object \in [Syncs -> SUBSET Version]
  /\ stream \in SUBSET Version
  /\ faults \in 0..MaxFaults

Init ==
  /\ tracking = [r \in Rows |-> 0] /\ highest = 0 /\ late = {}
  /\ status = "idle" /\ lastValue = 0 /\ taskId = NoTask
  /\ logStatus = [s \in Syncs |-> "none"]
  /\ pc = [t \in Tasks |-> "none"]
  /\ from = [t \in Tasks |-> 0]
  /\ batch = [t \in Tasks |-> {}]
  /\ newest = [t \in Tasks |-> 0]
  /\ full = {} /\ retries = [s \in Syncs |-> 0]
  /\ seenStatus = [s \in Syncs |-> "idle"] /\ seenLast = [s \in Syncs |-> 0]
  /\ watchTask = [w \in Watches |-> w]
  /\ revoked = {} /\ stopping = {} /\ tick = "due" /\ active = {}
  /\ object = [s \in Syncs |-> {}] /\ stream = {}
  /\ faults = 0

(* SQLAlchemy writes a column only when it differs from the loaded value. *)
Flushed(current, loaded, new) == IF new = loaded THEN current ELSE new

Fault == faults < MaxFaults /\ faults' = faults + 1

Goto(t, step) ==
  /\ pc' = [pc EXCEPT ![t] = step]
  /\ UNCHANGED <<from, batch, newest>>

(* An execution ends and its local variables are gone; the arguments (from)
   stay in the message that may be delivered again.                        *)
Leave(t, step) ==
  /\ pc' = [pc EXCEPT ![t] = step]
  /\ batch' = [batch EXCEPT ![t] = {}]
  /\ newest' = [newest EXCEPT ![t] = 0]
  /\ UNCHANGED from

(* Nothing is left of an execution, not even its arguments. *)
Close(t, step) ==
  /\ pc' = [pc EXCEPT ![t] = step]
  /\ batch' = [batch EXCEPT ![t] = {}]
  /\ newest' = [newest EXCEPT ![t] = 0]
  /\ from' = [from EXCEPT ![t] = 0]

See(s, jobStatus, last) ==
  /\ seenStatus' = [seenStatus EXCEPT ![s] = jobStatus]
  /\ seenLast' = [seenLast EXCEPT ![s] = last]

-----------------------------------------------------------------------------
(* The source table.  A row is inserted or updated: normally above every
   tracking value so far, but a tie, a backdated value or a transaction that
   commits late puts it at or below one.                                   *)
WriteRow(r, t) ==
  /\ t = highest + 1 \/ (t <= highest /\ Cardinality(late) < MaxLate)
  /\ tracking' = [tracking EXCEPT ![r] = t]
  /\ highest' = IF t > highest THEN t ELSE highest
  /\ late' = IF t <= highest THEN late \cup {<<r, t>>} ELSE late
  /\ UNCHANGED <<jobVars, logStatus, taskVars, syncVars, watchVars,
                 schedVars, storeVars, faults>>

Changes(low) == {Current(r) : r \in {q \in Rows : tracking[q] > low}}

(* The tracking value of the last row, or the old checkpoint without rows. *)
IsNewest(n, rows, low) ==
  IF rows = {} THEN n = low
  ELSE (\E v \in rows : v[2] = n) /\ (\A v \in rows : v[2] <= n)

(* SELECT ... WHERE tracking > from ORDER BY tracking (no WHERE without a
   checkpoint).                                                            *)
Query(t) ==
  /\ pc[t] = "query"
  /\ pc' = [pc EXCEPT ![t] = "read"]
  /\ batch' = [batch EXCEPT ![t] = Changes(from[t])]
  /\ \E n \in 0..MaxTracking :
       /\ IsNewest(n, Changes(from[t]), from[t])
       /\ newest' = [newest EXCEPT ![t] = n]
  /\ UNCHANGED <<sourceVars, jobVars, logStatus, from, syncVars, watchVars,
                 schedVars, storeVars, faults>>

(* Variant: the checkpoint is the newest value of the table by now. *)
NewestByNow(t) == highest

(* The checkpoint a delivered batch leads to. *)
Reached(t) == newest[t]

-----------------------------------------------------------------------------
(* One-shot syncs. *)

(* trigger_sync and trigger_snapshot up to their first commit. *)
Trigger(s) ==
  /\ pc[s] = "none"
  /\ Goto(s, "triggered")
  /\ logStatus' = [logStatus EXCEPT ![s] = "running"]
  /\ status' = "running"
  /\ UNCHANGED <<notSync, lastValue, retries, seenStatus, seenLast, object,
                 faults>>

TriggerSync(s)     == Trigger(s) /\ UNCHANGED full
TriggerSnapshot(s) == Trigger(s) /\ full' = full \cup {s}

(* job_snapshot is taken and the task sent. *)
SendSync(s) ==
  /\ pc[s] = "triggered"
  /\ pc' = [pc EXCEPT ![s] = "queued"]
  /\ from' = [from EXCEPT ![s] = IF s \in full THEN 0 ELSE lastValue]
  /\ UNCHANGED <<notSync, status, lastValue, logStatus, batch, newest,
                 syncVars, object, faults>>

ConnectorMissing(s) ==
  /\ pc[s] = "triggered"
  /\ Close(s, "done")
  /\ logStatus' = [logStatus EXCEPT ![s] = "failed"]
  /\ status' = "failed"
  /\ UNCHANGED <<notSync, lastValue, syncVars, object, faults>>

(* Decrypting the config or publishing the task raises. *)
SendFails(s) ==
  /\ pc[s] = "triggered"
  /\ Close(s, "lost")
  /\ UNCHANGED <<notSync, status, lastValue, logStatus, syncVars, object,
                 faults>>

(* Variant: the checkpoint is the job's by now, not the message's. *)
SyncLoadFresh(s) ==
  /\ pc[s] = "queued"
  /\ pc' = [pc EXCEPT ![s] = "query"]
  /\ from' = [from EXCEPT ![s] = IF s \in full THEN 0 ELSE lastValue]
  /\ See(s, status, lastValue)
  /\ UNCHANGED <<notSync, status, lastValue, logStatus, batch, newest, full,
                 retries, object, faults>>

(* _run_sync loads the log and the job. *)
SyncLoad(s) ==
  /\ pc[s] = "queued"
  /\ Goto(s, "query")
  /\ See(s, status, lastValue)
  /\ UNCHANGED <<notSync, status, lastValue, logStatus, full, retries,
                 object, faults>>

(* The object's key is the log's id and the date: a task that is executed again
   overwrites its object, or leaves it when midnight has passed.           *)
SyncWrite(s) ==
  /\ pc[s] = "read" /\ batch[s] # {}
  /\ Goto(s, "written")
  /\ \E kept \in {{}, object[s]} :
       object' = [object EXCEPT ![s] = kept \cup batch[s]]
  /\ UNCHANGED <<notSync, status, lastValue, logStatus, syncVars, faults>>

(* No rows: nothing but the log and the status; else the checkpoint as well. *)
SyncCommit(s) ==
  /\ \/ pc[s] = "read" /\ batch[s] = {} /\ UNCHANGED lastValue
     \/ pc[s] = "written" /\ lastValue' = Flushed(lastValue, seenLast[s], Reached(s))
  /\ logStatus' = [logStatus EXCEPT ![s] = "completed"]
  /\ status' = Flushed(status, seenStatus[s], "idle")
  /\ Leave(s, "ack") /\ See(s, "idle", 0)
  /\ UNCHANGED <<notSync, full, retries, object, faults>>

MayRetry(s) == retries[s] < MaxRetries

(* The source is unreachable: Celery retries, at most max_retries times. *)
SyncTransient(s) ==
  /\ pc[s] = "query"
  /\ IF MayRetry(s)
       THEN Leave(s, "queued") /\ retries' = [retries EXCEPT ![s] = @ + 1]
       ELSE Leave(s, "exhausted") /\ UNCHANGED retries
  /\ See(s, "idle", 0)
  /\ UNCHANGED <<notSync, status, lastValue, logStatus, full, object,
                 faults>>

(* Variant: on_failure only touches the job. *)
LogLeft(s) == UNCHANGED logStatus

LogFailed(s) ==
  logStatus' = [logStatus EXCEPT ![s] = IF @ = "running" THEN "failed" ELSE @]

(* on_failure calls mark_sync_failed. *)
MarkSyncFailed(s) ==
  /\ pc[s] = "exhausted"
  /\ Goto(s, "ack")
  /\ LogFailed(s)
  /\ status' = "failed"
  /\ UNCHANGED <<notSync, lastValue, syncVars, object, faults>>

(* Any other exception of the query or of S3, whose answer to a write that
   happened may be lost.                                                   *)
SyncFails(s) ==
  /\ pc[s] \in {"query", "written"} \/ (pc[s] = "read" /\ batch[s] # {})
  /\ Leave(s, "ack") /\ See(s, "idle", 0)
  /\ logStatus' = [logStatus EXCEPT ![s] = "failed"]
  /\ status' = Flushed(status, seenStatus[s], "failed")
  /\ UNCHANGED <<notSync, lastValue, full, retries, object, faults>>

(* The database refuses a statement: the except branch fails as well, on the
   same session, and its failure is swallowed; so is one of mark_sync_failed. *)
SyncUnrecorded(s) ==
  /\ pc[s] \in {"queued", "query", "read", "written", "exhausted"}
  /\ Fault
  /\ Close(s, "lost") /\ See(s, "idle", 0)
  /\ UNCHANGED <<notSync, status, lastValue, logStatus, full, retries,
                 object>>

SyncAcknowledge(s) ==
  /\ pc[s] = "ack"
  /\ Close(s, "done")
  /\ retries' = [retries EXCEPT ![s] = 0]
  /\ UNCHANGED <<notSync, status, lastValue, logStatus, full, seenStatus,
                 seenLast, object, faults>>

(* task_acks_late and task_reject_on_worker_lost: executed again, with the same
   arguments.                                                              *)
SyncWorkerLost(s) ==
  /\ pc[s] \in {"query", "read", "written", "exhausted", "ack"}
  /\ Fault
  /\ Leave(s, "queued") /\ See(s, "idle", 0)
  /\ UNCHANGED <<notSync, status, lastValue, logStatus, full, retries,
                 object>>

SyncStep(s) ==
  \/ SyncLoad(s) \/ Query(s) \/ SyncWrite(s) \/ SyncCommit(s)
  \/ SyncTransient(s) \/ MarkSyncFailed(s) \/ SyncFails(s) \/ SyncAcknowledge(s)

-----------------------------------------------------------------------------
(* Watchers. *)

(* _run_watcher up to the loop; a vanished connector fails the job. *)
WatchBegin(w) ==
  /\ pc[w] = "queued"
  /\ \/ status = "running" /\ Goto(w, "loop") /\ UNCHANGED status
     \/ status # "running" /\ Close(w, "done") /\ UNCHANGED status
     \/ status = "running" /\ Close(w, "done") /\ status' = "failed"
  /\ UNCHANGED <<notWatch, lastValue, watchTask, stream, faults>>

(* db.refresh(job) at the top of each iteration, and the job_snapshot. *)
WatchRefresh(w) ==
  /\ pc[w] = "loop" /\ status = "running"
  /\ pc' = [pc EXCEPT ![w] = "query"]
  /\ from' = [from EXCEPT ![w] = lastValue]
  /\ UNCHANGED <<notWatch, status, lastValue, batch, newest, watchTask,
                 stream, faults>>

WatchExit(w) ==
  /\ pc[w] = "loop" /\ status # "running"
  /\ Close(w, "done")
  /\ UNCHANGED <<notWatch, status, lastValue, watchTask, stream, faults>>

(* A failed poll marks the job FAILED, whatever its status is by now. *)
WatchPollFails(w) ==
  /\ pc[w] = "query"
  /\ Close(w, "done")
  /\ status' = "failed"
  /\ UNCHANGED <<notWatch, lastValue, watchTask, stream, faults>>

WatchWrite(w) ==
  /\ pc[w] = "read" /\ batch[w] # {}
  /\ Goto(w, "written")
  /\ stream' = stream \cup batch[w]
  /\ UNCHANGED <<notWatch, status, lastValue, watchTask, faults>>

(* The commit that ends an iteration; the sleep follows. *)
WatchCommit(w) ==
  /\ \/ pc[w] = "read" /\ batch[w] = {} /\ UNCHANGED lastValue
     \/ pc[w] = "written" /\ lastValue' = Reached(w)
  /\ Close(w, "loop")
  /\ UNCHANGED <<notWatch, status, watchTask, stream, faults>>

(* S3 or the database raises: the task ends, the job stays RUNNING. *)
WatchRaises(w) ==
  /\ pc[w] \in {"queued", "loop", "read", "written"}
  /\ Fault
  /\ Close(w, "done")
  /\ UNCHANGED <<notWatch, status, lastValue, watchTask, stream>>

Watching == {"loop", "query", "read", "written"}

WatchWorkerLost(w) ==
  /\ pc[w] \in Watching
  /\ Fault
  /\ Close(w, "queued")
  /\ UNCHANGED <<notWatch, status, lastValue, watchTask, stream>>

(* A watcher never acknowledges its message while it runs: past the visibility
   timeout the broker starts a second execution under the same task id.    *)
WatchRedelivered(w, copy) ==
  /\ pc[w] \in Watching /\ pc[copy] \in {"none", "done"}
  /\ Fault
  /\ Goto(copy, "queued")
  /\ watchTask' = [watchTask EXCEPT ![copy] = watchTask[w]]
  /\ UNCHANGED <<notWatch, status, lastValue, stream>>

(* SIGTERM of a revoked watcher, or its message discarded on arrival. *)
WatchRevoked(w) ==
  /\ pc[w] \in Watching \cup {"queued"} /\ watchTask[w] \in revoked
  /\ Close(w, "done")
  /\ UNCHANGED <<notWatch, status, lastValue, watchTask, stream, faults>>

WatchStep(w) ==
  \/ WatchBegin(w) \/ WatchRefresh(w) \/ WatchExit(w) \/ Query(w)
  \/ WatchPollFails(w) \/ WatchWrite(w) \/ WatchCommit(w)

-----------------------------------------------------------------------------
(* Start, stop, and the scheduler tick. *)

StartJob ==
  /\ status' = "running"
  /\ UNCHANGED <<sourceVars, lastValue, taskId, logStatus, taskVars,
                 syncVars, watchVars, schedVars, storeVars, faults>>

(* cancel_job revokes the task id it loaded, or fails to; then commits.  The stop
   of a stopped job is left out: it revokes nothing and its commit writes
   nothing.                                                                *)
StopJob ==
  /\ stopping = {} /\ (status # "idle" \/ taskId # NoTask)
  /\ stopping' = {<<taskId, status>>}
  /\ revoked' \in {revoked, revoked \cup ({taskId} \ {NoTask})}
  /\ UNCHANGED <<sourceVars, jobVars, logStatus, taskVars, syncVars, watchTask,
                 tick, active, storeVars, faults>>

StopCommit ==
  /\ stopping # {}
  /\ stopping' = {}
  /\ \E loaded \in stopping :
       /\ taskId' = Flushed(taskId, loaded[1], NoTask)
       /\ status' = Flushed(status, loaded[2], "idle")
  /\ UNCHANGED <<sourceVars, lastValue, logStatus, taskVars, syncVars, watchVars,
                 tick, active, storeVars, faults>>

(* inspect() lists what workers execute or have reserved, not what still waits
   in the broker.                                                          *)
Inspect ==
  /\ tick = "due"
  /\ tick' = "inspected"
  /\ \E reserved \in SUBSET {w \in Watches : pc[w] = "queued"} :
       active' = {watchTask[w] : w \in reserved \cup {x \in Watches : pc[x] \in Watching}}
  /\ UNCHANGED <<sourceVars, jobVars, logStatus, taskVars, syncVars, watchVars,
                 stopping, storeVars, faults>>

(* Variant: only a job without any task id counts. *)
NeverDispatched == status = "running" /\ taskId = NoTask

(* The job is RUNNING and its watcher was not seen. *)
Orphaned == status = "running" /\ taskId \notin active

(* The query for RUNNING jobs, compared with what inspection returned. *)
SelectOrphan ==
  /\ tick = "inspected"
  /\ tick' = IF Orphaned THEN "orphan" ELSE "due"
  /\ active' = {}
  /\ UNCHANGED <<sourceVars, jobVars, logStatus, taskVars, syncVars, watchVars,
                 stopping, storeVars, faults>>

(* A task id no message uses any more stands for a fresh one. *)
Fresh(w) ==
  /\ w # taskId
  /\ \A x \in Watches : x = w \/ watchTask[x] = w => pc[x] \in {"none", "done"}

(* A new task id is committed, whatever became of the job since it was selected,
   and the task published, which may fail.                                 *)
DispatchWatcher(w) ==
  /\ tick = "orphan" /\ Fresh(w)
  /\ tick' = "due"
  /\ taskId' = w
  /\ revoked' = revoked \ {w}
  /\ watchTask' = [watchTask EXCEPT ![w] = w]
  /\ \/ Goto(w, "queued") /\ UNCHANGED faults
     \/ Fault /\ UNCHANGED taskVars
  /\ UNCHANGED <<sourceVars, status, lastValue, logStatus, syncVars, stopping,
                 active, storeVars>>

(* In this bounded model: no fresh id is left. *)
OutOfTasks ==
  /\ tick = "orphan" /\ ~(\E w \in Watches : Fresh(w))
  /\ tick' = "due"
  /\ UNCHANGED <<sourceVars, jobVars, logStatus, taskVars, syncVars, watchVars,
                 stopping, active, storeVars, faults>>

SchedulerStep ==
  Inspect \/ SelectOrphan \/ (\E w \in Watches : DispatchWatcher(w)) \/ OutOfTasks

-----------------------------------------------------------------------------
Next ==
  \/ \E r \in Rows, t \in 1..MaxTracking : WriteRow(r, t)
  \/ \E s \in Syncs :
       \/ TriggerSync(s) \/ TriggerSnapshot(s) \/ SendSync(s)
       \/ ConnectorMissing(s) \/ SendFails(s)
       \/ SyncStep(s) \/ SyncUnrecorded(s) \/ SyncWorkerLost(s)
  \/ \E w \in Watches :
       \/ WatchStep(w) \/ WatchRaises(w) \/ WatchWorkerLost(w) \/ WatchRevoked(w)
       \/ \E copy \in Watches : WatchRedelivered(w, copy)
  \/ StartJob \/ StopJob \/ StopCommit \/ SchedulerStep

Spec == Init /\ [][Next]_vars

(* Workers take the steps their code has next and the scheduler keeps going;
   the source, the users and the faults may do nothing.                    *)
Fairness ==
  /\ \A s \in Syncs : WF_vars(SyncStep(s))
  /\ \A w \in Watches : WF_vars(WatchStep(w)) /\ WF_vars(WatchRevoked(w))
  /\ WF_vars(SchedulerStep)

FairSpec == Spec /\ Fairness

-----------------------------------------------------------------------------
(* Properties. *)

(* The checkpoint never passes data that is not in S3: the current version of
   every row at or below last_value has been delivered, unless it was written
   at or below a value already in use.  This is what makes it safe that rows
   at or below last_value are not read again, whatever syncs, watchers,
   crashes, redeliveries and stale commits interleave.                     *)
Complete(v) ==
  \A r \in Rows :
    tracking[r] \in 1..v => Delivered(Current(r)) \/ Current(r) \in late

NoLoss == Complete(lastValue)

(* The rows whose current version is to be delivered and has not been. *)
Pending == {r \in Rows :
  tracking[r] > 0 /\ ~Delivered(Current(r)) /\ Current(r) \notin late}

Captured == INSTANCE Capture
              WITH version <- tracking, owed <- Pending, checkpoint <- lastValue

(* Capture is what syncs and watchers implement together: besides NoLoss, a row
   that was delivered stays delivered until it changes, although a sync that is
   executed again replaces its object, and one commit of a checkpoint, however
   stale, never passes a row that is still owed.                           *)
AtLeastOnce == Captured!Spec

(* As long as the job stays RUNNING its watchers deliver every change: each
   version reaches S3 unless the row changes again or was written late.    *)
RunningJobDelivers ==
  \A r \in Rows, t \in 1..MaxTracking :
    (tracking[r] = t /\ status = "running") ~>
      (tracking[r] # t \/ Delivered(<<r, t>>) \/ <<r, t>> \in late
       \/ status # "running")

(* A dispatched sync always closes its log, retries and worker losses included,
   unless the database refuses the outcome.                                *)
SyncLogCloses ==
  \A s \in Syncs :
    pc[s] = "queued" ~> (logStatus[s] # "running" \/ pc[s] = "lost")

(* docs/cdc-event-schema.md: "a given tracking value is only seen once across
   syncs": no version is in the objects of two incremental deliveries.     *)
SeenOnce ==
  \A s, u \in Syncs \ full :
    /\ s # u => object[s] \cap object[u] = {}
    /\ object[s] \cap stream = {}

(* cdc-v2 foundation design, 4.1 and 6.2: POST /sync forces a sync "without
   flipping a job to RUNNING", with "No watcher loop"; so only POST /stop makes
   a watched job IDLE.                                                     *)
SyncKeepsWatching ==
  [][status = "running" /\ taskId # NoTask /\ status' = "idle"
       => stopping # {}]_vars
=============================================================================
