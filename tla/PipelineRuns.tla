---------------------------- MODULE PipelineRuns ----------------------------
(***************************************************************************)
(* The life of the runs of one pipeline: the API requests that create,     *)
(* retry, cancel and delete them (routers/pipelines.py, run_service.py),   *)
(* the Celery queue between API and workers (late acknowledgement,         *)
(* redelivery, revocation), and the workers that step through              *)
(* run_service._run_pipeline.  Every commit and every read of the database *)
(* that another process can interleave with is a step of its own.          *)
(***************************************************************************)
EXTENDS Naturals, FiniteSets

CONSTANTS
  Runs,             (* identities of pipeline_runs rows and their messages *)
  Workers,          (* Celery worker child processes                       *)
  NoRun,            (* what an idle worker holds                           *)
  Sinkless,         (* runs whose definition has no destination node       *)
  MaxRedeliveries   (* bound: broker redeliveries of one message           *)

ASSUME MaxRedeliveriesAssumption == MaxRedeliveries \in Nat
ASSUME NoRunAssumption == NoRun \notin Runs
ASSUME SinklessAssumption == Sinkless \subseteq Runs
ASSUME WorkersAssumption == IsFiniteSet(Workers)

VARIABLES
  runStatus,       (* pipeline_runs.status; "absent" before, "deleted" after *)
  pipelineStatus,  (* pipelines.status                                     *)
  taskStored,      (* runs whose celery_task_id is committed               *)
  starting,        (* progress of the start_run call that creates a run    *)
  cancelling,      (* progress of a cancel request for a run               *)
  queued,          (* copies of a run's message waiting in the broker      *)
  redelivered,     (* how often the broker handed a run's message out again *)
  revoked,         (* task ids the workers were told to revoke             *)
  pc,              (* the step each worker has reached                     *)
  holding,         (* the run whose message it holds                       *)
  rowSeen,         (* the run's status as its session last loaded it       *)
  verdict,         (* what the executor returned                           *)
  writes,          (* history: executions of a run that got as far as writing *)
  succeeded,       (* history: runs an execution of which succeeded        *)
  timely,          (* history: cancels committed outside a worker's write window *)
  raised,          (* history: runs whose execution raised                 *)
  stopped,         (* history: runs a revocation discarded or terminated    *)
  unrecorded       (* history: runs whose outcome the database refused     *)

apiVars     == <<taskStored, starting, cancelling>>
brokerVars  == <<queued, redelivered, revoked>>
workerVars  == <<pc, holding, rowSeen, verdict>>
historyVars == <<writes, succeeded, timely, raised, stopped, unrecorded>>
vars == <<runStatus, pipelineStatus, apiVars, brokerVars, workerVars,
          historyVars>>

RunStatuses == {"absent", "pending", "running", "completed", "failed",
                "cancelled", "deleted"}
PipelineStatuses == {"draft", "valid", "invalid", "running", "completed", "failed",
                     "deleted"}
Final == {"completed", "failed", "cancelled"}
Steps == {"load", "mark", "execute", "refresh", "commit", "crash", "ack"}

TypeOK ==
  /\ runStatus \in [Runs -> RunStatuses]
  /\ pipelineStatus \in PipelineStatuses
  /\ taskStored \in SUBSET Runs
  /\ starting \in [Runs -> {"none", "created", "stored", "sent", "raised"}]
  /\ cancelling \in [Runs -> {"no", "revoke", "commit"}]
  /\ queued \in [Runs -> Nat]
  /\ redelivered \in [Runs -> 0..MaxRedeliveries]
  /\ revoked \in SUBSET Runs
  /\ pc \in [Workers -> Steps \cup {"idle"}]
  /\ holding \in [Workers -> Runs \cup {NoRun}]
  /\ rowSeen \in [Workers -> RunStatuses]
  /\ verdict \in [Workers -> {"none", "success", "failure"}]
  /\ writes \in [Runs -> Nat]
  /\ succeeded \in SUBSET Runs
  /\ timely \in SUBSET Runs
  /\ raised \in SUBSET Runs
  /\ stopped \in SUBSET Runs
  /\ unrecorded \in SUBSET Runs

Init ==
  /\ runStatus = [r \in Runs |-> "absent"]
  /\ pipelineStatus = "draft"
  /\ taskStored = {}
  /\ starting = [r \in Runs |-> "none"]
  /\ cancelling = [r \in Runs |-> "no"]
  /\ queued = [r \in Runs |-> 0]
  /\ redelivered = [r \in Runs |-> 0]
  /\ revoked = {}
  /\ pc = [w \in Workers |-> "idle"]
  /\ holding = [w \in Workers |-> NoRun]
  /\ rowSeen = [w \in Workers |-> "absent"]
  /\ verdict = [w \in Workers |-> "none"]
  /\ writes = [r \in Runs |-> 0]
  /\ succeeded = {}
  /\ timely = {} /\ raised = {} /\ stopped = {} /\ unrecorded = {}

(* Worker w works on run r and has reached one of the given steps. *)
At(w, r, steps) == pc[w] \in steps /\ holding[w] = r

Holders(r, steps) == {w \in Workers : At(w, r, steps)}

(* The steps from which a worker writes the status it decided on earlier. *)
WriteWindow == {"mark", "commit", "crash"}

(* SQLAlchemy's unit of work emits an UPDATE only for an attribute that differs
   from the value the session loaded.                                       *)
Flushed(current, loaded, new) == IF new = loaded THEN current ELSE new

-----------------------------------------------------------------------------
(* The API process. *)

(* start_run up to its first commit. *)
CreateRun(r) ==
  /\ pipelineStatus # "deleted"
  /\ runStatus[r] = "absent"
  /\ runStatus' = [runStatus EXCEPT ![r] = "pending"]
  /\ pipelineStatus' = "running"
  /\ starting' = [starting EXCEPT ![r] = "created"]
  /\ UNCHANGED <<taskStored, cancelling, brokerVars, workerVars,
                 historyVars>>

TriggerRun(r) == CreateRun(r)

(* retry_run: only a failed or cancelled run, and always as a new run. *)
RetryRun(old, r) ==
  /\ runStatus[old] \in {"failed", "cancelled"}
  /\ CreateRun(r)

(* Connectors resolved, task id stored: the second commit of start_run. *)
StoreTaskId(r) ==
  /\ starting[r] = "created" /\ runStatus[r] # "deleted"
  /\ taskStored' = taskStored \cup {r}
  /\ starting' = [starting EXCEPT ![r] = "stored"]
  /\ UNCHANGED <<runStatus, pipelineStatus, cancelling, brokerVars,
                 workerVars, historyVars>>

Dispatch(r) ==
  /\ starting[r] = "stored"
  /\ starting' = [starting EXCEPT ![r] = "sent"]
  /\ queued' = [queued EXCEPT ![r] = @ + 1]
  /\ UNCHANGED <<runStatus, pipelineStatus, taskStored, cancelling,
                 redelivered, revoked, workerVars, historyVars>>

(* A malformed connector id, an undecryptable config, a deleted pipeline or an
   unreachable broker makes start_run raise: nothing cleans the row up.     *)
StartFails(r) ==
  /\ starting[r] \in {"created", "stored"}
  /\ starting' = [starting EXCEPT ![r] = "raised"]
  /\ UNCHANGED <<runStatus, pipelineStatus, taskStored, cancelling,
                 brokerVars, workerVars, historyVars>>

(* The router's guard, on the row as this request loads it. *)
CancelRequest(r) ==
  /\ cancelling[r] = "no"
  /\ runStatus[r] \in {"pending", "running"}
  /\ cancelling' = [cancelling EXCEPT ![r] =
                      IF r \in taskStored THEN "revoke" ELSE "commit"]
  /\ UNCHANGED <<runStatus, pipelineStatus, taskStored, starting, brokerVars,
                 workerVars, historyVars>>

(* control.revoke reaches the workers, or raises and is swallowed. *)
CancelRevoke(r) ==
  /\ cancelling[r] = "revoke"
  /\ cancelling' = [cancelling EXCEPT ![r] = "commit"]
  /\ revoked' \in {revoked, revoked \cup {r}}
  /\ UNCHANGED <<runStatus, pipelineStatus, taskStored, starting, queued,
                 redelivered, workerVars, historyVars>>

(* cancel_run's commit: unconditional, whatever happened since the guard. *)
CancelCommit(r) ==
  /\ cancelling[r] = "commit" /\ runStatus[r] # "deleted"
  /\ cancelling' = [cancelling EXCEPT ![r] = "no"]
  /\ runStatus' = [runStatus EXCEPT ![r] = "cancelled"]
  /\ timely' = IF Holders(r, WriteWindow) = {} THEN timely \cup {r} ELSE timely
  /\ UNCHANGED <<pipelineStatus, taskStored, starting, brokerVars,
                 workerVars, writes, succeeded, raised, stopped, unrecorded>>

CancelFails(r) ==
  /\ cancelling[r] = "commit"
  /\ cancelling' = [cancelling EXCEPT ![r] = "no"]
  /\ UNCHANGED <<runStatus, pipelineStatus, taskStored, starting, brokerVars,
                 workerVars, historyVars>>

(* validate_pipeline writes the pipeline's status even while a run executes. *)
ValidatePipeline ==
  /\ pipelineStatus # "deleted"
  /\ pipelineStatus' \in {"valid", "invalid"}
  /\ UNCHANGED <<runStatus, apiVars, brokerVars, workerVars, historyVars>>

(* The delete cascades to the runs; no task is revoked. *)
DeletePipeline ==
  /\ pipelineStatus # "deleted"
  /\ pipelineStatus' = "deleted"
  /\ runStatus' = [r \in Runs |-> "deleted"]
  /\ UNCHANGED <<apiVars, brokerVars, workerVars, historyVars>>

-----------------------------------------------------------------------------
(* A worker executing pipeline.run. *)

Goto(w, step) ==
  /\ pc' = [pc EXCEPT ![w] = step]
  /\ UNCHANGED <<holding, rowSeen, verdict>>

Release(w) ==
  /\ pc' = [pc EXCEPT ![w] = "idle"]
  /\ holding' = [holding EXCEPT ![w] = NoRun]
  /\ rowSeen' = [rowSeen EXCEPT ![w] = "absent"]
  /\ verdict' = [verdict EXCEPT ![w] = "none"]

(* The session reads the run's row. *)
Reads(w, r) == rowSeen' = [rowSeen EXCEPT ![w] = runStatus[r]]

(* A message is reserved; a revoked task is discarded on arrival. *)
Receive(w, r) ==
  /\ pc[w] = "idle" /\ queued[r] > 0
  /\ queued' = [queued EXCEPT ![r] = @ - 1]
  /\ \/ r \in revoked /\ stopped' = stopped \cup {r} /\ UNCHANGED <<pc, holding>>
     \/ /\ r \notin revoked /\ UNCHANGED stopped
        /\ pc' = [pc EXCEPT ![w] = "load"]
        /\ holding' = [holding EXCEPT ![w] = r]
  /\ UNCHANGED <<runStatus, pipelineStatus, apiVars, redelivered, revoked,
                 rowSeen, verdict, writes, succeeded, timely, raised, unrecorded>>

(* Variant: the run is executed whatever its status. *)
LoadAlways(w, r) ==
  /\ At(w, r, {"load"})
  /\ pc' = [pc EXCEPT ![w] = "mark"]
  /\ Reads(w, r)
  /\ UNCHANGED <<runStatus, pipelineStatus, apiVars, brokerVars, holding, verdict,
                 historyVars>>

(* Variant: only a PENDING run is executed. *)
LoadPendingOnly(w, r) ==
  /\ At(w, r, {"load"})
  /\ pc' = [pc EXCEPT ![w] = IF runStatus[r] = "pending" THEN "mark" ELSE "ack"]
  /\ Reads(w, r)
  /\ UNCHANGED <<runStatus, pipelineStatus, apiVars, brokerVars, holding, verdict,
                 historyVars>>

Load(w, r) ==
  /\ At(w, r, {"load"})
  /\ pc' = [pc EXCEPT ![w] =
              IF runStatus[r] \in {"cancelled", "deleted"} THEN "ack" ELSE "mark"]
  /\ Reads(w, r)
  /\ UNCHANGED <<runStatus, pipelineStatus, apiVars, brokerVars, holding, verdict,
                 historyVars>>

(* status = RUNNING is committed; a re-executed run is RUNNING already. *)
MarkRunning(w, r) ==
  /\ At(w, r, {"mark"}) /\ runStatus[r] # "deleted"
  /\ runStatus' = [runStatus EXCEPT ![r] = Flushed(@, rowSeen[w], "running")]
  /\ Goto(w, "execute")
  /\ UNCHANGED <<pipelineStatus, apiVars, brokerVars, historyVars>>

(* Destinations are written or not; the engine does not ask for one. *)
Destinations(r) == IF r \in Sinkless THEN 0 ELSE 1

(* Variant: the task retries an execution that failed. *)
ExecuteRetrying(w, r) ==
  /\ At(w, r, {"execute"})
  /\ \E result \in {"success", "failure"}, n \in {0, 1} :
       /\ result = "success" => n = Destinations(r)
       /\ n <= Destinations(r)
       /\ pc' = [pc EXCEPT ![w] =
                   IF result = "success" \/ writes[r] > MaxRedeliveries
                     THEN "refresh" ELSE "execute"]
       /\ verdict' = [verdict EXCEPT ![w] = result]
       /\ writes' = [writes EXCEPT ![r] = @ + n]
       /\ succeeded' = IF result = "success" THEN succeeded \cup {r} ELSE succeeded
  /\ UNCHANGED <<runStatus, pipelineStatus, apiVars, brokerVars, holding,
                 rowSeen, timely, raised, stopped, unrecorded>>

(* PipelineExecutor.execute returns: success, every destination written if there
   is one, or a failed node, before which another destination may already have
   been written.                                                           *)
Execute(w, r) ==
  /\ At(w, r, {"execute"})
  /\ pc' = [pc EXCEPT ![w] = "refresh"]
  /\ \E result \in {"success", "failure"}, n \in {0, 1} :
       /\ result = "success" => n = Destinations(r)
       /\ n <= Destinations(r)
       /\ verdict' = [verdict EXCEPT ![w] = result]
       /\ writes' = [writes EXCEPT ![r] = @ + n]
       /\ succeeded' = IF result = "success" THEN succeeded \cup {r} ELSE succeeded
  /\ UNCHANGED <<runStatus, pipelineStatus, apiVars, brokerVars, holding,
                 rowSeen, timely, raised, stopped, unrecorded>>

(* Building a connector or ordering the nodes raises before any node runs. *)
ExecuteRaises(w, r) ==
  /\ At(w, r, {"execute"})
  /\ Goto(w, "crash")
  /\ raised' = raised \cup {r}
  /\ UNCHANGED <<runStatus, pipelineStatus, apiVars, brokerVars, writes, succeeded,
                 timely, stopped, unrecorded>>

Refresh(w, r) ==
  /\ At(w, r, {"refresh"}) /\ runStatus[r] # "deleted"
  /\ pc' = [pc EXCEPT ![w] = IF runStatus[r] = "cancelled" THEN "ack" ELSE "commit"]
  /\ Reads(w, r)
  /\ UNCHANGED <<runStatus, pipelineStatus, apiVars, brokerVars, holding, verdict,
                 historyVars>>

(* Variant: the executor's verdict is not looked at. *)
OutcomeUnread(w) == "completed"

Outcome(w) == IF verdict[w] = "success" THEN "completed" ELSE "failed"

CommitOutcome(w, r) ==
  /\ At(w, r, {"commit"}) /\ runStatus[r] # "deleted"
  /\ runStatus' = [runStatus EXCEPT ![r] = Flushed(@, rowSeen[w], Outcome(w))]
  /\ pipelineStatus' = Outcome(w)
  /\ Goto(w, "ack")
  /\ UNCHANGED <<apiVars, brokerVars, historyVars>>

(* The except branch: FAILED without looking for a cancellation. *)
RecordCrash(w, r) ==
  /\ At(w, r, {"crash"}) /\ runStatus[r] # "deleted"
  /\ runStatus' = [runStatus EXCEPT ![r] = "failed"]
  /\ pipelineStatus' = "failed"
  /\ Goto(w, "ack")
  /\ UNCHANGED <<apiVars, brokerVars, historyVars>>

(* The row is gone or the database refuses the statement.  The session is then
   unusable, so the except branch fails as well, and is swallowed.         *)
DatabaseFails(w, r) ==
  /\ At(w, r, {"mark", "refresh", "commit", "crash"})
  /\ Goto(w, "ack")
  /\ unrecorded' = unrecorded \cup {r}
  /\ UNCHANGED <<runStatus, pipelineStatus, apiVars, brokerVars, writes, succeeded,
                 timely, raised, stopped>>

(* task_acks_late: the message leaves the broker after the task returns. *)
Acknowledge(w, r) ==
  /\ At(w, r, {"ack"})
  /\ Release(w)
  /\ UNCHANGED <<runStatus, pipelineStatus, apiVars, brokerVars,
                 historyVars>>

WorkStep(w, r) ==
  \/ Receive(w, r) \/ Load(w, r) \/ MarkRunning(w, r) \/ Execute(w, r)
  \/ ExecuteRaises(w, r) \/ Refresh(w, r) \/ CommitOutcome(w, r)
  \/ RecordCrash(w, r) \/ DatabaseFails(w, r) \/ Acknowledge(w, r)

(* SIGTERM of the child that runs a revoked task; the message is acknowledged. *)
Terminate(w, r) ==
  /\ r \in revoked /\ At(w, r, Steps)
  /\ Release(w)
  /\ stopped' = stopped \cup {r}
  /\ UNCHANGED <<runStatus, pipelineStatus, apiVars, brokerVars, writes, succeeded,
                 timely, raised, unrecorded>>

-----------------------------------------------------------------------------
(* The broker hands an unacknowledged message out again. *)

Requeue(r) ==
  /\ redelivered[r] < MaxRedeliveries
  /\ redelivered' = [redelivered EXCEPT ![r] = @ + 1]
  /\ queued' = [queued EXCEPT ![r] = @ + 1]

(* Variant: a lost worker's message is acknowledged. *)
WorkerLostForGood(w, r) ==
  /\ At(w, r, Steps)
  /\ Release(w)
  /\ UNCHANGED <<runStatus, pipelineStatus, apiVars, brokerVars,
                 historyVars>>

(* task_reject_on_worker_lost: the child dies, its message is requeued; the
   revocations a worker remembers are lost when the whole worker restarts.  *)
WorkerLost(w, r) ==
  /\ At(w, r, Steps)
  /\ Requeue(r)
  /\ Release(w)
  /\ revoked' \in {revoked, {}}
  /\ UNCHANGED <<runStatus, pipelineStatus, apiVars, historyVars>>

(* Redis redelivers what stays unacknowledged past its visibility timeout,
   although the first worker is still busy with it.                        *)
VisibilityTimeout(r) ==
  /\ Holders(r, Steps) # {}
  /\ Requeue(r)
  /\ UNCHANGED <<runStatus, pipelineStatus, apiVars, revoked, workerVars,
                 historyVars>>

-----------------------------------------------------------------------------
Next ==
  \/ \E r \in Runs :
       \/ TriggerRun(r) \/ StoreTaskId(r) \/ Dispatch(r) \/ StartFails(r)
       \/ CancelRequest(r) \/ CancelRevoke(r) \/ CancelCommit(r) \/ CancelFails(r)
       \/ VisibilityTimeout(r)
       \/ \E old \in Runs : RetryRun(old, r)
       \/ \E w \in Workers : WorkStep(w, r) \/ Terminate(w, r) \/ WorkerLost(w, r)
  \/ ValidatePipeline \/ DeletePipeline

Spec == Init /\ [][Next]_vars

(* A worker keeps taking the steps its code has next; requests, failures and
   redeliveries may happen or not.                                         *)
Fairness == \A w \in Workers : WF_vars(\E r \in Runs : WorkStep(w, r))

FairSpec == Spec /\ Fairness

-----------------------------------------------------------------------------
(* Properties. *)

(* A cancellation committed while no worker is about to write the run's status
   is never overwritten by the execution, however often the message is
   redelivered: both cancellation checks of _run_pipeline together.  The one
   exception is an execution that raises.                                  *)
CancelHonoured ==
  \A r \in timely \ raised : runStatus[r] \in {"cancelled", "deleted"}

(* Late acknowledgement never forgets a run: once dispatched, a run that is
   neither waiting in the broker nor held by a worker has a final status,
   unless a revocation stopped it or the database refused its outcome.     *)
NoRunForgotten ==
  \A r \in Runs :
    starting[r] = "sent" /\ queued[r] = 0 /\ Holders(r, Steps) = {} =>
      \/ runStatus[r] \in Final \cup {"deleted"}
      \/ r \in stopped \cup unrecorded

(* Some execution of the run succeeded, and wrote what there was to write. *)
Real(r) == r \in succeeded /\ writes[r] >= Destinations(r)

(* A run reported COMPLETED had an execution that succeeded and that wrote the
   run's destinations, if its definition has any; so had some run of a pipeline
   reported COMPLETED.  A verdict passes through the worker's later reads and
   commits, beside other deliveries of the same run that fail or raise.    *)
ReportedSuccessIsReal ==
  /\ \A r \in Runs : runStatus[r] = "completed" => Real(r)
  /\ pipelineStatus = "completed" => \E r \in Runs : Real(r)

(* Each delivery of the message writes the destinations at most once: only a
   redelivery can write a run's rows a second time.                        *)
OneWritePerDelivery ==
  \A r \in Runs : writes[r] <= 1 + redelivered[r]

(* Every message in the broker is eventually settled: the run gets a final
   status or disappears, unless a revocation stopped it or the database
   refused the outcome.                                                    *)
QueuedRunsSettle ==
  \A r \in Runs :
    queued[r] > 0 ~> \/ runStatus[r] \in Final \cup {"deleted"}
                     \/ r \in stopped \cup unrecorded

(* tests/test_run_service.py: "If the run is cancelled while executing,
   _run_pipeline must not overwrite its state."                            *)
CancelNeverOverwritten ==
  [][\A r \in Runs :
       /\ runStatus[r] = "cancelled"
       /\ Holders(r, {"execute", "refresh", "commit", "crash"}) # {}
       => runStatus'[r] \in {"cancelled", "deleted"}]_vars
=============================================================================
