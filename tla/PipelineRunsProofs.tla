------------------------ MODULE PipelineRunsProofs --------------------------
(***************************************************************************)
(* Proofs about PipelineRuns for every set of runs, every finite set of    *)
(* workers and every number of redeliveries: the types, and the four       *)
(* safety properties its runs check.  Each property has an inductive       *)
(* strengthening of its own, that says what a worker between two steps     *)
(* still has to do; TypeOK is the only invariant they share.               *)
(***************************************************************************)
EXTENDS PipelineRuns, FiniteSetTheorems, TLAPS

-----------------------------------------------------------------------------
(* Type correctness. *)

(* The initial state has the types of TypeOK. *)
LEMMA TypeInit == Init => TypeOK
BY MaxRedeliveriesAssumption DEF Init, TypeOK, RunStatuses, PipelineStatuses

(* Every operation preserves them, one step per action. *)
LEMMA TypeStep == TypeOK /\ [Next]_vars => TypeOK'
<1> SUFFICES ASSUME TypeOK, [Next]_vars
             PROVE  TypeOK'
  OBVIOUS
<1>. USE MaxRedeliveriesAssumption
<1>. USE DEF TypeOK, RunStatuses, PipelineStatuses, Steps, apiVars, brokerVars,
             workerVars, historyVars
<1>1. ASSUME NEW r \in Runs, TriggerRun(r)
      PROVE  TypeOK'
  BY <1>1 DEF TriggerRun, CreateRun
<1>2. ASSUME NEW old \in Runs, NEW r \in Runs, RetryRun(old, r)
      PROVE  TypeOK'
  BY <1>2 DEF RetryRun, CreateRun
<1>3. ASSUME NEW r \in Runs, StoreTaskId(r)
      PROVE  TypeOK'
  BY <1>3 DEF StoreTaskId
<1>4. ASSUME NEW r \in Runs, Dispatch(r)
      PROVE  TypeOK'
  BY <1>4 DEF Dispatch
<1>5. ASSUME NEW r \in Runs, StartFails(r)
      PROVE  TypeOK'
  BY <1>5 DEF StartFails
<1>6. ASSUME NEW r \in Runs, CancelRequest(r)
      PROVE  TypeOK'
  BY <1>6 DEF CancelRequest
<1>7. ASSUME NEW r \in Runs, CancelRevoke(r)
      PROVE  TypeOK'
  BY <1>7 DEF CancelRevoke
<1>8. ASSUME NEW r \in Runs, CancelCommit(r)
      PROVE  TypeOK'
  BY <1>8 DEF CancelCommit
<1>9. ASSUME NEW r \in Runs, CancelFails(r)
      PROVE  TypeOK'
  BY <1>9 DEF CancelFails
<1>10. ASSUME ValidatePipeline
      PROVE  TypeOK'
  BY <1>10 DEF ValidatePipeline
<1>11. ASSUME DeletePipeline
      PROVE  TypeOK'
  BY <1>11 DEF DeletePipeline
<1>12. ASSUME NEW w \in Workers, NEW r \in Runs, Receive(w, r)
      PROVE  TypeOK'
  BY <1>12 DEF Receive
<1>13. ASSUME NEW w \in Workers, NEW r \in Runs, Load(w, r)
      PROVE  TypeOK'
  BY <1>13 DEF Load, Reads, At
<1>14. ASSUME NEW w \in Workers, NEW r \in Runs, MarkRunning(w, r)
      PROVE  TypeOK'
  BY <1>14 DEF MarkRunning, Goto, Flushed
<1>15. ASSUME NEW w \in Workers, NEW r \in Runs, Execute(w, r)
      PROVE  TypeOK'
  BY <1>15 DEF Execute
<1>16. ASSUME NEW w \in Workers, NEW r \in Runs, ExecuteRaises(w, r)
      PROVE  TypeOK'
  BY <1>16 DEF ExecuteRaises, Goto
<1>17. ASSUME NEW w \in Workers, NEW r \in Runs, Refresh(w, r)
      PROVE  TypeOK'
  BY <1>17 DEF Refresh, Reads, At
<1>18. ASSUME NEW w \in Workers, NEW r \in Runs, CommitOutcome(w, r)
      PROVE  TypeOK'
  BY <1>18 DEF CommitOutcome, Goto, Flushed, Outcome
<1>19. ASSUME NEW w \in Workers, NEW r \in Runs, RecordCrash(w, r)
      PROVE  TypeOK'
  BY <1>19 DEF RecordCrash, Goto
<1>20. ASSUME NEW w \in Workers, NEW r \in Runs, DatabaseFails(w, r)
      PROVE  TypeOK'
  BY <1>20 DEF DatabaseFails, Goto
<1>21. ASSUME NEW w \in Workers, NEW r \in Runs, Acknowledge(w, r)
      PROVE  TypeOK'
  BY <1>21 DEF Acknowledge, Release
<1>22. ASSUME NEW w \in Workers, NEW r \in Runs, Terminate(w, r)
      PROVE  TypeOK'
  BY <1>22 DEF Terminate, Release
<1>23. ASSUME NEW w \in Workers, NEW r \in Runs, WorkerLost(w, r)
      PROVE  TypeOK'
  BY <1>23 DEF WorkerLost, Requeue, Release
<1>24. ASSUME NEW r \in Runs, VisibilityTimeout(r)
      PROVE  TypeOK'
  BY <1>24 DEF VisibilityTimeout, Requeue
<1>25. ASSUME UNCHANGED vars
      PROVE  TypeOK'
  BY <1>25 DEF vars
<1>. QED
  BY <1>1, <1>2, <1>3, <1>4, <1>5, <1>6, <1>7, <1>8, <1>9, <1>10, <1>11,
     <1>12, <1>13, <1>14, <1>15, <1>16, <1>17, <1>18, <1>19, <1>20, <1>21,
     <1>22, <1>23, <1>24, <1>25
  DEF Next, WorkStep

(* Every variable of the run model keeps its type: statuses stay in the enums of
   models/pipeline_run.py and models/pipeline.py, and the broker never holds a
   negative number of messages.                                            *)
THEOREM TypeCorrect == Spec => []TypeOK
BY TypeInit, TypeStep, PTL DEF Spec

-----------------------------------------------------------------------------
(* Cancellation. *)

(* A timely cancellation is on the row, and no worker is about to write over it. *)
Honoured ==
  \A r \in timely \ raised :
    /\ runStatus[r] \in {"cancelled", "deleted"}
    /\ \A w \in Workers : ~At(w, r, WriteWindow)

(* The check on loading the run and the check after execution are enough. *)
LEMMA HonouredStep == TypeOK /\ Honoured /\ [Next]_vars => Honoured'
<1> SUFFICES ASSUME TypeOK, Honoured, [Next]_vars
             PROVE  Honoured'
  OBVIOUS
<1>. USE DEF TypeOK, Honoured, At, WriteWindow, Steps, apiVars, brokerVars, workerVars,
             historyVars
<1>1. ASSUME NEW r \in Runs, TriggerRun(r)
      PROVE  Honoured'
  BY <1>1 DEF TriggerRun, CreateRun
<1>2. ASSUME NEW old \in Runs, NEW r \in Runs, RetryRun(old, r)
      PROVE  Honoured'
  BY <1>2 DEF RetryRun, CreateRun
<1>3. ASSUME NEW r \in Runs, StoreTaskId(r)
      PROVE  Honoured'
  BY <1>3 DEF StoreTaskId
<1>4. ASSUME NEW r \in Runs, Dispatch(r)
      PROVE  Honoured'
  BY <1>4 DEF Dispatch
<1>5. ASSUME NEW r \in Runs, StartFails(r)
      PROVE  Honoured'
  BY <1>5 DEF StartFails
<1>6. ASSUME NEW r \in Runs, CancelRequest(r)
      PROVE  Honoured'
  BY <1>6 DEF CancelRequest
<1>7. ASSUME NEW r \in Runs, CancelRevoke(r)
      PROVE  Honoured'
  BY <1>7 DEF CancelRevoke
<1>8. ASSUME NEW r \in Runs, CancelCommit(r)
      PROVE  Honoured'
  BY <1>8 DEF CancelCommit, Holders
<1>9. ASSUME NEW r \in Runs, CancelFails(r)
      PROVE  Honoured'
  BY <1>9 DEF CancelFails
<1>10. ASSUME ValidatePipeline
      PROVE  Honoured'
  BY <1>10 DEF ValidatePipeline
<1>11. ASSUME DeletePipeline
      PROVE  Honoured'
  BY <1>11 DEF DeletePipeline
<1>12. ASSUME NEW w \in Workers, NEW r \in Runs, Receive(w, r)
      PROVE  Honoured'
  BY <1>12 DEF Receive
<1>13. ASSUME NEW w \in Workers, NEW r \in Runs, Load(w, r)
      PROVE  Honoured'
  BY <1>13 DEF Load, Reads
<1>14. ASSUME NEW w \in Workers, NEW r \in Runs, MarkRunning(w, r)
      PROVE  Honoured'
  BY <1>14 DEF MarkRunning, Goto, Flushed
<1>15. ASSUME NEW w \in Workers, NEW r \in Runs, Execute(w, r)
      PROVE  Honoured'
  BY <1>15 DEF Execute
<1>16. ASSUME NEW w \in Workers, NEW r \in Runs, ExecuteRaises(w, r)
      PROVE  Honoured'
  BY <1>16 DEF ExecuteRaises, Goto
<1>17. ASSUME NEW w \in Workers, NEW r \in Runs, Refresh(w, r)
      PROVE  Honoured'
  BY <1>17 DEF Refresh, Reads
<1>18. ASSUME NEW w \in Workers, NEW r \in Runs, CommitOutcome(w, r)
      PROVE  Honoured'
  BY <1>18 DEF CommitOutcome, Goto, Flushed, Outcome
<1>19. ASSUME NEW w \in Workers, NEW r \in Runs, RecordCrash(w, r)
      PROVE  Honoured'
  BY <1>19 DEF RecordCrash, Goto
<1>20. ASSUME NEW w \in Workers, NEW r \in Runs, DatabaseFails(w, r)
      PROVE  Honoured'
  BY <1>20 DEF DatabaseFails, Goto
<1>21. ASSUME NEW w \in Workers, NEW r \in Runs, Acknowledge(w, r)
      PROVE  Honoured'
  BY <1>21 DEF Acknowledge, Release
<1>22. ASSUME NEW w \in Workers, NEW r \in Runs, Terminate(w, r)
      PROVE  Honoured'
  BY <1>22 DEF Terminate, Release
<1>23. ASSUME NEW w \in Workers, NEW r \in Runs, WorkerLost(w, r)
      PROVE  Honoured'
  BY <1>23 DEF WorkerLost, Requeue, Release
<1>24. ASSUME NEW r \in Runs, VisibilityTimeout(r)
      PROVE  Honoured'
  BY <1>24 DEF VisibilityTimeout, Requeue
<1>25. ASSUME UNCHANGED vars
      PROVE  Honoured'
  BY <1>25 DEF vars
<1>. QED
  BY <1>1, <1>2, <1>3, <1>4, <1>5, <1>6, <1>7, <1>8, <1>9, <1>10, <1>11,
     <1>12, <1>13, <1>14, <1>15, <1>16, <1>17, <1>18, <1>19, <1>20, <1>21,
     <1>22, <1>23, <1>24, <1>25
  DEF Next, WorkStep

(* A cancellation committed outside a worker's write window stays on the row.  *)
THEOREM CancellationIsHonoured == Spec => []CancelHonoured
<1>1. Init => Honoured
  BY DEF Init, Honoured
<1>2. Honoured => CancelHonoured
  BY DEF Honoured, CancelHonoured
<1>. QED  BY <1>1, <1>2, HonouredStep, TypeCorrect, PTL DEF Spec

-----------------------------------------------------------------------------
(* Late acknowledgement. *)

(* Some worker still has the run's outcome to record: what it is going to
   write differs from what it loaded, so the write is not elided.          *)
WillRecord(w, r) ==
  /\ At(w, r, Steps \ {"ack"})
  /\ pc[w] = "commit" => rowSeen[w] \notin {"completed", "failed"}

Remembered ==
  \A r \in Runs : starting[r] = "sent" =>
    \/ runStatus[r] \in Final \cup {"deleted"}
    \/ r \in stopped \cup unrecorded
    \/ queued[r] > 0
    \/ \E w \in Workers : WillRecord(w, r)

(* Whoever leaves a run behind has recorded its outcome or put its message back. *)
LEMMA RememberedStep == TypeOK /\ Remembered /\ [Next]_vars => Remembered'
<1> SUFFICES ASSUME TypeOK, Remembered, [Next]_vars
             PROVE  Remembered'
  OBVIOUS
<1>. USE DEF TypeOK, Remembered, WillRecord, At, Final, Steps, apiVars, brokerVars, workerVars,
             historyVars
<1>1. ASSUME NEW r \in Runs, TriggerRun(r)
      PROVE  Remembered'
  BY <1>1 DEF TriggerRun, CreateRun
<1>2. ASSUME NEW old \in Runs, NEW r \in Runs, RetryRun(old, r)
      PROVE  Remembered'
  BY <1>2 DEF RetryRun, CreateRun
<1>3. ASSUME NEW r \in Runs, StoreTaskId(r)
      PROVE  Remembered'
  BY <1>3 DEF StoreTaskId
<1>4. ASSUME NEW r \in Runs, Dispatch(r)
      PROVE  Remembered'
  BY <1>4 DEF Dispatch
<1>5. ASSUME NEW r \in Runs, StartFails(r)
      PROVE  Remembered'
  BY <1>5 DEF StartFails
<1>6. ASSUME NEW r \in Runs, CancelRequest(r)
      PROVE  Remembered'
  BY <1>6 DEF CancelRequest
<1>7. ASSUME NEW r \in Runs, CancelRevoke(r)
      PROVE  Remembered'
  BY <1>7 DEF CancelRevoke
<1>8. ASSUME NEW r \in Runs, CancelCommit(r)
      PROVE  Remembered'
  BY <1>8 DEF CancelCommit, Holders
<1>9. ASSUME NEW r \in Runs, CancelFails(r)
      PROVE  Remembered'
  BY <1>9 DEF CancelFails
<1>10. ASSUME ValidatePipeline
      PROVE  Remembered'
  BY <1>10 DEF ValidatePipeline
<1>11. ASSUME DeletePipeline
      PROVE  Remembered'
  BY <1>11 DEF DeletePipeline
<1>12. ASSUME NEW w \in Workers, NEW r \in Runs, Receive(w, r)
      PROVE  Remembered'
  BY <1>12 DEF Receive
<1>13. ASSUME NEW w \in Workers, NEW r \in Runs, Load(w, r)
      PROVE  Remembered'
  BY <1>13 DEF Load, Reads
<1>14. ASSUME NEW w \in Workers, NEW r \in Runs, MarkRunning(w, r)
      PROVE  Remembered'
  BY <1>14 DEF MarkRunning, Goto, Flushed
<1>15. ASSUME NEW w \in Workers, NEW r \in Runs, Execute(w, r)
      PROVE  Remembered'
  BY <1>15 DEF Execute
<1>16. ASSUME NEW w \in Workers, NEW r \in Runs, ExecuteRaises(w, r)
      PROVE  Remembered'
  BY <1>16 DEF ExecuteRaises, Goto
<1>17. ASSUME NEW w \in Workers, NEW r \in Runs, Refresh(w, r)
      PROVE  Remembered'
  BY <1>17 DEF Refresh, Reads
<1>18. ASSUME NEW w \in Workers, NEW r \in Runs, CommitOutcome(w, r)
      PROVE  Remembered'
  BY <1>18 DEF CommitOutcome, Goto, Flushed, Outcome
<1>19. ASSUME NEW w \in Workers, NEW r \in Runs, RecordCrash(w, r)
      PROVE  Remembered'
  BY <1>19 DEF RecordCrash, Goto
<1>20. ASSUME NEW w \in Workers, NEW r \in Runs, DatabaseFails(w, r)
      PROVE  Remembered'
  BY <1>20 DEF DatabaseFails, Goto
<1>21. ASSUME NEW w \in Workers, NEW r \in Runs, Acknowledge(w, r)
      PROVE  Remembered'
  BY <1>21 DEF Acknowledge, Release
<1>22. ASSUME NEW w \in Workers, NEW r \in Runs, Terminate(w, r)
      PROVE  Remembered'
  BY <1>22 DEF Terminate, Release
<1>23. ASSUME NEW w \in Workers, NEW r \in Runs, WorkerLost(w, r)
      PROVE  Remembered'
  BY <1>23 DEF WorkerLost, Requeue, Release
<1>24. ASSUME NEW r \in Runs, VisibilityTimeout(r)
      PROVE  Remembered'
  BY <1>24 DEF VisibilityTimeout, Requeue
<1>25. ASSUME UNCHANGED vars
      PROVE  Remembered'
  BY <1>25 DEF vars
<1>. QED
  BY <1>1, <1>2, <1>3, <1>4, <1>5, <1>6, <1>7, <1>8, <1>9, <1>10, <1>11,
     <1>12, <1>13, <1>14, <1>15, <1>16, <1>17, <1>18, <1>19, <1>20, <1>21,
     <1>22, <1>23, <1>24, <1>25
  DEF Next, WorkStep

(* A dispatched run that nobody holds and that waits nowhere has an outcome. *)
THEOREM RunsAreNotForgotten == Spec => []NoRunForgotten
<1>1. Init => Remembered
  BY DEF Init, Remembered
<1>2. TypeOK /\ Remembered => NoRunForgotten
  BY DEF TypeOK, Remembered, NoRunForgotten, WillRecord, Holders, At, Steps
<1>. QED  BY <1>1, <1>2, RememberedStep, TypeCorrect, PTL DEF Spec

-----------------------------------------------------------------------------
(* Reported success. *)

(* A verdict of success that is still to be recorded is backed by an execution. *)
Backed ==
  /\ ReportedSuccessIsReal
  /\ \A w \in Workers, r \in Runs :
       At(w, r, {"refresh", "commit"}) /\ verdict[w] = "success" => Real(r)

(* An execution ends with a verdict of success only if it wrote what there was. *)
LEMMA BackedStep == TypeOK /\ Backed /\ [Next]_vars => Backed'
<1> SUFFICES ASSUME TypeOK, Backed, [Next]_vars
             PROVE  Backed'
  OBVIOUS
<1>. USE DEF TypeOK, Backed, ReportedSuccessIsReal, Real, Destinations, At, Steps, apiVars,
             brokerVars, workerVars, historyVars
<1>1. ASSUME NEW r \in Runs, TriggerRun(r)
      PROVE  Backed'
  BY <1>1 DEF TriggerRun, CreateRun
<1>2. ASSUME NEW old \in Runs, NEW r \in Runs, RetryRun(old, r)
      PROVE  Backed'
  BY <1>2 DEF RetryRun, CreateRun
<1>3. ASSUME NEW r \in Runs, StoreTaskId(r)
      PROVE  Backed'
  BY <1>3 DEF StoreTaskId
<1>4. ASSUME NEW r \in Runs, Dispatch(r)
      PROVE  Backed'
  BY <1>4 DEF Dispatch
<1>5. ASSUME NEW r \in Runs, StartFails(r)
      PROVE  Backed'
  BY <1>5 DEF StartFails
<1>6. ASSUME NEW r \in Runs, CancelRequest(r)
      PROVE  Backed'
  BY <1>6 DEF CancelRequest
<1>7. ASSUME NEW r \in Runs, CancelRevoke(r)
      PROVE  Backed'
  BY <1>7 DEF CancelRevoke
<1>8. ASSUME NEW r \in Runs, CancelCommit(r)
      PROVE  Backed'
  BY <1>8 DEF CancelCommit, Holders
<1>9. ASSUME NEW r \in Runs, CancelFails(r)
      PROVE  Backed'
  BY <1>9 DEF CancelFails
<1>10. ASSUME ValidatePipeline
      PROVE  Backed'
  BY <1>10 DEF ValidatePipeline
<1>11. ASSUME DeletePipeline
      PROVE  Backed'
  BY <1>11 DEF DeletePipeline
<1>12. ASSUME NEW w \in Workers, NEW r \in Runs, Receive(w, r)
      PROVE  Backed'
  BY <1>12 DEF Receive
<1>13. ASSUME NEW w \in Workers, NEW r \in Runs, Load(w, r)
      PROVE  Backed'
  BY <1>13 DEF Load, Reads
<1>14. ASSUME NEW w \in Workers, NEW r \in Runs, MarkRunning(w, r)
      PROVE  Backed'
  BY <1>14 DEF MarkRunning, Goto, Flushed
<1>15. ASSUME NEW w \in Workers, NEW r \in Runs, Execute(w, r)
      PROVE  Backed'
  BY <1>15 DEF Execute
<1>16. ASSUME NEW w \in Workers, NEW r \in Runs, ExecuteRaises(w, r)
      PROVE  Backed'
  BY <1>16 DEF ExecuteRaises, Goto
<1>17. ASSUME NEW w \in Workers, NEW r \in Runs, Refresh(w, r)
      PROVE  Backed'
  BY <1>17 DEF Refresh, Reads
<1>18. ASSUME NEW w \in Workers, NEW r \in Runs, CommitOutcome(w, r)
      PROVE  Backed'
  BY <1>18 DEF CommitOutcome, Goto, Flushed, Outcome
<1>19. ASSUME NEW w \in Workers, NEW r \in Runs, RecordCrash(w, r)
      PROVE  Backed'
  BY <1>19 DEF RecordCrash, Goto
<1>20. ASSUME NEW w \in Workers, NEW r \in Runs, DatabaseFails(w, r)
      PROVE  Backed'
  BY <1>20 DEF DatabaseFails, Goto
<1>21. ASSUME NEW w \in Workers, NEW r \in Runs, Acknowledge(w, r)
      PROVE  Backed'
  BY <1>21 DEF Acknowledge, Release
<1>22. ASSUME NEW w \in Workers, NEW r \in Runs, Terminate(w, r)
      PROVE  Backed'
  BY <1>22 DEF Terminate, Release
<1>23. ASSUME NEW w \in Workers, NEW r \in Runs, WorkerLost(w, r)
      PROVE  Backed'
  BY <1>23 DEF WorkerLost, Requeue, Release
<1>24. ASSUME NEW r \in Runs, VisibilityTimeout(r)
      PROVE  Backed'
  BY <1>24 DEF VisibilityTimeout, Requeue
<1>25. ASSUME UNCHANGED vars
      PROVE  Backed'
  BY <1>25 DEF vars
<1>. QED
  BY <1>1, <1>2, <1>3, <1>4, <1>5, <1>6, <1>7, <1>8, <1>9, <1>10, <1>11,
     <1>12, <1>13, <1>14, <1>15, <1>16, <1>17, <1>18, <1>19, <1>20, <1>21,
     <1>22, <1>23, <1>24, <1>25
  DEF Next, WorkStep

(* A run, or a pipeline, that is reported COMPLETED had an execution that succeeded
   and wrote its destinations, if it has any.                              *)
THEOREM SuccessIsReal == Spec => []ReportedSuccessIsReal
<1>1. Init => Backed
  BY DEF Init, Backed, ReportedSuccessIsReal, At
<1>2. Backed => ReportedSuccessIsReal
  BY DEF Backed
<1>. QED  BY <1>1, <1>2, BackedStep, TypeCorrect, PTL DEF Spec

-----------------------------------------------------------------------------
(* Writes and deliveries. *)

(* Deliveries of r that may still write. *)
Early == {"load", "mark", "execute"}
Pending(r) == Holders(r, Early)

(* Each delivery is accounted for: it waits, may still write, or has written. *)
CountedFor(r) ==
  /\ runStatus[r] = "absent" => starting[r] = "none"
  /\ writes[r] + queued[r] + Cardinality(Pending(r)) <=
       redelivered[r] + (IF starting[r] = "sent" THEN 1 ELSE 0)

Counted == \A r \in Runs : CountedFor(r)

(* How the number of deliveries that may still write follows one worker. *)
LEMMA PendingChange ==
  ASSUME NEW r \in Runs, NEW w \in Workers,
         \A x \in Workers \ {w} : pc'[x] = pc[x] /\ holding'[x] = holding[x]
  PROVE  /\ Cardinality(Pending(r)) \in Nat
         /\ Cardinality(Pending(r))' = Cardinality(Pending(r))
              + (IF At(w, r, Early)' THEN 1 ELSE 0) - (IF At(w, r, Early) THEN 1 ELSE 0)
<1>. DEFINE others == {x \in Workers \ {w} : At(x, r, Early)}
<1>1. IsFiniteSet(others) /\ w \notin others
  <2>1. others \subseteq Workers
    OBVIOUS
  <2>. QED  BY <2>1, WorkersAssumption, FS_Subset
<1>2. /\ Cardinality(others) \in Nat
      /\ Cardinality(others \cup {w}) = Cardinality(others) + 1
  BY <1>1, FS_CardinalityType, FS_AddElement
<1>3. Pending(r) = IF At(w, r, Early) THEN others \cup {w} ELSE others
  BY DEF Pending, Holders
<1>4. Pending(r)' = IF At(w, r, Early)' THEN others \cup {w} ELSE others
  BY DEF Pending, Holders, At
<1>. HIDE DEF others
<1>. QED  BY <1>2, <1>3, <1>4

(* Nothing changes for the runs when no worker moves. *)
LEMMA PendingSame ==
  ASSUME UNCHANGED <<pc, holding>>, NEW r \in Runs
  PROVE  Cardinality(Pending(r))' = Cardinality(Pending(r))
BY DEF Pending, Holders, At

(* Finitely many workers hold finitely many deliveries. *)
LEMMA PendingType ==
  ASSUME NEW r \in Runs
  PROVE  Cardinality(Pending(r)) \in Nat
<1>1. IsFiniteSet(Pending(r))
  BY WorkersAssumption, FS_Subset DEF Pending, Holders
<1>. QED  BY <1>1, FS_CardinalityType

(* A delivery that writes stops being pending, a redelivery adds one of each. *)
LEMMA CountedStep ==
  ASSUME TypeOK, [Next]_vars, NEW q \in Runs, CountedFor(q)
  PROVE  CountedFor(q)'
<1>. USE MaxRedeliveriesAssumption
     DEF TypeOK, RunStatuses, CountedFor, apiVars, brokerVars, workerVars, historyVars
<1>0. Cardinality(Pending(q)) \in Nat
  BY PendingType
<1>1. ASSUME NEW r \in Runs, TriggerRun(r)
      PROVE  CountedFor(q)'
  BY <1>0, <1>1, PendingSame DEF TriggerRun, CreateRun
<1>2. ASSUME NEW old \in Runs, NEW r \in Runs, RetryRun(old, r)
      PROVE  CountedFor(q)'
  BY <1>0, <1>2, PendingSame DEF RetryRun, CreateRun
<1>3. ASSUME NEW r \in Runs, StoreTaskId(r)
      PROVE  CountedFor(q)'
  BY <1>0, <1>3, PendingSame DEF StoreTaskId
<1>4. ASSUME NEW r \in Runs, Dispatch(r)
      PROVE  CountedFor(q)'
  BY <1>0, <1>4, PendingSame DEF Dispatch
<1>5. ASSUME NEW r \in Runs, StartFails(r)
      PROVE  CountedFor(q)'
  BY <1>0, <1>5, PendingSame DEF StartFails
<1>6. ASSUME NEW r \in Runs, CancelRequest(r)
      PROVE  CountedFor(q)'
  BY <1>0, <1>6, PendingSame DEF CancelRequest
<1>7. ASSUME NEW r \in Runs, CancelRevoke(r)
      PROVE  CountedFor(q)'
  BY <1>0, <1>7, PendingSame DEF CancelRevoke
<1>8. ASSUME NEW r \in Runs, CancelCommit(r)
      PROVE  CountedFor(q)'
  BY <1>0, <1>8, PendingSame DEF CancelCommit, Holders
<1>9. ASSUME NEW r \in Runs, CancelFails(r)
      PROVE  CountedFor(q)'
  BY <1>0, <1>9, PendingSame DEF CancelFails
<1>10. ASSUME ValidatePipeline
      PROVE  CountedFor(q)'
  BY <1>0, <1>10, PendingSame DEF ValidatePipeline
<1>11. ASSUME DeletePipeline
      PROVE  CountedFor(q)'
  BY <1>0, <1>11, PendingSame DEF DeletePipeline
<1>12. ASSUME NEW w \in Workers, NEW r \in Runs, Receive(w, r)
      PROVE  CountedFor(q)'
  <2>1. \A x \in Workers \ {w} : pc'[x] = pc[x] /\ holding'[x] = holding[x]
    BY <1>12 DEF Receive
  <2>. QED  BY <1>0, <1>12, <2>1, PendingChange DEF Receive, At, Early
<1>13. ASSUME NEW w \in Workers, NEW r \in Runs, Load(w, r)
      PROVE  CountedFor(q)'
  <2>1. \A x \in Workers \ {w} : pc'[x] = pc[x] /\ holding'[x] = holding[x]
    BY <1>13 DEF Load, Reads
  <2>. QED  BY <1>0, <1>13, <2>1, PendingChange DEF Load, Reads, At, Early
<1>14. ASSUME NEW w \in Workers, NEW r \in Runs, MarkRunning(w, r)
      PROVE  CountedFor(q)'
  <2>1. \A x \in Workers \ {w} : pc'[x] = pc[x] /\ holding'[x] = holding[x]
    BY <1>14 DEF MarkRunning, Goto, Flushed
  <2>. QED  BY <1>0, <1>14, <2>1, PendingChange DEF MarkRunning, Goto, Flushed, At, Early
<1>15. ASSUME NEW w \in Workers, NEW r \in Runs, Execute(w, r)
      PROVE  CountedFor(q)'
  <2>1. \A x \in Workers \ {w} : pc'[x] = pc[x] /\ holding'[x] = holding[x]
    BY <1>15 DEF Execute
  <2>. QED  BY <1>0, <1>15, <2>1, PendingChange DEF Execute, At, Early
<1>16. ASSUME NEW w \in Workers, NEW r \in Runs, ExecuteRaises(w, r)
      PROVE  CountedFor(q)'
  <2>1. \A x \in Workers \ {w} : pc'[x] = pc[x] /\ holding'[x] = holding[x]
    BY <1>16 DEF ExecuteRaises, Goto
  <2>. QED  BY <1>0, <1>16, <2>1, PendingChange DEF ExecuteRaises, Goto, At, Early
<1>17. ASSUME NEW w \in Workers, NEW r \in Runs, Refresh(w, r)
      PROVE  CountedFor(q)'
  <2>1. \A x \in Workers \ {w} : pc'[x] = pc[x] /\ holding'[x] = holding[x]
    BY <1>17 DEF Refresh, Reads
  <2>. QED  BY <1>0, <1>17, <2>1, PendingChange DEF Refresh, Reads, At, Early
<1>18. ASSUME NEW w \in Workers, NEW r \in Runs, CommitOutcome(w, r)
      PROVE  CountedFor(q)'
  <2>1. \A x \in Workers \ {w} : pc'[x] = pc[x] /\ holding'[x] = holding[x]
    BY <1>18 DEF CommitOutcome, Goto, Flushed, Outcome
  <2>. QED  BY <1>0, <1>18, <2>1, PendingChange DEF CommitOutcome, Goto, Flushed, Outcome, At, Early
<1>19. ASSUME NEW w \in Workers, NEW r \in Runs, RecordCrash(w, r)
      PROVE  CountedFor(q)'
  <2>1. \A x \in Workers \ {w} : pc'[x] = pc[x] /\ holding'[x] = holding[x]
    BY <1>19 DEF RecordCrash, Goto
  <2>. QED  BY <1>0, <1>19, <2>1, PendingChange DEF RecordCrash, Goto, At, Early
<1>20. ASSUME NEW w \in Workers, NEW r \in Runs, DatabaseFails(w, r)
      PROVE  CountedFor(q)'
  <2>1. \A x \in Workers \ {w} : pc'[x] = pc[x] /\ holding'[x] = holding[x]
    BY <1>20 DEF DatabaseFails, Goto
  <2>. QED  BY <1>0, <1>20, <2>1, PendingChange DEF DatabaseFails, Goto, At, Early
<1>21. ASSUME NEW w \in Workers, NEW r \in Runs, Acknowledge(w, r)
      PROVE  CountedFor(q)'
  <2>1. \A x \in Workers \ {w} : pc'[x] = pc[x] /\ holding'[x] = holding[x]
    BY <1>21 DEF Acknowledge, Release
  <2>. QED  BY <1>0, <1>21, <2>1, PendingChange DEF Acknowledge, Release, At, Early
<1>22. ASSUME NEW w \in Workers, NEW r \in Runs, Terminate(w, r)
      PROVE  CountedFor(q)'
  <2>1. \A x \in Workers \ {w} : pc'[x] = pc[x] /\ holding'[x] = holding[x]
    BY <1>22 DEF Terminate, Release
  <2>. QED  BY <1>0, <1>22, <2>1, PendingChange DEF Terminate, Release, At, Early
<1>23. ASSUME NEW w \in Workers, NEW r \in Runs, WorkerLost(w, r)
      PROVE  CountedFor(q)'
  <2>1. \A x \in Workers \ {w} : pc'[x] = pc[x] /\ holding'[x] = holding[x]
    BY <1>23 DEF WorkerLost, Requeue, Release
  <2>. QED  BY <1>0, <1>23, <2>1, PendingChange DEF WorkerLost, Requeue, Release, At, Early
<1>24. ASSUME NEW r \in Runs, VisibilityTimeout(r)
      PROVE  CountedFor(q)'
  BY <1>0, <1>24, PendingSame DEF VisibilityTimeout, Requeue
<1>25. ASSUME UNCHANGED vars
      PROVE  CountedFor(q)'
  BY <1>25, PendingSame DEF vars
<1>. QED
  BY <1>1, <1>2, <1>3, <1>4, <1>5, <1>6, <1>7, <1>8, <1>9, <1>10, <1>11,
     <1>12, <1>13, <1>14, <1>15, <1>16, <1>17, <1>18, <1>19, <1>20, <1>21,
     <1>22, <1>23, <1>24, <1>25
  DEF Next, WorkStep

(* A run writes at most once for each delivery of its message. *)
THEOREM WritesNeedDeliveries == Spec => []OneWritePerDelivery
<1>1. Init => Counted
  <2> SUFFICES ASSUME Init, NEW r \in Runs
               PROVE  CountedFor(r)
    BY DEF Counted
  <2>1. Pending(r) = {}
    BY DEF Init, Pending, Holders, At, Early
  <2>. QED  BY <2>1, FS_EmptySet DEF Init, CountedFor
<1>2. TypeOK /\ Counted /\ [Next]_vars => Counted'
  BY CountedStep DEF Counted
<1>3. TypeOK /\ Counted => OneWritePerDelivery
  <2> SUFFICES ASSUME TypeOK, Counted, NEW r \in Runs
               PROVE  writes[r] <= 1 + redelivered[r]
    BY DEF OneWritePerDelivery
  <2>. QED
    BY PendingType, MaxRedeliveriesAssumption DEF TypeOK, Counted, CountedFor
<1>. QED  BY <1>1, <1>2, <1>3, TypeCorrect, PTL DEF Spec

=============================================================================
