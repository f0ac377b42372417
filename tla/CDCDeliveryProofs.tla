------------------------- MODULE CDCDeliveryProofs --------------------------
(***************************************************************************)
(* Proofs about CDCDelivery for every set of rows, syncs and watchers and  *)
(* every value of the bounds: the types, that the checkpoint never passes  *)
(* data that is not in S3, and that capture keeps the promise of Capture.  *)
(***************************************************************************)
EXTENDS CDCDelivery, TLAPS

(***************************************************************************)
(* The inductive strengthening of NoLoss: what each task must remember     *)
(* between its query, its S3 write and its commit.                         *)
(***************************************************************************)

Bounded ==
  /\ lastValue <= highest
  /\ \A r \in Rows : tracking[r] <= highest
  /\ \A v \in stream : v[2] <= highest
  /\ \A v \in late : v[2] <= highest

(* The batch has every change between the task's checkpoint and the value it
   is going to commit, save what was written late.                         *)
Covers(t) ==
  \A r \in Rows :
    tracking[r] \in (from[t] + 1)..newest[t] => Current(r) \in batch[t] \cup late

TaskOK(t) ==
  /\ from[t] <= highest
  /\ Complete(from[t])
  /\ pc[t] \in {"read", "written"} =>
       /\ newest[t] <= highest
       /\ \A v \in batch[t] : from[t] < v[2] /\ v[2] <= highest
       /\ Covers(t)

(* A sync's object only has versions above its checkpoint, and the batch that
   is about to replace it has the current ones among them.                 *)
SyncOK(s) ==
  /\ pc[s] \in {"none", "triggered"} => object[s] = {}
  /\ \A v \in object[s] : from[s] < v[2] /\ v[2] <= highest
  /\ pc[s] = "read" =>
       \A r \in Rows : Current(r) \in object[s] => Current(r) \in batch[s] \cup late
  /\ pc[s] = "written" => batch[s] \subseteq object[s]

WatchOK(w) == pc[w] = "written" => batch[w] \subseteq stream

IInv ==
  /\ TypeOK
  /\ Bounded
  /\ Complete(lastValue)
  /\ \A t \in Tasks : TaskOK(t)
  /\ \A s \in Syncs : SyncOK(s)
  /\ \A w \in Watches : WatchOK(w)

-----------------------------------------------------------------------------
(* Type correctness. *)

(* The initial state has the types of TypeOK. *)
LEMMA TypeInit == Init => TypeOK
BY BoundsAssumption, TasksAssumption DEF Init, TypeOK, Tasks, Steps, Statuses

(* Every operation preserves them, one step per action. *)
LEMMA TypeStep == TypeOK /\ [Next]_vars => TypeOK'
<1> SUFFICES ASSUME TypeOK, [Next]_vars
             PROVE  TypeOK'
  OBVIOUS
<1>. USE BoundsAssumption, TasksAssumption
<1>. USE DEF TypeOK, Tasks, Steps, Statuses, Version, sourceVars, jobVars, taskVars,
             syncVars, watchVars, schedVars, storeVars, notSync, notWatch
<1>1. ASSUME NEW r \in Rows, NEW t \in 1..MaxTracking, WriteRow(r, t)
      PROVE  TypeOK'
  BY <1>1 DEF WriteRow
<1>2. ASSUME NEW s \in Syncs, TriggerSync(s)
      PROVE  TypeOK'
  BY <1>2 DEF TriggerSync, Trigger, Goto
<1>3. ASSUME NEW s \in Syncs, TriggerSnapshot(s)
      PROVE  TypeOK'
  BY <1>3 DEF TriggerSnapshot, Trigger, Goto
<1>4. ASSUME NEW s \in Syncs, SendSync(s)
      PROVE  TypeOK'
  BY <1>4 DEF SendSync
<1>5. ASSUME NEW s \in Syncs, ConnectorMissing(s)
      PROVE  TypeOK'
  BY <1>5 DEF ConnectorMissing, Close
<1>6. ASSUME NEW s \in Syncs, SendFails(s)
      PROVE  TypeOK'
  BY <1>6 DEF SendFails, Close
<1>7. ASSUME NEW s \in Syncs, SyncLoad(s)
      PROVE  TypeOK'
  BY <1>7 DEF SyncLoad, Goto, See
<1>8. ASSUME NEW s \in Syncs, SyncWrite(s)
      PROVE  TypeOK'
  BY <1>8 DEF SyncWrite, Goto
<1>9. ASSUME NEW s \in Syncs, SyncCommit(s)
      PROVE  TypeOK'
  BY <1>9 DEF SyncCommit, Leave, See, Flushed, Reached
<1>10. ASSUME NEW s \in Syncs, SyncTransient(s)
      PROVE  TypeOK'
  <2>1. CASE MayRetry(s)
    BY <1>10, <2>1 DEF SyncTransient, Leave, See, MayRetry
  <2>2. CASE ~MayRetry(s)
    BY <1>10, <2>2 DEF SyncTransient, Leave, See
  <2>. QED  BY <2>1, <2>2
<1>11. ASSUME NEW s \in Syncs, MarkSyncFailed(s)
      PROVE  TypeOK'
  BY <1>11 DEF MarkSyncFailed, Goto, LogFailed
<1>12. ASSUME NEW s \in Syncs, SyncFails(s)
      PROVE  TypeOK'
  BY <1>12 DEF SyncFails, Leave, See, Flushed
<1>13. ASSUME NEW s \in Syncs, SyncUnrecorded(s)
      PROVE  TypeOK'
  BY <1>13 DEF SyncUnrecorded, Close, See, Fault
<1>14. ASSUME NEW s \in Syncs, SyncAcknowledge(s)
      PROVE  TypeOK'
  BY <1>14 DEF SyncAcknowledge, Close
<1>15. ASSUME NEW s \in Syncs, SyncWorkerLost(s)
      PROVE  TypeOK'
  BY <1>15 DEF SyncWorkerLost, Leave, See, Fault
<1>16. ASSUME NEW t \in Tasks, Query(t)
      PROVE  TypeOK'
  BY <1>16 DEF Query, IsNewest, Changes, Current
<1>17. ASSUME NEW w \in Watches, WatchBegin(w)
      PROVE  TypeOK'
  BY <1>17 DEF WatchBegin, Goto, Close
<1>18. ASSUME NEW w \in Watches, WatchRefresh(w)
      PROVE  TypeOK'
  BY <1>18 DEF WatchRefresh
<1>19. ASSUME NEW w \in Watches, WatchExit(w)
      PROVE  TypeOK'
  BY <1>19 DEF WatchExit, Close
<1>20. ASSUME NEW w \in Watches, WatchPollFails(w)
      PROVE  TypeOK'
  BY <1>20 DEF WatchPollFails, Close
<1>21. ASSUME NEW w \in Watches, WatchWrite(w)
      PROVE  TypeOK'
  BY <1>21 DEF WatchWrite, Goto
<1>22. ASSUME NEW w \in Watches, WatchCommit(w)
      PROVE  TypeOK'
  BY <1>22 DEF WatchCommit, Close, Reached
<1>23. ASSUME NEW w \in Watches, WatchRaises(w)
      PROVE  TypeOK'
  BY <1>23 DEF WatchRaises, Close, Fault
<1>24. ASSUME NEW w \in Watches, WatchWorkerLost(w)
      PROVE  TypeOK'
  BY <1>24 DEF WatchWorkerLost, Close, Fault
<1>25. ASSUME NEW w \in Watches, WatchRevoked(w)
      PROVE  TypeOK'
  BY <1>25 DEF WatchRevoked, Close
<1>26. ASSUME NEW w \in Watches, NEW copy \in Watches, WatchRedelivered(w, copy)
      PROVE  TypeOK'
  BY <1>26 DEF WatchRedelivered, Goto, Fault
<1>27. ASSUME StartJob
      PROVE  TypeOK'
  BY <1>27 DEF StartJob
<1>28. ASSUME StopJob
      PROVE  TypeOK'
  BY <1>28 DEF StopJob
<1>34. ASSUME StopCommit
      PROVE  TypeOK'
  BY <1>34 DEF StopCommit, Flushed
<1>29. ASSUME Inspect
      PROVE  TypeOK'
  BY <1>29 DEF Inspect, Watching
<1>30. ASSUME SelectOrphan
      PROVE  TypeOK'
  BY <1>30 DEF SelectOrphan
<1>31. ASSUME NEW w \in Watches, DispatchWatcher(w)
      PROVE  TypeOK'
  <2>1. CASE Goto(w, "queued") /\ UNCHANGED faults
    BY <1>31, <2>1 DEF DispatchWatcher, Goto
  <2>2. CASE Fault /\ UNCHANGED taskVars
    BY <1>31, <2>2 DEF DispatchWatcher, Fault
  <2>. QED  BY <1>31, <2>1, <2>2 DEF DispatchWatcher
<1>32. ASSUME OutOfTasks
      PROVE  TypeOK'
  BY <1>32 DEF OutOfTasks
<1>33. ASSUME UNCHANGED vars
      PROVE  TypeOK'
  BY <1>33 DEF vars
<1>. QED
  BY <1>1, <1>2, <1>3, <1>4, <1>5, <1>6, <1>7, <1>8, <1>9, <1>10, <1>11,
     <1>12, <1>13, <1>14, <1>15, <1>16, <1>17, <1>18, <1>19, <1>20, <1>21,
     <1>22, <1>23, <1>24, <1>25, <1>26, <1>27, <1>28, <1>34, <1>29, <1>30, <1>31,
     <1>32, <1>33
  DEF Next, SyncStep, WatchStep, SchedulerStep

(* Every variable of the change-capture model keeps its type, in particular a
   sync is never retried more than max_retries times.                      *)
THEOREM TypeCorrect == Spec => []TypeOK
BY TypeInit, TypeStep, PTL DEF Spec

-----------------------------------------------------------------------------
(* No loss. *)

(* An action of task t that neither reads nor writes rows: what remains true of
   the task's variables.                                                   *)
Keeps(t) ==
  /\ pc'[t] = pc[t] /\ from'[t] = from[t]
  /\ batch'[t] = batch[t] /\ newest'[t] = newest[t]

Moves(t) ==
  /\ pc'[t] \notin {"none", "read", "written"}
  /\ pc'[t] = "triggered" => pc[t] = "none"
  /\ \/ from'[t] \in {0, from[t]}
     \/ from'[t] = lastValue /\ (t \in Syncs => object[t] = {})

Commits(t) == pc[t] = "written" /\ lastValue' = newest[t]

(* With the same table and the same objects, what was complete stays so. *)
LEMMA CompleteStable ==
  ASSUME NEW n \in 0..MaxTracking, Complete(n), UNCHANGED <<sourceVars, storeVars>>
  PROVE  Complete(n)'
BY DEF Complete, Delivered, Current, sourceVars, storeVars

(* A delivered batch makes the value it leads to complete. *)
LEMMA BatchCompletes ==
  ASSUME IInv, NEW t \in Tasks, pc[t] = "written"
  PROVE  Complete(newest[t])
<1> SUFFICES ASSUME NEW r \in Rows, tracking[r] \in 1..newest[t]
             PROVE  Delivered(Current(r)) \/ Current(r) \in late
  BY DEF Complete
<1>. USE BoundsAssumption DEF IInv, TypeOK, TaskOK
<1>1. CASE tracking[r] <= from[t]
  <2>1. tracking[r] \in 1..from[t]
    BY <1>1
  <2>. QED  BY <2>1 DEF Complete
<1>2. CASE tracking[r] > from[t]
  <2>1. tracking[r] \in (from[t] + 1)..newest[t]
    BY <1>2
  <2>2. Current(r) \in batch[t] \cup late
    BY <2>1 DEF Covers
  <2>3. t \in Syncs => batch[t] \subseteq object[t]
    BY DEF SyncOK
  <2>4. t \in Watches => batch[t] \subseteq stream
    BY DEF WatchOK
  <2>. QED  BY <2>2, <2>3, <2>4 DEF Delivered, Tasks
<1>. QED  BY <1>1, <1>2

(* Every operation but the writes of the source and of S3 and the query is
   bookkeeping of this form.                                               *)
Book ==
  /\ UNCHANGED <<sourceVars, storeVars>>
  /\ lastValue' = lastValue \/ \E t \in Tasks : Commits(t)
  /\ \A t \in Tasks : Keeps(t) \/ Moves(t)

(* What bookkeeping commits is complete and no newer than the table. *)
LEMMA CommitIsComplete ==
  ASSUME IInv, Book
  PROVE  lastValue' <= highest /\ Complete(lastValue')
BY BatchCompletes DEF IInv, TaskOK, Bounded, Book, Commits

(* Bookkeeping preserves the invariant. *)
LEMMA Bookkeeping ==
  ASSUME IInv, TypeOK', Book
  PROVE  IInv'
<1>. USE BoundsAssumption, TasksAssumption DEF Book
<1>1. lastValue' <= highest /\ Complete(lastValue')
  BY CommitIsComplete
<1>2. Bounded'
  BY <1>1 DEF IInv, Bounded, sourceVars, storeVars
<1>3. Complete(lastValue)'
  <2>1. lastValue' \in 0..MaxTracking
    BY DEF TypeOK
  <2>. QED  BY <1>1, <2>1 DEF Complete, Delivered, Current, sourceVars, storeVars
<1>4. ASSUME NEW t \in Tasks
      PROVE  TaskOK(t)'
  <2>1. CASE Keeps(t)
    BY <2>1 DEF IInv, TypeOK, TaskOK, Keeps, Complete, Covers, Delivered, Current,
                sourceVars, storeVars
  <2>2. CASE Moves(t)
    <3>1. from'[t] <= highest /\ Complete(from'[t])
      BY <2>2 DEF IInv, TypeOK, TaskOK, Moves, Bounded, Complete
    <3>. QED
      BY <2>2, <3>1 DEF TaskOK, Moves, Complete, Delivered, Current, sourceVars, storeVars
  <2>. QED  BY <2>1, <2>2
<1>5. ASSUME NEW s \in Syncs
      PROVE  SyncOK(s)'
  <2>1. SyncOK(s) /\ s \in Tasks /\ object[s] \subseteq Version /\ object' = object
    BY DEF IInv, TypeOK, Tasks, storeVars
  <2>2. CASE Keeps(s)
    BY <2>1, <2>2 DEF SyncOK, Keeps, Current, sourceVars
  <2>3. CASE Moves(s)
    BY <2>1, <2>3 DEF SyncOK, Moves, Current, sourceVars, Version
  <2>. QED  BY <2>1, <2>2, <2>3
<1>6. ASSUME NEW w \in Watches
      PROVE  WatchOK(w)'
  <2>1. WatchOK(w) /\ w \in Tasks /\ stream' = stream
    BY DEF IInv, Tasks, storeVars
  <2>. QED  BY <2>1 DEF WatchOK, Keeps, Moves
<1>. QED  BY <1>2, <1>3, <1>4, <1>5, <1>6 DEF IInv

(* A row written above everything is above every checkpoint and every object; a
   row written below is late by definition.                                *)
LEMMA WriteRowPreserves ==
  ASSUME IInv, TypeOK', NEW r \in Rows, NEW t \in 1..MaxTracking, WriteRow(r, t)
  PROVE  IInv'
<1>. USE BoundsAssumption, TasksAssumption
<1>0. /\ UNCHANGED <<jobVars, taskVars, storeVars>>
      /\ highest <= highest' /\ t <= highest' /\ highest' \in 0..MaxTracking
      /\ late \subseteq late'
      /\ t > highest \/ <<r, t>> \in late'
      /\ tracking' = [tracking EXCEPT ![r] = t]
  BY DEF WriteRow, IInv, TypeOK
<1>1. Bounded'
  <2>1. Bounded /\ highest \in 0..MaxTracking /\ tracking \in [Rows -> 0..MaxTracking]
        /\ stream \subseteq Version /\ lastValue \in 0..MaxTracking
    BY DEF IInv, TypeOK
  <2>2. \A q \in Rows : tracking'[q] <= highest'
    BY <1>0, <2>1 DEF Bounded
  <2>3. lastValue' = lastValue /\ stream' = stream
    BY <1>0 DEF jobVars, storeVars
  <2>4. \A v \in stream : v[2] <= highest'
    BY <1>0, <2>1 DEF Bounded, Version
  <2>5. \A v \in late' : v[2] <= highest'
    <3>1. late \subseteq Version /\ late' \subseteq late \cup {<<r, t>>}
      BY DEF WriteRow, IInv, TypeOK
    <3>. QED  BY <1>0, <2>1, <3>1 DEF Bounded, Version
  <2>. QED  BY <1>0, <2>1, <2>2, <2>3, <2>4, <2>5 DEF Bounded
<1>2. ASSUME NEW n \in 0..MaxTracking, n <= highest, Complete(n)
      PROVE  \A q \in Rows : tracking'[q] \in 1..n =>
               Delivered(<<q, tracking'[q]>>) \/ <<q, tracking'[q]>> \in late'
  <2> SUFFICES ASSUME NEW q \in Rows, tracking'[q] \in 1..n
               PROVE  Delivered(<<q, tracking'[q]>>) \/ <<q, tracking'[q]>> \in late'
    OBVIOUS
  <2>1. CASE q = r
    BY <1>0, <1>2, <2>1 DEF IInv, TypeOK
  <2>2. CASE q # r
    BY <1>0, <1>2, <2>2 DEF IInv, TypeOK, Complete, Current
  <2>. QED  BY <2>1, <2>2
<1>3. Complete(lastValue)'
  BY <1>0, <1>2 DEF IInv, TypeOK, Bounded, Complete, Delivered, Current, jobVars, storeVars
<1>4. ASSUME NEW u \in Tasks
      PROVE  TaskOK(u)'
  <2>1. TaskOK(u) /\ from[u] \in 0..MaxTracking /\ newest[u] \in 0..MaxTracking
    BY DEF IInv, TypeOK
  <2>2. UNCHANGED <<pc, from, batch, newest>>
    BY <1>0 DEF taskVars
  <2>3. from'[u] <= highest' /\ Complete(from[u])'
    BY <1>0, <1>2, <2>1, <2>2 DEF IInv, TypeOK, TaskOK, Complete, Delivered, Current, storeVars
  <2>4. ASSUME pc[u] \in {"read", "written"}
        PROVE  /\ newest[u] <= highest'
               /\ \A v \in batch[u] : from[u] < v[2] /\ v[2] <= highest'
               /\ Covers(u)'
    <3>1. /\ newest[u] <= highest
          /\ \A v \in batch[u] : v \in Rows \X (1..MaxTracking) /\ from[u] < v[2] /\ v[2] <= highest
          /\ Covers(u)
      BY <2>1, <2>4 DEF IInv, TypeOK, TaskOK, Version
    <3>2. ASSUME NEW q \in Rows, tracking'[q] \in (from[u] + 1)..newest[u]
          PROVE  <<q, tracking'[q]>> \in batch[u] \cup late'
      <4>1. CASE q = r
        BY <1>0, <2>1, <3>1, <3>2, <4>1 DEF IInv, TypeOK
      <4>2. CASE q # r
        BY <1>0, <3>1, <3>2, <4>2 DEF IInv, TypeOK, Covers, Current
      <4>. QED  BY <4>1, <4>2
    <3>3. Covers(u)'
      BY <3>2, <2>2 DEF Covers, Current
    <3>4. highest \in 0..MaxTracking
      BY DEF IInv, TypeOK
    <3>. QED  BY <1>0, <2>1, <3>1, <3>3, <3>4
  <2>. QED  BY <2>2, <2>3, <2>4 DEF TaskOK, Complete, Delivered, Current
<1>5. ASSUME NEW s \in Syncs
      PROVE  SyncOK(s)'
  <2>1. /\ SyncOK(s) /\ object[s] \subseteq Version /\ s \in Tasks
        /\ tracking \in [Rows -> 0..MaxTracking]
        /\ highest \in 0..MaxTracking /\ from[s] \in 0..MaxTracking
    BY DEF IInv, TypeOK, Tasks
  <2>2. UNCHANGED <<pc, from, batch, newest, object>>
    BY <1>0 DEF taskVars, storeVars
  <2>3. \A v \in object[s] : from[s] < v[2] /\ v[2] <= highest'
    BY <1>0, <2>1 DEF SyncOK, Version
  <2>4. ASSUME pc[s] = "read", NEW q \in Rows, <<q, tracking'[q]>> \in object[s]
        PROVE  <<q, tracking'[q]>> \in batch[s] \cup late'
    <3>1. CASE q = r
      BY <1>0, <2>1, <2>4, <3>1 DEF SyncOK
    <3>2. CASE q # r
      BY <1>0, <2>1, <2>4, <3>2 DEF SyncOK, Current
    <3>. QED  BY <3>1, <3>2
  <2>. QED  BY <2>1, <2>2, <2>3, <2>4 DEF SyncOK, Current
<1>6. ASSUME NEW w \in Watches
      PROVE  WatchOK(w)'
  BY <1>0 DEF IInv, WatchOK, taskVars, storeVars
<1>. QED  BY <1>1, <1>3, <1>4, <1>5, <1>6 DEF IInv

(* A query returns every current version above the checkpoint, up to the newest. *)
LEMMA QueryPreserves ==
  ASSUME IInv, TypeOK', NEW t \in Tasks, Query(t)
  PROVE  IInv'
<1>. USE BoundsAssumption, TasksAssumption
<1>0. /\ UNCHANGED <<tracking, highest, late, lastValue, object, stream, from>>
      /\ pc[t] = "query" /\ pc' = [pc EXCEPT ![t] = "read"]
      /\ batch' = [batch EXCEPT ![t] = Changes(from[t])]
      /\ IsNewest(newest'[t], Changes(from[t]), from[t])
      /\ \A u \in Tasks \ {t} : newest'[u] = newest[u]
  BY DEF Query, sourceVars, jobVars, storeVars, IInv, TypeOK
<1>1. Bounded'
  BY <1>0 DEF IInv, Bounded
<1>2. Complete(lastValue)'
  BY <1>0 DEF IInv, Complete, Delivered, Current
<1>3. ASSUME NEW u \in Tasks
      PROVE  TaskOK(u)'
  <2>1. CASE u # t
    BY <1>0, <2>1 DEF IInv, TypeOK, TaskOK, Covers, Complete, Delivered, Current
  <2>2. CASE u = t
    <3>1. from[t] <= highest /\ Complete(from[t]) /\ Bounded /\ from[t] \in 0..MaxTracking
          /\ newest'[t] \in 0..MaxTracking /\ tracking \in [Rows -> 0..MaxTracking]
          /\ highest \in 0..MaxTracking
      BY DEF IInv, TypeOK, TaskOK
    <3>2. pc'[t] = "read" /\ batch'[t] = Changes(from[t])
      BY <1>0 DEF IInv, TypeOK
    <3>3. \A v \in batch'[t] : from[t] < v[2] /\ v[2] <= highest
      BY <3>1, <3>2 DEF Changes, Current, Bounded
    <3>4. newest'[t] <= highest
      BY <1>0, <3>1, <3>2, <3>3 DEF IsNewest
    <3>5. \A r \in Rows : tracking[r] \in (from[t] + 1)..newest'[t] => Current(r) \in batch'[t]
      BY <3>1, <3>2 DEF Changes
    <3>. QED
      BY <1>0, <2>2, <3>1, <3>2, <3>3, <3>4, <3>5
      DEF TaskOK, Covers, Complete, Delivered, Current
  <2>. QED  BY <2>1, <2>2
<1>4. ASSUME NEW s \in Syncs
      PROVE  SyncOK(s)'
  <2>1. SyncOK(s) /\ s \in Tasks
    BY DEF IInv, Tasks
  <2>2. CASE s # t
    BY <1>0, <2>1, <2>2 DEF IInv, TypeOK, SyncOK, Current
  <2>3. CASE s = t
    <3>1. pc'[s] = "read" /\ batch'[s] = Changes(from[s])
      BY <1>0, <2>3 DEF IInv, TypeOK
    <3>2. ASSUME NEW r \in Rows, Current(r) \in object[s]
          PROVE  Current(r) \in batch'[s]
      <4>1. from[s] < tracking[r]
        BY <2>1, <3>2 DEF SyncOK, Current
      <4>. QED  BY <3>1, <4>1 DEF Changes
    <3>. QED  BY <1>0, <2>1, <3>1, <3>2 DEF SyncOK, Current
  <2>. QED  BY <2>2, <2>3
<1>5. ASSUME NEW w \in Watches
      PROVE  WatchOK(w)'
  BY <1>0 DEF IInv, TypeOK, Tasks, WatchOK
<1>. QED  BY <1>1, <1>2, <1>3, <1>4, <1>5 DEF IInv

(* What is delivered and current stays delivered when an object is replaced by
   the result of a newer query of the same checkpoint.                     *)
LEMMA SyncWritePreserves ==
  ASSUME IInv, TypeOK', NEW s \in Syncs, SyncWrite(s)
  PROVE  IInv'
<1>. USE BoundsAssumption, TasksAssumption
<1>0. /\ UNCHANGED <<tracking, highest, late, lastValue, stream, from, batch, newest>>
      /\ pc[s] = "read" /\ pc' = [pc EXCEPT ![s] = "written"]
      /\ object'[s] \subseteq object[s] \cup batch[s] /\ batch[s] \subseteq object'[s]
      /\ \A u \in Syncs \ {s} : object'[u] = object[u]
      /\ s \in Tasks
  BY DEF SyncWrite, Goto, notSync, sourceVars, IInv, TypeOK, Tasks
<1>1. Bounded'
  BY <1>0 DEF IInv, Bounded
<1>2. ASSUME NEW r \in Rows, Delivered(Current(r))
      PROVE  Delivered(Current(r))' \/ Current(r) \in late
  BY <1>0, <1>2 DEF IInv, SyncOK, Delivered, Current
<1>3. Complete(lastValue)'
  BY <1>0, <1>2 DEF IInv, Complete, Current
<1>4. ASSUME NEW t \in Tasks
      PROVE  TaskOK(t)'
  BY <1>0, <1>2 DEF IInv, TypeOK, TaskOK, Covers, Complete, Current
<1>5. ASSUME NEW u \in Syncs
      PROVE  SyncOK(u)'
  <2>1. CASE u # s
    BY <1>0, <2>1 DEF IInv, TypeOK, Tasks, SyncOK, Current
  <2>2. CASE u = s
    BY <1>0, <2>2 DEF IInv, TypeOK, SyncOK, TaskOK
  <2>. QED  BY <2>1, <2>2
<1>6. ASSUME NEW w \in Watches
      PROVE  WatchOK(w)'
  BY <1>0 DEF IInv, TypeOK, Tasks, WatchOK
<1>. QED  BY <1>1, <1>3, <1>4, <1>5, <1>6 DEF IInv

(* A watcher only adds objects. *)
LEMMA WatchWritePreserves ==
  ASSUME IInv, TypeOK', NEW w \in Watches, WatchWrite(w)
  PROVE  IInv'
<1>. USE BoundsAssumption, TasksAssumption
<1>0. /\ UNCHANGED <<tracking, highest, late, lastValue, object, from, batch, newest>>
      /\ pc[w] = "read" /\ pc' = [pc EXCEPT ![w] = "written"]
      /\ stream' = stream \cup batch[w]
      /\ w \in Tasks
  BY DEF WatchWrite, Goto, notWatch, sourceVars, Tasks
<1>1. Bounded'
  BY <1>0 DEF IInv, Bounded, TaskOK
<1>2. Complete(lastValue)'
  BY <1>0 DEF IInv, Complete, Delivered, Current
<1>3. ASSUME NEW t \in Tasks
      PROVE  TaskOK(t)'
  BY <1>0 DEF IInv, TypeOK, TaskOK, Covers, Complete, Delivered, Current
<1>4. ASSUME NEW s \in Syncs
      PROVE  SyncOK(s)'
  BY <1>0 DEF IInv, TypeOK, Tasks, SyncOK, Current
<1>5. ASSUME NEW u \in Watches
      PROVE  WatchOK(u)'
  BY <1>0 DEF IInv, TypeOK, Tasks, WatchOK
<1>. QED  BY <1>1, <1>2, <1>3, <1>4, <1>5 DEF IInv

(* The four operations that are no bookkeeping. *)
Writes ==
  \/ \E r \in Rows, t \in 1..MaxTracking : WriteRow(r, t)
  \/ \E t \in Tasks : Query(t)
  \/ \E s \in Syncs : SyncWrite(s)
  \/ \E w \in Watches : WatchWrite(w)

(* Every step is one of those or bookkeeping. *)
LEMMA StepIsBookOrWrites ==
  ASSUME IInv, [Next]_vars
  PROVE  Book \/ Writes
<1>. USE TasksAssumption
<1>t. pc \in [Tasks -> Steps] /\ from \in [Tasks -> 0..MaxTracking]
      /\ batch \in [Tasks -> SUBSET Version] /\ newest \in [Tasks -> 0..MaxTracking]
  BY DEF IInv, TypeOK
<1>1. ASSUME NEW s \in Syncs, TriggerSync(s)
      PROVE  Book
  BY <1>t, <1>1 DEF Book, TriggerSync, Trigger, Goto, Keeps, Moves, Tasks, notSync,
         sourceVars, jobVars, taskVars, storeVars
<1>2. ASSUME NEW s \in Syncs, TriggerSnapshot(s)
      PROVE  Book
  BY <1>t, <1>2 DEF Book, TriggerSnapshot, Trigger, Goto, Keeps, Moves, Tasks,
         notSync, sourceVars, jobVars, taskVars, storeVars
<1>3. ASSUME NEW s \in Syncs, SendSync(s)
      PROVE  Book
  BY <1>t, <1>3 DEF Book, SendSync, Keeps, Moves, Tasks, notSync, sourceVars,
         jobVars, taskVars, storeVars, SyncOK, IInv
<1>4. ASSUME NEW s \in Syncs, ConnectorMissing(s)
      PROVE  Book
  BY <1>t, <1>4 DEF Book, ConnectorMissing, Close, Keeps, Moves, Tasks, notSync,
         sourceVars, jobVars, taskVars, storeVars
<1>5. ASSUME NEW s \in Syncs, SendFails(s)
      PROVE  Book
  BY <1>t, <1>5 DEF Book, SendFails, Close, Keeps, Moves, Tasks, notSync,
         sourceVars, jobVars, taskVars, storeVars
<1>6. ASSUME NEW s \in Syncs, SyncLoad(s)
      PROVE  Book
  BY <1>t, <1>6 DEF Book, SyncLoad, Goto, See, Keeps, Moves, Tasks, notSync,
         sourceVars, jobVars, taskVars, storeVars
<1>7. ASSUME NEW s \in Syncs, SyncCommit(s)
      PROVE  Book
  BY <1>t, <1>7 DEF Book, SyncCommit, Leave, See, Flushed, Reached, Keeps, Moves,
         Commits, Tasks, notSync, sourceVars, jobVars, taskVars, storeVars
<1>8. ASSUME NEW s \in Syncs, SyncTransient(s)
      PROVE  Book
  BY <1>t, <1>8 DEF Book, SyncTransient, Leave, See, MayRetry, Keeps, Moves, Tasks,
         notSync, sourceVars, jobVars, taskVars, storeVars
<1>9. ASSUME NEW s \in Syncs, MarkSyncFailed(s)
      PROVE  Book
  BY <1>t, <1>9 DEF Book, MarkSyncFailed, Goto, LogFailed, Keeps, Moves, Tasks,
         notSync, sourceVars, jobVars, taskVars, storeVars
<1>10. ASSUME NEW s \in Syncs, SyncFails(s)
      PROVE  Book
  BY <1>t, <1>10 DEF Book, SyncFails, Leave, See, Flushed, Keeps, Moves, Tasks,
         notSync, sourceVars, jobVars, taskVars, storeVars
<1>11. ASSUME NEW s \in Syncs, SyncUnrecorded(s)
      PROVE  Book
  BY <1>t, <1>11 DEF Book, SyncUnrecorded, Close, See, Fault, Keeps, Moves, Tasks,
         notSync, sourceVars, jobVars, taskVars, storeVars
<1>12. ASSUME NEW s \in Syncs, SyncAcknowledge(s)
      PROVE  Book
  BY <1>t, <1>12 DEF Book, SyncAcknowledge, Close, Keeps, Moves, Tasks, notSync,
         sourceVars, jobVars, taskVars, storeVars
<1>13. ASSUME NEW s \in Syncs, SyncWorkerLost(s)
      PROVE  Book
  BY <1>t, <1>13 DEF Book, SyncWorkerLost, Leave, See, Fault, Keeps, Moves, Tasks,
         notSync, sourceVars, jobVars, taskVars, storeVars
<1>14. ASSUME NEW w \in Watches, WatchBegin(w)
      PROVE  Book
  BY <1>t, <1>14 DEF Book, WatchBegin, Goto, Close, Keeps, Moves, Tasks, notWatch,
         sourceVars, jobVars, taskVars, storeVars
<1>15. ASSUME NEW w \in Watches, WatchRefresh(w)
      PROVE  Book
  BY <1>t, <1>15 DEF Book, WatchRefresh, Keeps, Moves, Tasks, notWatch, sourceVars,
         jobVars, taskVars, storeVars
<1>16. ASSUME NEW w \in Watches, WatchExit(w)
      PROVE  Book
  BY <1>t, <1>16 DEF Book, WatchExit, Close, Keeps, Moves, Tasks, notWatch,
         sourceVars, jobVars, taskVars, storeVars
<1>17. ASSUME NEW w \in Watches, WatchPollFails(w)
      PROVE  Book
  BY <1>t, <1>17 DEF Book, WatchPollFails, Close, Keeps, Moves, Tasks, notWatch,
         sourceVars, jobVars, taskVars, storeVars
<1>18. ASSUME NEW w \in Watches, WatchCommit(w)
      PROVE  Book
  BY <1>t, <1>18 DEF Book, WatchCommit, Close, Reached, Keeps, Moves, Commits,
         Tasks, notWatch, sourceVars, jobVars, taskVars, storeVars
<1>19. ASSUME NEW w \in Watches, WatchRaises(w)
      PROVE  Book
  BY <1>t, <1>19 DEF Book, WatchRaises, Close, Fault, Keeps, Moves, Tasks, notWatch,
         sourceVars, jobVars, taskVars, storeVars
<1>20. ASSUME NEW w \in Watches, WatchWorkerLost(w)
      PROVE  Book
  BY <1>t, <1>20 DEF Book, WatchWorkerLost, Close, Fault, Keeps, Moves, Tasks,
         notWatch, sourceVars, jobVars, taskVars, storeVars
<1>21. ASSUME NEW w \in Watches, WatchRevoked(w)
      PROVE  Book
  BY <1>t, <1>21 DEF Book, WatchRevoked, Close, Keeps, Moves, Tasks, notWatch,
         sourceVars, jobVars, taskVars, storeVars
<1>22. ASSUME NEW w \in Watches, NEW copy \in Watches, WatchRedelivered(w, copy)
      PROVE  Book
  BY <1>t, <1>22 DEF Book, WatchRedelivered, Goto, Fault, Keeps, Moves, Tasks,
         notWatch, sourceVars, jobVars, taskVars, storeVars
<1>23. ASSUME StartJob
      PROVE  Book
  BY <1>t, <1>23 DEF Book, StartJob, Keeps, Moves, Tasks, sourceVars, jobVars,
         taskVars, storeVars
<1>24. ASSUME StopJob
      PROVE  Book
  BY <1>t, <1>24 DEF Book, StopJob, Keeps, Moves, Tasks, sourceVars, jobVars,
         taskVars, storeVars
<1>25. ASSUME StopCommit
      PROVE  Book
  BY <1>t, <1>25 DEF Book, StopCommit, Keeps, Moves, Tasks, sourceVars, jobVars,
         taskVars, storeVars
<1>26. ASSUME Inspect
      PROVE  Book
  BY <1>t, <1>26 DEF Book, Inspect, Keeps, Moves, Tasks, sourceVars, jobVars,
         taskVars, storeVars
<1>27. ASSUME SelectOrphan
      PROVE  Book
  BY <1>t, <1>27 DEF Book, SelectOrphan, Keeps, Moves, Tasks, sourceVars, jobVars,
         taskVars, storeVars
<1>28. ASSUME NEW w \in Watches, DispatchWatcher(w)
      PROVE  Book
  BY <1>t, <1>28 DEF Book, DispatchWatcher, Goto, Fault, Keeps, Moves, Tasks,
         sourceVars, jobVars, taskVars, storeVars
<1>29. ASSUME OutOfTasks
      PROVE  Book
  BY <1>t, <1>29 DEF Book, OutOfTasks, Keeps, Moves, Tasks, sourceVars, jobVars,
         taskVars, storeVars
<1>30. ASSUME UNCHANGED vars
      PROVE  Book
  BY <1>30 DEF Book, vars, Keeps, taskVars, jobVars
<1>. QED
  BY <1>1, <1>2, <1>3, <1>4, <1>5, <1>6, <1>7, <1>8, <1>9, <1>10, <1>11, <1>12,
     <1>13, <1>14, <1>15, <1>16, <1>17, <1>18, <1>19, <1>20, <1>21, <1>22,
     <1>23, <1>24, <1>25, <1>26, <1>27, <1>28, <1>29, <1>30
  DEF Next, SyncStep, WatchStep, SchedulerStep, Tasks, Writes

(* Every operation preserves the invariant: the four lemmas above for the writes
   and the query, Bookkeeping for the rest.                                *)
LEMMA InvStep == IInv /\ [Next]_vars => IInv'
<1> SUFFICES ASSUME IInv, [Next]_vars
             PROVE  IInv'
  OBVIOUS
<1>1. TypeOK'
  BY TypeStep DEF IInv
<1>2. CASE Book
  BY <1>1, <1>2, Bookkeeping
<1>3. CASE Writes
  BY <1>1, <1>3, WriteRowPreserves, QueryPreserves, SyncWritePreserves, WatchWritePreserves
  DEF Writes
<1>. QED  BY <1>2, <1>3, StepIsBookOrWrites

(* Initially nothing is written and nothing is loaded. *)
LEMMA InvInit == Init => IInv
<1> SUFFICES ASSUME Init PROVE IInv
  OBVIOUS
<1>. USE BoundsAssumption
<1>1. TypeOK
  BY TypeInit
<1>. QED
  BY <1>1 DEF Init, IInv, Bounded, TaskOK, SyncOK, WatchOK, Complete, Tasks

(* The checkpoint never passes data that is not in S3, for any number of rows,
   syncs, watchers, retries and faults.                                    *)
THEOREM CheckpointNeverPassesData == Spec => []NoLoss
<1>1. IInv => NoLoss
  BY DEF IInv, NoLoss
<1>. QED  BY InvInit, InvStep, <1>1, PTL DEF Spec

-----------------------------------------------------------------------------
(* Capture.  The refinement mapping is that of AtLeastOnce: version, owed and
   checkpoint stand for tracking, Pending and lastValue.                   *)

(* The rows that are still to be delivered, in the next state. *)
LEMMA PendingNext ==
  Pending' = {r \in Rows : /\ tracking'[r] > 0
                           /\ ~Delivered(Current(r))' /\ Current(r)' \notin late'}
BY DEF Pending

(* A row written above every value in use is owed, as its new version is in no
   object; a row written at or below one is owed no more.                  *)
LEMMA WriteRowIsChange ==
  ASSUME IInv, NEW r \in Rows, NEW t \in 1..MaxTracking, WriteRow(r, t)
  PROVE  Captured!Change(r) \/ \E n \in 1..highest : Captured!ChangeLate(r, n)
<1>. USE BoundsAssumption
<1>1. /\ UNCHANGED <<lastValue, object, stream>>
      /\ tracking' = [tracking EXCEPT ![r] = t] /\ tracking \in [Rows -> 0..MaxTracking]
      /\ highest \in 0..MaxTracking
      /\ t = highest + 1 \/ t <= highest
  BY DEF WriteRow, jobVars, storeVars, IInv, TypeOK
<1>2. \A q \in Rows \ {r} : Current(q)' = Current(q) /\ tracking'[q] = tracking[q]
  BY <1>1 DEF Current
<1>3. Current(r)' = <<r, t>> /\ tracking'[r] = t
  BY <1>1 DEF Current
<1>4. \A v : Delivered(v)' <=> Delivered(v)
  BY <1>1 DEF Delivered
<1>5. CASE t = highest + 1
  <2>1. highest' = highest + 1 /\ late' = late
    BY <1>1, <1>5 DEF WriteRow
  <2>2. <<r, t>> \notin late /\ ~Delivered(<<r, t>>)
    BY <1>1, <1>5 DEF IInv, Bounded, SyncOK, Delivered
  <2>3. Pending' = Pending \cup {r}
    BY <1>2, <1>3, <1>4, <2>1, <2>2, PendingNext DEF Pending, Delivered, Current
  <2>. QED  BY <1>1, <1>5, <2>1, <2>3 DEF Captured!Change
<1>6. CASE t <= highest
  <2>1. highest' = highest /\ late' = late \cup {<<r, t>>}
    BY <1>1, <1>6 DEF WriteRow
  <2>2. Pending' = Pending \ {r}
    BY <1>2, <1>3, <1>4, <2>1, PendingNext DEF Pending, Delivered, Current
  <2>3. Captured!ChangeLate(r, t)
    BY <1>1, <2>1, <2>2 DEF Captured!ChangeLate
  <2>4. t \in 1..highest
    BY <1>1, <1>6
  <2>. QED  BY <2>3, <2>4
<1>. QED  BY <1>1, <1>5, <1>6

(* While the table and the checkpoint stay, a step that takes nothing back is a
   delivery of the rows it is no longer owing.                             *)
LEMMA NothingTakenBack ==
  ASSUME UNCHANGED <<sourceVars, lastValue>>,
         \A r \in Rows : Delivered(Current(r)) =>
           Delivered(Current(r))' \/ Current(r) \in late
  PROVE  \E rows \in SUBSET Pending : Captured!Deliver(rows)
<1>1. Pending' \subseteq Pending
  BY PendingNext DEF Pending, Current, sourceVars
<1>2. Captured!Deliver(Pending \ Pending')
  BY <1>1 DEF Captured!Deliver, sourceVars
<1>. QED  BY <1>2

(* A sync that writes its object takes nothing back, whether it is the first
   execution of its message or a later one that replaces the object.       *)
LEMMA SyncWriteDelivers ==
  ASSUME IInv, NEW s \in Syncs, SyncWrite(s)
  PROVE  \E rows \in SUBSET Pending : Captured!Deliver(rows)
<1>1. /\ UNCHANGED <<sourceVars, lastValue, stream>> /\ pc[s] = "read"
      /\ batch[s] \subseteq object'[s]
      /\ \A u \in Syncs \ {s} : object'[u] = object[u]
  BY DEF SyncWrite, notSync, IInv, TypeOK
<1>2. ASSUME NEW r \in Rows, Delivered(Current(r))
      PROVE  Delivered(Current(r))' \/ Current(r) \in late
  <2>1. Current(r)' = Current(r)
    BY <1>1 DEF Current, sourceVars
  <2>. QED  BY <1>1, <1>2, <2>1 DEF IInv, SyncOK, Delivered
<1>. QED  BY <1>1, <1>2, NothingTakenBack

(* A watcher only adds. *)
LEMMA WatchWriteDelivers ==
  ASSUME NEW w \in Watches, WatchWrite(w)
  PROVE  \E rows \in SUBSET Pending : Captured!Deliver(rows)
<1>1. UNCHANGED <<sourceVars, lastValue, object>> /\ stream \subseteq stream'
  BY DEF WatchWrite, notWatch
<1>2. \A r \in Rows : Delivered(Current(r)) => Delivered(Current(r))'
  BY <1>1 DEF Delivered, Current, sourceVars
<1>. QED  BY <1>1, <1>2, NothingTakenBack

(* While neither the table nor S3 changes, the same rows are owed. *)
LEMMA StoreUntouched ==
  ASSUME UNCHANGED <<sourceVars, storeVars>>
  PROVE  UNCHANGED <<tracking, highest, Pending>>
BY DEF Pending, Delivered, Current, sourceVars, storeVars

(* Bookkeeping moves the checkpoint below every row that is owed, or not at all. *)
LEMMA BookMovesCheckpoint ==
  ASSUME IInv, TypeOK', Book
  PROVE  \E n \in 0..highest : Captured!MoveCheckpoint(n)
<1>. USE BoundsAssumption
<1>1. /\ lastValue' \in 0..highest /\ Complete(lastValue')
      /\ tracking \in [Rows -> 0..MaxTracking]
  BY CommitIsComplete DEF IInv, TypeOK
<1>2. \A r \in Pending : tracking[r] > lastValue'
  BY <1>1 DEF Pending, Complete, IInv, TypeOK
<1>3. UNCHANGED <<tracking, highest, Pending>>
  BY StoreUntouched DEF Book
<1>. QED  BY <1>1, <1>2, <1>3 DEF Captured!MoveCheckpoint

(* Each step is one of Capture or a stutter. *)
LEMMA StepIsCapture ==
  ASSUME IInv, [Next]_vars
  PROVE  [Captured!Next]_(Captured!vars)
<1>1. TypeOK'
  BY TypeStep DEF IInv
<1>2. CASE Book
  BY <1>1, <1>2, BookMovesCheckpoint DEF Captured!Next
<1>3. ASSUME NEW r \in Rows, NEW t \in 1..MaxTracking, WriteRow(r, t)
      PROVE  Captured!Next
  BY <1>3, WriteRowIsChange DEF Captured!Next
<1>4. ASSUME NEW t \in Tasks, Query(t)
      PROVE  UNCHANGED Captured!vars
  <2>1. UNCHANGED <<sourceVars, storeVars, lastValue>>
    BY <1>4 DEF Query, jobVars
  <2>. QED  BY <2>1, StoreUntouched DEF Captured!vars
<1>5. ASSUME NEW s \in Syncs, SyncWrite(s)
      PROVE  Captured!Next
  BY <1>5, SyncWriteDelivers DEF Captured!Next
<1>6. ASSUME NEW w \in Watches, WatchWrite(w)
      PROVE  Captured!Next
  BY <1>6, WatchWriteDelivers DEF Captured!Next
<1>. QED
  BY <1>2, <1>3, <1>4, <1>5, <1>6, StepIsBookOrWrites DEF Writes

(* Syncs and watchers implement Capture, for any number of rows, syncs,
   watchers, retries and faults.                                           *)
THEOREM CaptureIsImplemented == Spec => AtLeastOnce
<1>1. Init => Captured!Init
  BY DEF Init, Captured!Init, Pending
<1>2. IInv /\ [Next]_vars => [Captured!Next]_(Captured!vars)
  BY StepIsCapture
<1>. QED  BY <1>1, <1>2, InvInit, InvStep, PTL DEF Spec, AtLeastOnce, Captured!Spec

(* Capture's own invariant: the checkpoint is below every row that is owed. *)
Kept ==
  /\ highest \in Nat /\ tracking \in [Rows -> Nat]
  /\ Pending \subseteq Rows /\ lastValue \in 0..highest
  /\ \A r \in Pending : tracking[r] > lastValue

(* What Capture promises is enough: nothing but its actions keeps the checkpoint
   from passing data that is not in S3.                                    *)
THEOREM CaptureSuffices == AtLeastOnce => []NoLoss
<1>1. Captured!Init => Kept
  BY DEF Captured!Init, Kept
<1>2. Kept /\ [Captured!Next]_(Captured!vars) => Kept'
  <2> SUFFICES ASSUME Kept, [Captured!Next]_(Captured!vars)
               PROVE  Kept'
    OBVIOUS
  <2>1. ASSUME NEW r \in Rows, Captured!Change(r)
        PROVE  Kept'
    BY ONLY Kept, <2>1 DEF Kept, Captured!Change
  <2>2. ASSUME NEW r \in Rows, NEW t \in 1..highest, Captured!ChangeLate(r, t)
        PROVE  Kept'
    BY ONLY Kept, <2>2 DEF Kept, Captured!ChangeLate
  <2>3. ASSUME NEW rows \in SUBSET Pending, Captured!Deliver(rows)
        PROVE  Kept'
    BY ONLY Kept, <2>3 DEF Kept, Captured!Deliver
  <2>4. ASSUME NEW n \in 0..highest, Captured!MoveCheckpoint(n)
        PROVE  Kept'
    BY ONLY Kept, <2>4 DEF Kept, Captured!MoveCheckpoint
  <2>5. ASSUME UNCHANGED Captured!vars
        PROVE  Kept'
    BY ONLY Kept, <2>5 DEF Kept, Captured!vars
  <2>. QED  BY <2>1, <2>2, <2>3, <2>4, <2>5 DEF Captured!Next
<1>3. Kept => NoLoss
  BY DEF Kept, NoLoss, Complete, Pending
<1>. QED  BY <1>1, <1>2, <1>3, PTL DEF AtLeastOnce, Captured!Spec

=============================================================================
