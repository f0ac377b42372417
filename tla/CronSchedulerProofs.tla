------------------------ MODULE CronSchedulerProofs -------------------------
(***************************************************************************)
(* Proofs about CronScheduler for every interval, every schedule and every *)
(* delay of at most an interval: the types, that a fire time never gives   *)
(* rise to two runs, and which fire times do get their run.                *)
(***************************************************************************)
EXTENDS CronScheduler, TLAPS

(* The check's transaction began at most Delay before it read the clock. *)
ClockOK ==
  /\ asOf <= now /\ began <= now
  /\ step = "clock" => began = since /\ now <= began + Delay
  /\ step \in {"decide", "trigger"} => began <= asOf /\ asOf <= began + Delay

(* What Decide found is still so when Trigger creates the run. *)
DecisionOK ==
  step = "trigger" =>
    /\ ~RecentRun
    /\ \A f \in Fires : IsPrevFire(f) => asOf <= f + Interval

(* A run's created_at is not much before the fire time it is for, so that it is
   recent for as long as that fire time is due.                            *)
RunOK ==
  \A f \in Fires :
    /\ ran[f] <= 1
    /\ ran[f] = 1 => \E c \in created : f < c + Delay

IInv == TypeOK /\ ClockOK /\ DecisionOK /\ RunOK

(* Initially no check has read the clock and no run exists. *)
LEMMA InvInit == Init => IInv
BY TimesAssumption
DEF Init, IInv, TypeOK, Time, ClockOK, DecisionOK, RunOK

(* The previous fire time is one, if it exists. *)
LEMMA OnePrevFire ==
  ASSUME TypeOK, NEW f \in Fires, NEW g \in Fires, IsPrevFire(f), IsPrevFire(g)
  PROVE  f = g
BY TimesAssumption DEF TypeOK, Time, IsPrevFire

(* Every step of the scheduler and of time keeps the invariant. *)
LEMMA InvStep == IInv /\ [Next]_vars => IInv'
<1> SUFFICES ASSUME IInv, [Next]_vars
             PROVE  IInv'
  OBVIOUS
<1>. USE TimesAssumption DEF IInv, TypeOK, Time, Reach
<1>1. CASE Tick
  BY <1>1 DEF Tick, ClockOK, DecisionOK, RunOK, RecentRun, IsPrevFire
<1>2. CASE StartScheduler
  BY <1>2 DEF StartScheduler, BeginCheck, ClockOK, DecisionOK, RunOK
<1>3. CASE WakeUp
  BY <1>3 DEF WakeUp, BeginCheck, ClockOK, DecisionOK, RunOK
<1>4. CASE ReadClock
  BY <1>4 DEF ReadClock, ClockOK, DecisionOK, RunOK
<1>5. CASE Skip
  BY <1>5 DEF Skip, EndCheck, ClockOK, DecisionOK, RunOK
<1>6. CASE Decide
  <2>1. PICK f \in Fires : Due(f)
    BY <1>6 DEF Decide
  <2>2. \A g \in Fires : IsPrevFire(g) => asOf <= g + Interval
    BY <2>1, OnePrevFire DEF Due, IsPrevFire
  <2>. QED
    BY <1>6, <2>2 DEF Decide, ClockOK, DecisionOK, RunOK, RecentRun, IsPrevFire
<1>7. CASE Trigger
  <2>1. PICK f \in Fires : IsPrevFire(f) /\ ran' = [ran EXCEPT ![f] = @ + 1]
    BY <1>7 DEF Trigger
  <2>2. PICK at \in began..now : created' = created \cup {at}
    BY <1>7 DEF Trigger
  <2>3. f < asOf /\ asOf <= f + Interval /\ asOf <= began + Delay /\ f < at + Delay
    BY <1>7, <2>1, <2>2 DEF Trigger, DecisionOK, ClockOK, IsPrevFire
  <2>4. ran[f] = 0
    <3> SUFFICES ASSUME NEW c \in created, f < c + Delay
                 PROVE  FALSE
      BY DEF RunOK
    <3>1. c + 2 * Interval <= asOf
      BY <1>7 DEF Trigger, DecisionOK, RecentRun
    <3>. QED  BY <2>3, <3>1
  <2>5. RunOK'
    BY <2>1, <2>2, <2>3, <2>4 DEF RunOK
  <2>6. TypeOK'
    BY <1>7, <2>1, <2>2 DEF Trigger, EndCheck
  <2>. QED
    BY <1>7, <2>5, <2>6 DEF Trigger, EndCheck, ClockOK, DecisionOK
<1>8. CASE TriggerFails
  BY <1>8 DEF TriggerFails, EndCheck, ClockOK, DecisionOK, RunOK
<1>9. CASE ProcessExits
  BY <1>9 DEF ProcessExits, ClockOK, DecisionOK, RunOK
<1>10. CASE CheckFails
  BY <1>10 DEF CheckFails, ClockOK, DecisionOK, RunOK
<1>11. CASE DecideFails
  BY <1>11 DEF DecideFails, EndCheck, ClockOK, DecisionOK, RunOK
<1>12. CASE UNCHANGED vars
  BY <1>12 DEF vars, ClockOK, DecisionOK, RunOK, RecentRun, IsPrevFire
<1>. QED
  BY <1>1, <1>2, <1>3, <1>4, <1>5, <1>6, <1>7, <1>8, <1>9, <1>10, <1>11, <1>12 DEF Next

(* Every variable of the cron model keeps its type. *)
THEOREM TypeCorrect == Spec => []TypeOK
BY InvInit, InvStep, PTL DEF Spec, IInv

(* A fire time never gives rise to two runs, whatever the schedule, the delays
   of the checks and the restarts of the process.                          *)
THEOREM NoDuplicateRuns == Spec => []AtMostOneRunPerFire
<1>1. IInv => AtMostOneRunPerFire
  BY DEF IInv, RunOK, AtMostOneRunPerFire
<1>. QED  BY InvInit, InvStep, <1>1, PTL DEF Spec

-----------------------------------------------------------------------------
(* Which fire times do get their run. *)

(* A fire time was due at the check c. *)
Busy(c) == \E g \in Fires : g < c /\ c <= g + Interval

(* The thread moves on within Delay, and checks follow one another in time. *)
HistoryOK ==
  /\ \A c \in checks : c <= asOf
  /\ step = "decide" => since = asOf /\ now <= asOf + Delay
  /\ step = "trigger" => since <= asOf + Delay /\ now <= since + Delay

(* How long after the check c the next one reads the clock: an interval and three
   delays, or four if c found something to do.                             *)
Paced(c) ==
  /\ step = "wait" =>
       /\ since <= c + Delay \/ (since <= c + 2 * Delay /\ Busy(c))
       /\ now <= since + Interval + Delay
  /\ step = "clock" =>
       \/ since <= c + Interval + 2 * Delay
       \/ since <= c + Interval + 3 * Delay /\ Busy(c)
  /\ step \in {"decide", "trigger"} =>
       \/ asOf <= c + Interval + 3 * Delay
       \/ asOf <= c + Interval + 4 * Delay /\ Busy(c)

PaceOK == step # "down" /\ checks # {} => \E c \in checks : Paced(c)

(* A run's created_at is not long after the fire time it is for. *)
CreatedOK ==
  \A at \in created :
    \E g \in Fires : ran[g] >= 1 /\ g < asOf /\ at <= g + Interval + 2 * Delay

SInv == IInv /\ HistoryOK /\ PaceOK /\ CreatedOK /\ SpacedFiresRun

(* The first check after a spaced fire time finds it due, and if it finds a recent
   run as well then that is its own.                                       *)
LEMMA FoundDue ==
  ASSUME SInv, step \in {"decide", "trigger"},
         NEW f \in Fires, Spaced(f), ClearOfChecks(f), f < asOf,
         checks # {}, \A c \in checks : c <= f
  PROVE  Due(f) /\ (RecentRun => ran[f] >= 1)
<1>. USE TimesAssumption DEF SInv, IInv, TypeOK, Time
<1>1. PICK c \in checks : Paced(c)
  BY DEF PaceOK
<1>2. c + 3 * Delay <= f
  BY DEF ClearOfChecks
<1>3. Busy(c) => c + 2 * Interval + 2 * Delay <= f
  <2>. SUFFICES ASSUME NEW g \in Fires, g < c, c <= g + Interval
                PROVE  c + 2 * Interval + 2 * Delay <= f
    BY DEF Busy
  <2>1. g < f /\ f \in Nat /\ g \in Nat /\ c \in Nat
    OBVIOUS
  <2>2. g + 3 * Interval + 2 * Delay <= f
    BY <2>1 DEF Spaced
  <2>. QED  BY <2>1, <2>2
<1>4. asOf <= f + Interval
  BY <1>1, <1>2, <1>3 DEF Paced
<1>5. \A g \in Fires : g < asOf => g <= f
  BY <1>4 DEF Spaced
<1>6. Due(f)
  BY <1>4, <1>5 DEF Due, IsPrevFire
<1>7. ASSUME NEW at \in created, asOf < at + 2 * Interval
      PROVE  ran[f] >= 1
  <2>1. PICK g \in Fires : ran[g] >= 1 /\ g < asOf /\ at <= g + Interval + 2 * Delay
    BY DEF CreatedOK
  <2>2. g <= f
    BY <1>5, <2>1
  <2>3. ~(g < f)
    BY <1>7, <2>1 DEF Spaced
  <2>4. g = f
    BY <2>2, <2>3
  <2>. QED  BY <2>1, <2>4
<1>. QED  BY <1>6, <1>7 DEF RecentRun

(* A check that ends leaves no spaced fire time without its run behind it. *)
LEMMA EndKeepsSpaced ==
  ASSUME SInv, step \in {"decide", "trigger"}, checks' = checks \cup {asOf},
         \A f \in Fires : ran[f] >= 1 => ran'[f] >= 1,
         refused \in SUBSET refused',
         \A f \in Fires : Due(f) /\ (RecentRun => ran[f] >= 1) =>
                            ran'[f] >= 1 \/ f \in refused'
  PROVE  SpacedFiresRun'
<1>. USE TimesAssumption DEF SInv, IInv, TypeOK, Time
<1>. SUFFICES ASSUME NEW c \in checks', NEW d \in checks', NEW f \in Fires,
                     c <= f, f < d, ClearOfChecks(f)', Spaced(f)
              PROVE  ran'[f] >= 1 \/ f \in refused'
  BY DEF SpacedFiresRun, Spaced
<1>1. \A e \in checks : e <= asOf
  BY DEF HistoryOK
<1>2. d <= asOf /\ f < asOf /\ c \in checks
  BY <1>1
<1>3. ClearOfChecks(f)
  BY DEF ClearOfChecks
<1>4. CASE \E e \in checks : f < e
  BY <1>2, <1>3, <1>4 DEF SpacedFiresRun
<1>5. CASE \A e \in checks : e <= f
  BY <1>2, <1>3, <1>5, FoundDue
<1>. QED  BY <1>4, <1>5

(* The pace of a check that has just ended. *)
LEMMA EndKeepsPace ==
  ASSUME SInv, checks' = checks \cup {asOf}, Reach("wait"), UNCHANGED <<now, asOf>>,
         now <= asOf + Delay \/ (now <= asOf + 2 * Delay /\ Busy(asOf))
  PROVE  PaceOK' /\ HistoryOK'
<1>. USE TimesAssumption DEF SInv, IInv, TypeOK, Time
<1>1. Paced(asOf)'
  BY DEF Paced, Reach, Busy
<1>2. HistoryOK'
  BY DEF HistoryOK, Reach
<1>. QED  BY <1>1, <1>2 DEF PaceOK

(* The history stays, and with it what is said of it. *)
LEMMA SameHistory ==
  ASSUME SInv, UNCHANGED <<ran, checks, refused>>
  PROVE  SpacedFiresRun'
BY DEF SInv, SpacedFiresRun, ClearOfChecks, Spaced

(* Every step keeps the invariant. *)
LEMMA SpacedStep ==
  ASSUME SInv, [Next]_vars
  PROVE  SInv'
<1>. USE TimesAssumption DEF SInv, IInv, TypeOK, Time
<1>1. IInv'
  BY InvStep
<1>2. CASE Tick
  <2>1. HistoryOK' /\ CreatedOK'
    BY <1>2 DEF Tick, HistoryOK, CreatedOK
  <2>2. \A c \in checks : Paced(c) => Paced(c)'
    BY <1>2 DEF Tick, Paced, Busy
  <2>. QED  BY <1>1, <1>2, <2>1, <2>2, SameHistory DEF Tick, PaceOK
<1>3. CASE StartScheduler
  BY <1>1, <1>3
     DEF StartScheduler, BeginCheck, Reach, HistoryOK, PaceOK, CreatedOK, SpacedFiresRun
<1>4. CASE WakeUp
  <2>1. HistoryOK' /\ CreatedOK'
    BY <1>4 DEF WakeUp, BeginCheck, Reach, HistoryOK, CreatedOK
  <2>2. \A c \in checks : Paced(c) => Paced(c)'
    BY <1>4 DEF WakeUp, BeginCheck, Reach, Paced, Busy
  <2>. QED  BY <1>1, <1>4, <2>1, <2>2, SameHistory DEF WakeUp, BeginCheck, PaceOK
<1>5. CASE ReadClock
  <2>1. HistoryOK' /\ CreatedOK'
    BY <1>5 DEF ReadClock, Reach, ClockOK, HistoryOK, CreatedOK
  <2>2. \A c \in checks : Paced(c) => Paced(c)'
    BY <1>5 DEF ReadClock, Reach, ClockOK, Paced, Busy
  <2>. QED  BY <1>1, <1>5, <2>1, <2>2, SameHistory DEF ReadClock, Reach, PaceOK
<1>6. CASE Skip
  <2>1. PaceOK' /\ HistoryOK'
    BY <1>6, EndKeepsPace DEF Skip, EndCheck, HistoryOK
  <2>2. SpacedFiresRun'
    BY <1>6, EndKeepsSpaced DEF Skip, EndCheck
  <2>. QED  BY <1>1, <1>6, <2>1, <2>2 DEF Skip, CreatedOK
<1>7. CASE Decide
  <2>1. HistoryOK' /\ CreatedOK'
    BY <1>7 DEF Decide, Reach, HistoryOK, CreatedOK
  <2>2. \A c \in checks : Paced(c) => Paced(c)'
    BY <1>7 DEF Decide, Reach, Paced, Busy
  <2>. QED  BY <1>1, <1>7, <2>1, <2>2, SameHistory DEF Decide, Reach, PaceOK
<1>8. ASSUME step = "trigger", NEW f \in Fires, IsPrevFire(f),
             EndCheck, UNCHANGED <<now, asOf>>
      PROVE  /\ PaceOK' /\ HistoryOK' /\ now <= f + Interval + 2 * Delay /\ f < asOf
             /\ \A g \in Fires : Due(g) => g = f
  <2>1. f < asOf /\ asOf <= f + Interval
    BY <1>8 DEF DecisionOK, IsPrevFire
  <2>2. now <= asOf + 2 * Delay /\ Busy(asOf)
    BY <1>8, <2>1 DEF HistoryOK, Busy
  <2>3. PaceOK' /\ HistoryOK'
    BY <1>8, <2>2, EndKeepsPace DEF EndCheck
  <2>. QED  BY <1>8, <2>1, <2>2, <2>3, OnePrevFire DEF Due
<1>9. CASE Trigger
  <2>1. PICK f \in Fires : IsPrevFire(f) /\ ran' = [ran EXCEPT ![f] = @ + 1]
    BY <1>9 DEF Trigger
  <2>2. PICK at \in began..now : created' = created \cup {at}
    BY <1>9 DEF Trigger
  <2>3. /\ PaceOK' /\ HistoryOK' /\ now <= f + Interval + 2 * Delay /\ f < asOf
        /\ \A g \in Fires : Due(g) => g = f
    BY <1>8, <1>9, <2>1 DEF Trigger
  <2>4. ran'[f] >= 1 /\ \A g \in Fires : ran[g] >= 1 => ran'[g] >= 1
    BY <2>1
  <2>5. CreatedOK'
    <3>1. asOf' = asOf /\ at <= now /\ at \in Nat
      BY <1>9, <2>2 DEF Trigger
    <3>2. at <= f + Interval + 2 * Delay
      BY <2>3, <3>1
    <3>3. ASSUME NEW b \in created
          PROVE  \E g \in Fires : ran'[g] >= 1 /\ g < asOf /\ b <= g + Interval + 2 * Delay
      BY <2>4 DEF CreatedOK
    <3>. QED  BY <2>2, <2>3, <2>4, <3>1, <3>2, <3>3 DEF CreatedOK
  <2>6. SpacedFiresRun'
    BY <1>9, <2>3, <2>4, EndKeepsSpaced DEF Trigger, EndCheck
  <2>. QED  BY <1>1, <2>3, <2>5, <2>6
<1>10. CASE TriggerFails
  <2>1. PICK f \in Fires : IsPrevFire(f) /\ refused' = refused \cup {f}
    BY <1>10 DEF TriggerFails
  <2>2. PaceOK' /\ HistoryOK' /\ \A g \in Fires : Due(g) => g = f
    BY <1>8, <1>10, <2>1 DEF TriggerFails
  <2>3. SpacedFiresRun'
    BY <1>10, <2>1, <2>2, EndKeepsSpaced DEF TriggerFails, EndCheck
  <2>. QED  BY <1>1, <1>10, <2>2, <2>3 DEF TriggerFails, CreatedOK
<1>11. CASE ProcessExits
  BY <1>1, <1>11, SameHistory DEF ProcessExits, Reach, HistoryOK, PaceOK, CreatedOK
<1>12. CASE CheckFails
  BY <1>1, <1>12
     DEF CheckFails, Reach, HistoryOK, PaceOK, CreatedOK, SpacedFiresRun
<1>13. CASE DecideFails
  <2>1. PICK f \in Fires : Due(f) /\ refused' = refused \cup {f}
    BY <1>13 DEF DecideFails
  <2>2. \A g \in Fires : Due(g) => g = f
    BY <2>1, OnePrevFire DEF Due
  <2>3. PaceOK' /\ HistoryOK'
    BY <1>13, EndKeepsPace DEF DecideFails, EndCheck, HistoryOK
  <2>4. SpacedFiresRun'
    BY <1>13, <2>1, <2>2, EndKeepsSpaced DEF DecideFails, EndCheck
  <2>. QED  BY <1>1, <1>13, <2>3, <2>4 DEF DecideFails, CreatedOK
<1>14. CASE UNCHANGED vars
  <2>1. \A c \in checks : Paced(c) => Paced(c)'
    BY <1>14 DEF vars, Paced, Busy
  <2>. QED
    BY <1>1, <1>14, <2>1, SameHistory DEF vars, HistoryOK, PaceOK, CreatedOK
<1>. QED
  BY <1>2, <1>3, <1>4, <1>5, <1>6, <1>7, <1>9, <1>10, <1>11, <1>12, <1>13,
     <1>14 DEF Next

(* A fire time that is spaced from the others and clear of a check's overhead gets
   its run from the scheduler, unless the check that should give it one raised:
   for every schedule, interval and delay, and whatever the restarts.      *)
THEOREM SpacedFiresGetRuns == Spec => []SpacedFiresRun
<1>1. Init => SInv
  BY InvInit DEF Init, SInv, HistoryOK, PaceOK, CreatedOK, SpacedFiresRun
<1>2. SInv /\ [Next]_vars => SInv'
  BY SpacedStep
<1>3. SInv => SpacedFiresRun
  BY DEF SInv
<1>. QED  BY <1>1, <1>2, <1>3, PTL DEF Spec
=============================================================================
