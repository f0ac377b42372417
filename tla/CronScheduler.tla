--------------------------- MODULE CronScheduler ----------------------------
(***************************************************************************)
(* The cron half of the scheduler thread (scheduler_service.py) for one    *)
(* scheduled pipeline.  Time is discrete.  A check reads the clock once,   *)
(* asks whether the schedule's previous fire time lies within one interval *)
(* and whether a scheduled run is recent, and creates a run; each of these *)
(* takes time, during which the clock the check works with grows stale, and *)
(* each of its queries may raise: the loop logs the error and waits again. *)
(***************************************************************************)
EXTENDS Naturals

CONSTANTS
  Interval,  (* CHECK_INTERVAL_SECONDS                                        *)
  Delay,     (* bound: how long the thread may take to its next step          *)
  Fires,     (* the instants at which the cron expression fires               *)
  MaxTime    (* bound on the clock                                            *)

ASSUME TimesAssumption ==
  /\ Interval \in Nat \ {0} /\ Delay \in Nat /\ MaxTime \in Nat
  /\ Delay <= Interval
  /\ Fires \subseteq Nat

VARIABLES
  now,      (* the clock                                                      *)
  step,     (* where the scheduler thread is                                  *)
  since,    (* when it got there                                              *)
  began,    (* start of the database transaction of the current check         *)
  asOf,     (* the check's local variable now                                 *)
  created,  (* created_at of the runs with triggered_by = "schedule"          *)
  ran,      (* history: number of runs created for each fire time             *)
  checks,   (* history: asOf of the checks ended since the thread was started
               or a check last raised before it read the clock                *)
  refused   (* history: fire times given up on when a query or start_run raised *)

vars == <<now, step, since, began, asOf, created, ran, checks, refused>>

Time == 0..MaxTime

TypeOK ==
  /\ now \in Time
  /\ step \in {"down", "wait", "clock", "decide", "trigger"}
  /\ since \in Time /\ began \in Time /\ asOf \in Time
  /\ created \in SUBSET Time
  /\ ran \in [Fires -> Nat]
  /\ checks \in SUBSET Time
  /\ refused \in SUBSET Fires

Init ==
  /\ now = 0 /\ step = "down" /\ since = 0 /\ began = 0 /\ asOf = 0
  /\ created = {} /\ ran = [f \in Fires |-> 0] /\ checks = {} /\ refused = {}

Reach(next) == step' = next /\ since' = now

(* Time passes; a running thread takes its next step within Delay. *)
Tick ==
  /\ now < MaxTime
  /\ step = "wait" => now < since + Interval + Delay
  /\ step \in {"clock", "decide", "trigger"} => now < since + Delay
  /\ now' = now + 1
  /\ UNCHANGED <<step, since, began, asOf, created, ran, checks, refused>>

(* The first query opens the transaction: func.now() is its start time. *)
BeginCheck ==
  /\ began' = now
  /\ Reach("clock")
  /\ UNCHANGED <<now, asOf, created, ran, refused>>

(* start_scheduler checks at once; the loop after each wait of one interval. *)
StartScheduler == step = "down" /\ BeginCheck /\ checks' = {}

WakeUp == step = "wait" /\ now >= since + Interval /\ BeginCheck /\ UNCHANGED checks

(* The query for the scheduled pipelines raises: nothing was looked at, the loop
   logs "Scheduler loop error" and waits an interval.                      *)
CheckFails ==
  /\ step = "clock"
  /\ Reach("wait")
  /\ checks' = {}
  /\ UNCHANGED <<now, began, asOf, created, ran, refused>>

ReadClock ==
  /\ step = "clock"
  /\ asOf' = now
  /\ Reach("decide")
  /\ UNCHANGED <<now, began, created, ran, checks, refused>>

(* croniter.get_prev: the last fire time strictly before the check's clock. *)
IsPrevFire(f) == f < asOf /\ \A g \in Fires : g < asOf => g <= f

(* Variant: a fire time one interval ago is not due any more. *)
DueWithin(f) == IsPrevFire(f) /\ asOf - f < Interval

Due(f) == IsPrevFire(f) /\ asOf - f <= Interval

(* Variant: a run counts as recent within one interval only. *)
RecentWithinInterval == \E c \in created : asOf < c + Interval

(* The latest scheduled run is younger than two intervals. *)
RecentRun == \E c \in created : asOf < c + 2 * Interval

EndCheck == checks' = checks \cup {asOf} /\ Reach("wait")

Skip ==
  /\ step = "decide"
  /\ ~(\E f \in Fires : Due(f)) \/ RecentRun
  /\ EndCheck
  /\ UNCHANGED <<now, began, asOf, created, ran, refused>>

(* The query for the pipeline's recent runs raises: logged for this pipeline, and
   the fire time that was due is given up on.                              *)
DecideFails ==
  /\ step = "decide"
  /\ \E f \in Fires : Due(f) /\ refused' = refused \cup {f}
  /\ EndCheck
  /\ UNCHANGED <<now, began, asOf, created, ran>>

Decide ==
  /\ step = "decide"
  /\ \E f \in Fires : Due(f)
  /\ ~RecentRun
  /\ Reach("trigger")
  /\ UNCHANGED <<now, began, asOf, created, ran, checks, refused>>

(* start_run's first commit: created_at is the start of the transaction, which
   is the check's unless another pipeline's run was committed in between.   *)
Trigger ==
  /\ step = "trigger"
  /\ \E f \in Fires :
       /\ IsPrevFire(f)
       /\ ran' = [ran EXCEPT ![f] = @ + 1]
  /\ \E at \in began..now : created' = created \cup {at}
  /\ EndCheck
  /\ UNCHANGED <<now, began, asOf, refused>>

(* It raises before that commit: logged, and the loop goes on. *)
TriggerFails ==
  /\ step = "trigger"
  /\ \E f \in Fires : IsPrevFire(f) /\ refused' = refused \cup {f}
  /\ EndCheck
  /\ UNCHANGED <<now, began, asOf, created, ran>>

(* The process goes down with its daemon thread, wherever that is. *)
ProcessExits ==
  /\ step # "down"
  /\ Reach("down")
  /\ UNCHANGED <<now, began, asOf, created, ran, checks, refused>>

Next ==
  \/ Tick \/ StartScheduler \/ WakeUp \/ CheckFails \/ ReadClock
  \/ Skip \/ DecideFails \/ Decide \/ Trigger \/ TriggerFails \/ ProcessExits

Spec == Init /\ [][Next]_vars

-----------------------------------------------------------------------------
(* Properties. *)

(* "Avoid duplicate runs": no fire time gives rise to two runs, although two
   checks can find the same one due and created_at may lie before either
   check's clock.                                                          *)
AtMostOneRunPerFire == \A f \in Fires : ran[f] <= 1

(* No scheduled run for an earlier fire time is recent by now, and no later one
   hides this one from the check.                                          *)
Spaced(f) ==
  \A g \in Fires :
    /\ g < f => g + 3 * Interval + 2 * Delay <= f
    /\ g > f => g >= f + Interval

(* A check's own overhead, at most Delay for each of its steps, is not part of
   the interval it looks back on.                                          *)
ClearOfChecks(f) == \A c \in checks : c <= f => c + 3 * Delay <= f

(* What looking back one interval does guarantee: a fire time after a check and
   clear of its overhead, and spaced from the other fire times, has its run
   when the next check has ended, unless the check between raised: in its first
   query (checks is empty then), or once the fire time was found due.      *)
SpacedFiresRun ==
  \A c, d \in checks, f \in Fires :
    c <= f /\ f < d /\ ClearOfChecks(f) /\ Spaced(f) => ran[f] >= 1 \/ f \in refused

(* scheduler_service.py: a previous fire time within the last interval "means
   the cron was due in this check window": a fire time between two checks of a
   scheduler that was neither restarted nor raised gets its run.           *)
EveryFireRuns ==
  \A c, d \in checks, f \in Fires :
    c <= f /\ f < d => ran[f] >= 1 \/ f \in refused
=============================================================================
