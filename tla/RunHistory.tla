----------------------------- MODULE RunHistory -----------------------------
(***************************************************************************)
(* The run history of the pipeline editor: a query that polls only while   *)
(* it shows a run at work, and the Retry and Cancel buttons of its rows.   *)
(* What a retry starts is therefore not polled for until the list has been *)
(* fetched once more: the retry's answer does that.                        *)
(*                                                                         *)
(* Bound: the runs there can be; one retry and one cancellation at a time, *)
(* which is the code's own limit during a visit.                           *)
(***************************************************************************)
CONSTANTS
  Runs,         (* bound: the identities of runs                               *)
  None          (* no run                                                      *)

HistoryAssumption == None \notin Runs

VARIABLES
  run,          (* the runs at the server, by status                           *)
  visited,      (* the editor page is open                                     *)
  runs,         (* the data of the query ["pipeline-runs", id]                 *)
  runsFetch,    (* "idle", "sent" or "read"                                    *)
  runsAnswer,   (* what the server read                                        *)
  retry,        (* retryMutation: its stage, the run, and the one it starts    *)
  cancel,       (* cancelMutation: its stage and the run                       *)
  followed      (* history: the run that an answered retry has started         *)

vars == <<run, visited, runs, runsFetch, runsAnswer, retry, cancel, followed>>

(* Pending or running; failed or cancelled; completed.                         *)
Shots == [Runs -> {"none", "active", "retryable", "completed"}]
NoShot == [r \in Runs |-> "none"]
Idle == [stage |-> "idle", of |-> None, new |-> None]

TypeOK ==
  /\ {run, runs, runsAnswer} \subseteq Shots
  /\ visited \in BOOLEAN /\ runsFetch \in {"idle", "sent", "read"}
  /\ {retry, cancel} \subseteq [stage : {"idle", "sent", "done", "refused"},
                                of : Runs \cup {None}, new : Runs \cup {None}]
  /\ followed \in Runs \cup {None}

Init ==
  /\ run \in [Runs -> {"none", "retryable"}]
  /\ visited = FALSE /\ runs = NoShot /\ runsFetch = "idle" /\ runsAnswer = NoShot
  /\ retry = Idle /\ cancel = Idle /\ followed = None

hasActive == \E r \in Runs : runs[r] = "active"

----------------------------------------------------------------------------
(* The query.                                                                  *)

Ask ==
  /\ runsFetch = "idle" /\ runsFetch' = "sent"
  /\ UNCHANGED <<run, visited, runs, runsAnswer, retry, cancel, followed>>

Poll == visited /\ hasActive /\ Ask

(* The window regains the focus, or the button Run is answered.                *)
Refocus == visited /\ Ask

ServerReads ==
  /\ runsFetch = "sent" /\ runsFetch' = "read" /\ runsAnswer' = run
  /\ UNCHANGED <<run, visited, runs, retry, cancel, followed>>

(* A run that is shown ended need not be followed any more.                    *)
RunsAnswered ==
  /\ runsFetch = "read" /\ runsFetch' = "idle" /\ runs' = runsAnswer /\ runsAnswer' = NoShot
  /\ followed' = IF followed # None /\ runsAnswer[followed] \in {"retryable", "completed"}
                   THEN None ELSE followed
  /\ UNCHANGED <<run, visited, retry, cancel>>

RunsFail ==
  /\ runsFetch = "read" /\ runsFetch' = "idle" /\ runsAnswer' = NoShot
  /\ followed' = None
  /\ UNCHANGED <<run, visited, runs, retry, cancel>>

(* Data that is absent or stale is fetched.                                    *)
OpenEditor ==
  /\ ~visited /\ visited' = TRUE
  /\ runsFetch' \in (IF runsFetch # "idle" THEN {runsFetch}
                     ELSE IF runs = NoShot THEN {"sent"} ELSE {"idle", "sent"})
  /\ UNCHANGED <<run, runs, runsAnswer, retry, cancel, followed>>

LeaveEditor ==
  /\ visited /\ visited' = FALSE /\ followed' = None
  /\ UNCHANGED <<run, runs, runsFetch, runsAnswer, retry, cancel>>

----------------------------------------------------------------------------
(* The buttons of the rows.                                                    *)

handleRetry(r) ==
  /\ visited /\ runs[r] = "retryable" /\ retry = Idle
  /\ retry' = [Idle EXCEPT !.stage = "sent", !.of = r]
  /\ UNCHANGED <<run, visited, runs, runsFetch, runsAnswer, cancel, followed>>

handleCancel(r) ==
  /\ visited /\ runs[r] = "active" /\ cancel = Idle
  /\ cancel' = [Idle EXCEPT !.stage = "sent", !.of = r]
  /\ UNCHANGED <<run, visited, runs, runsFetch, runsAnswer, retry, followed>>

(* A new run of the pipeline, unless the old one has not ended.                *)
retry_run(new) ==
  /\ retry.stage = "sent" /\ run[retry.of] = "retryable" /\ run[new] = "none"
  /\ run' = [run EXCEPT ![new] = "active"]
  /\ retry' = [retry EXCEPT !.stage = "done", !.new = new]
  /\ UNCHANGED <<visited, runs, runsFetch, runsAnswer, cancel, followed>>

(* Refused if the run has ended meanwhile.                                     *)
cancel_run ==
  /\ cancel.stage = "sent"
  /\ IF run[cancel.of] = "active"
       THEN /\ run' = [run EXCEPT ![cancel.of] = "retryable"]
            /\ cancel' = [cancel EXCEPT !.stage = "done"]
       ELSE cancel' = [cancel EXCEPT !.stage = "refused"] /\ UNCHANGED run
  /\ UNCHANGED <<visited, runs, runsFetch, runsAnswer, retry, followed>>

(* Fetched again in place of a fetch under way, if the page shows it.          *)
Invalidate ==
  IF visited THEN runsFetch' = "sent" /\ runsAnswer' = NoShot
             ELSE UNCHANGED <<runsFetch, runsAnswer>>

(* Variant: the list is left to its polling.                                   *)
RetryAnsweredQuietly ==
  /\ retry.stage = "done" /\ retry' = Idle
  /\ followed' = IF visited THEN retry.new ELSE None
  /\ UNCHANGED <<run, visited, runs, runsFetch, runsAnswer, cancel>>

RetryAnswered ==
  /\ retry.stage = "done" /\ retry' = Idle
  /\ followed' = IF visited THEN retry.new ELSE None
  /\ Invalidate
  /\ UNCHANGED <<run, visited, runs, cancel>>

CancelAnswered ==
  /\ cancel.stage = "done" /\ cancel' = Idle
  /\ Invalidate
  /\ UNCHANGED <<run, visited, runs, retry, followed>>

(* Refused, or lost on one of its ways: the list stays as it is.               *)
ButtonFails ==
  /\ \/ retry # Idle /\ retry' = Idle /\ UNCHANGED cancel
     \/ cancel # Idle /\ cancel' = Idle /\ UNCHANGED retry
  /\ UNCHANGED <<run, visited, runs, runsFetch, runsAnswer, followed>>

RunStarts(r) ==
  /\ run[r] = "none" /\ run' = [run EXCEPT ![r] = "active"]
  /\ UNCHANGED <<visited, runs, runsFetch, runsAnswer, retry, cancel, followed>>

RunEnds(r) ==
  /\ run[r] = "active"
  /\ \E status \in {"retryable", "completed"} : run' = [run EXCEPT ![r] = status]
  /\ UNCHANGED <<visited, runs, runsFetch, runsAnswer, retry, cancel, followed>>

Next ==
  \/ Poll \/ Refocus \/ ServerReads \/ RunsAnswered \/ RunsFail
  \/ OpenEditor \/ LeaveEditor
  \/ cancel_run \/ RetryAnswered \/ CancelAnswered \/ ButtonFails
  \/ \E r \in Runs : handleRetry(r) \/ handleCancel(r) \/ retry_run(r) \/ RunStarts(r) \/ RunEnds(r)

(* The interval expires, a fetch is answered or fails, and a run ends.         *)
Fairness ==
  /\ WF_vars(Poll) /\ WF_vars(ServerReads) /\ WF_vars(RunsAnswered)
  /\ WF_vars(\E r \in Runs : RunEnds(r))

Spec == Init /\ [][Next]_vars
FairSpec == Spec /\ Fairness

----------------------------------------------------------------------------
(* Properties.                                                                 *)

(* A run that an answered retry has started is shown, and shown ended in the   *)
(* end, unless the page is left or a fetch fails: the retry's answer starts    *)
(* the polling that the ended runs did not need, and it is not lost to a fetch *)
(* that was under way.                                                         *)
RetryFollowed == []<>(followed = None)
=============================================================================
