------------------------------ MODULE SyncLogs ------------------------------
(***************************************************************************)
(* The sync logs of one job as the panel and the drawer of the CDC page    *)
(* show them: one query, polled while one of its logs is seen running, and *)
(* the drawer's own buttons, which send a sync whatever the job is doing.  *)
(*                                                                         *)
(* Bound: the job's syncs are MaxSyncs at most.                            *)
(***************************************************************************)
EXTENDS Naturals

CONSTANT MaxSyncs   (* bound: syncs of the job                                 *)

SyncAssumption == MaxSyncs \in Nat

VARIABLES
  started, finished,  (* how many syncs there have been, and have ended        *)
  logsShown,          (* where the logs are shown: "panel", "drawer"           *)
  logs,               (* the logs in the query: all and ended ones             *)
  logsFetch,          (* "idle", "sent" or "read"                              *)
  logsAnswer,         (* what the server read                                  *)
  sync                (* the drawer's request: "idle", "sent" or "done"        *)

vars == <<started, finished, logsShown, logs, logsFetch, logsAnswer, sync>>

Logs == (0..MaxSyncs) \X (0..MaxSyncs)
NoLogs == <<0, 0>>

TypeOK ==
  /\ started \in 0..MaxSyncs /\ finished \in 0..started
  /\ logsShown \subseteq {"panel", "drawer"}
  /\ logs \in Logs /\ logsAnswer \in Logs
  /\ logsFetch \in {"idle", "sent", "read"} /\ sync \in {"idle", "sent", "done"}

Init ==
  /\ started = 0 /\ finished = 0 /\ logsShown = {}
  /\ logs = NoLogs /\ logsFetch = "idle" /\ logsAnswer = NoLogs /\ sync = "idle"

hasRunning == logs[1] # logs[2]

(* Data that is absent or stale is fetched when it is shown.                   *)
Show(where) ==
  /\ where \notin logsShown /\ logsShown' = logsShown \cup {where}
  /\ \/ logsFetch = "idle" /\ logsFetch' = "sent"
     \/ (logsFetch # "idle" \/ logs # NoLogs) /\ UNCHANGED logsFetch
  /\ UNCHANGED <<started, finished, logs, logsAnswer, sync>>

Hide(where) ==
  /\ where \in logsShown /\ logsShown' = logsShown \ {where}
  /\ UNCHANGED <<started, finished, logs, logsFetch, logsAnswer, sync>>

(* Variant: every log must be running.                                         *)
PollEvery ==
  /\ logsShown # {} /\ hasRunning /\ logs[2] = 0 /\ logsFetch = "idle" /\ logsFetch' = "sent"
  /\ UNCHANGED <<started, finished, logsShown, logs, logsAnswer, sync>>

(* refetchInterval: every two seconds while a log is running.                  *)
Poll ==
  /\ logsShown # {} /\ hasRunning /\ logsFetch = "idle" /\ logsFetch' = "sent"
  /\ UNCHANGED <<started, finished, logsShown, logs, logsAnswer, sync>>

ServerReads ==
  /\ logsFetch = "sent" /\ logsFetch' = "read" /\ logsAnswer' = <<started, finished>>
  /\ UNCHANGED <<started, finished, logsShown, logs, sync>>

LogsAnswered ==
  /\ logsFetch = "read" /\ logsFetch' = "idle" /\ logs' = logsAnswer /\ logsAnswer' = NoLogs
  /\ UNCHANGED <<started, finished, logsShown, sync>>

(* The data is kept, and the interval goes on.                                 *)
FetchFails ==
  /\ logsFetch = "read" /\ logsFetch' = "idle" /\ logsAnswer' = NoLogs
  /\ UNCHANGED <<started, finished, logsShown, logs, sync>>

ClickSync ==
  /\ "drawer" \in logsShown /\ sync = "idle" /\ sync' = "sent"
  /\ UNCHANGED <<started, finished, logsShown, logs, logsFetch, logsAnswer>>

(* The request from here, one from the list, another tab or a watcher.         *)
SyncStarts ==
  /\ started < MaxSyncs /\ started' = started + 1
  /\ \/ sync = "sent" /\ sync' = "done"
     \/ UNCHANGED sync
  /\ UNCHANGED <<finished, logsShown, logs, logsFetch, logsAnswer>>

SyncEnds ==
  /\ finished < started /\ finished' = finished + 1
  /\ UNCHANGED <<started, logsShown, logs, logsFetch, logsAnswer, sync>>

(* Logs that are shown are fetched again, in place of a fetch under way.       *)
SyncAnswered ==
  /\ sync = "done" /\ sync' = "idle"
  /\ IF logsShown # {} THEN logsFetch' = "sent" /\ logsAnswer' = NoLogs
                       ELSE UNCHANGED <<logsFetch, logsAnswer>>
  /\ UNCHANGED <<started, finished, logsShown, logs>>

SyncRefused ==
  /\ sync = "sent" /\ sync' = "idle"
  /\ UNCHANGED <<started, finished, logsShown, logs, logsFetch, logsAnswer>>

Next ==
  \/ \E where \in {"panel", "drawer"} : Show(where) \/ Hide(where)
  \/ Poll \/ ServerReads \/ LogsAnswered \/ FetchFails
  \/ ClickSync \/ SyncStarts \/ SyncEnds \/ SyncAnswered \/ SyncRefused

(* The poll's timer expires; a fetch is not lost for ever; a sync ends.        *)
Fairness ==
  /\ WF_vars(Poll) /\ WF_vars(ServerReads) /\ SF_vars(LogsAnswered) /\ WF_vars(SyncEnds)

Spec == Init /\ [][Next]_vars
FairSpec == Spec /\ Fairness

----------------------------------------------------------------------------
(* Properties.                                                                 *)

(* A log shown as running is shown ended in the end, although fetches fail and *)
(* further syncs start, as long as the logs are shown.                         *)
RunningLogsSettle == []<>(logsShown = {} \/ ~hasRunning)
=============================================================================
