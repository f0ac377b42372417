------------------------------ MODULE CDCList ------------------------------
(***************************************************************************)
(* The list of the CDC page: the query it shows, the menu of each row, and *)
(* which job's logs the panel below it shows.  Nothing tells the page what *)
(* the workers, the scheduler or another tab do: the list is fetched again *)
(* only after the page's own requests are answered, when the window        *)
(* regains the focus, and at a visit if it is old.                         *)
(*                                                                         *)
(* A job is seen by whether it exists and whether it is running.  Bounds:  *)
(* the jobs, none of which is added meanwhile (CDCJobForm), and the        *)
(* requests under way together.                                            *)
(***************************************************************************)
CONSTANTS
  Jobs,
  Slots,        (* bound: the requests under way together                      *)
  None

ListAssumption == None \notin Jobs

VARIABLES
  row,          (* the jobs at the server                                      *)
  listed,       (* the data of the query ["cdc-jobs"]                          *)
  jobsFetch,    (* its fetch: "idle", "sent" or "read" (by the server)         *)
  jobsAnswer,   (* what the server read                                        *)
  broken,       (* its error: the last fetch failed                            *)
  onPage,       (* the page is mounted                                         *)
  panel,        (* logsJobId                                                   *)
  command,      (* the requests under way                                      *)
  excused,      (* history: nothing will close the panel of the job deleted    *)
  outdated      (* history: since the server read the list a job was changed   *)
                (* elsewhere, or a fetch failed, or the page was not told of a *)
                (* request that was served                                     *)

queryVars == <<listed, jobsFetch, jobsAnswer, broken>>
vars == <<row, queryVars, onPage, panel, command, excused, outdated>>

Statuses == {"idle", "running", "gone"}
Shots == [Jobs -> Statuses]
NoShot == [j \in Jobs |-> "none"]
Free == [kind |-> "free", job |-> None, done |-> FALSE, here |-> FALSE, closes |-> FALSE]

TypeOK ==
  /\ row \in Shots /\ listed \in Shots \cup {NoShot} /\ jobsAnswer \in Shots \cup {NoShot}
  /\ jobsFetch \in {"idle", "sent", "read"} /\ broken \in BOOLEAN /\ onPage \in BOOLEAN
  /\ panel \in Jobs \cup {None}
  /\ command \in [Slots -> [kind : {"free", "sync", "snapshot", "delete"}, job : Jobs \cup {None},
                            done : BOOLEAN, here : BOOLEAN, closes : BOOLEAN]]
  /\ excused \in BOOLEAN /\ outdated \in BOOLEAN

Init ==
  /\ row \in [Jobs -> {"idle", "running"}]
  /\ listed = NoShot /\ jobsFetch = "sent" /\ jobsAnswer = NoShot /\ broken = FALSE
  /\ onPage = TRUE /\ panel = None /\ command = [s \in Slots |-> Free]
  /\ excused = FALSE /\ outdated = FALSE

Pending(kind) == \E s \in Slots : command[s].kind = kind /\ command[s].here
Deleting(j) == \E s \in Slots : command[s].kind = "delete" /\ command[s].job = j

(* The table shows the error in place of the rows.                             *)
Visible(j) == onPage /\ ~broken /\ listed[j] \notin {"none", "gone"}

----------------------------------------------------------------------------
(* The query.                                                                  *)

ServerReads ==
  /\ jobsFetch = "sent" /\ jobsFetch' = "read" /\ jobsAnswer' = row /\ outdated' = FALSE
  /\ UNCHANGED <<row, listed, broken, onPage, panel, command, excused>>

ListAnswered ==
  /\ jobsFetch = "read" /\ jobsFetch' = "idle" /\ listed' = jobsAnswer /\ jobsAnswer' = NoShot
  /\ broken' = FALSE
  /\ UNCHANGED <<row, onPage, panel, command, excused, outdated>>

(* It is tried once more, and then given up.                                   *)
ListFails ==
  /\ jobsFetch # "idle" /\ jobsAnswer' = NoShot /\ outdated' = TRUE
  /\ \/ jobsFetch' = "sent" /\ UNCHANGED broken
     \/ jobsFetch' = "idle" /\ broken' = TRUE
  /\ UNCHANGED <<row, listed, onPage, panel, command, excused>>

(* The window regains the focus.                                               *)
Refetch ==
  /\ onPage /\ jobsFetch = "idle" /\ jobsFetch' = "sent"
  /\ UNCHANGED <<row, listed, jobsAnswer, broken, onPage, panel, command, excused, outdated>>

(* Fetched when it has no data or old data.                                    *)
Mount ==
  /\ ~onPage /\ onPage' = TRUE
  /\ jobsFetch' \in (IF jobsFetch # "idle" THEN {jobsFetch}
                     ELSE IF listed = NoShot THEN {"sent"} ELSE {"idle", "sent"})
  /\ UNCHANGED <<row, listed, jobsAnswer, broken, panel, command, excused, outdated>>

(* The logs are closed, and the callbacks of the requests forgotten.           *)
Leave ==
  /\ onPage /\ onPage' = FALSE /\ panel' = None
  /\ command' = [s \in Slots |-> [command[s] EXCEPT !.here = FALSE]]
  /\ UNCHANGED <<row, queryVars, excused, outdated>>

(* Variant: a fetch under way is left to answer.                               *)
InvalidateIdle ==
  /\ jobsFetch' = (IF jobsFetch = "idle" THEN "sent" ELSE jobsFetch)
  /\ UNCHANGED <<jobsAnswer, outdated>>

(* Fetched again in place of a fetch under way, as there is data: requests are *)
(* made from it.  At the next visit, or never, if the page is gone.            *)
Invalidate ==
  IF onPage THEN jobsFetch' = "sent" /\ jobsAnswer' = NoShot /\ UNCHANGED outdated
            ELSE outdated' = TRUE /\ UNCHANGED <<jobsFetch, jobsAnswer>>

----------------------------------------------------------------------------
(* The menu of a row.                                                          *)

Send(s, kind, j) ==
  /\ Visible(j) /\ command[s] = Free
  /\ command' = [command EXCEPT ![s] = [kind |-> kind, job |-> j, done |-> FALSE, here |-> TRUE,
                                        closes |-> FALSE]]
  /\ UNCHANGED <<row, queryVars, onPage, panel, excused, outdated>>

handleSync(s, j) == listed[j] # "running" /\ ~Pending("sync") /\ Send(s, "sync", j)
handleSnapshot(s, j) == listed[j] # "running" /\ ~Pending("snapshot") /\ Send(s, "snapshot", j)

(* The callback sees logsJobId as of this click; the callbacks of a deletion   *)
(* still under way are forgotten.                                              *)
handleDelete(s, j) ==
  /\ Visible(j) /\ command[s] = Free
  /\ command' = [t \in Slots |->
       IF t = s THEN [kind |-> "delete", job |-> j, done |-> FALSE, here |-> TRUE,
                      closes |-> panel = j]
                ELSE [command[t] EXCEPT !.here = @ /\ command[t].kind # "delete"]]
  /\ excused' = (excused \/ Deleting(panel))
  /\ UNCHANGED <<row, queryVars, onPage, panel, outdated>>

ToggleLogs(j) ==
  /\ Visible(j)
  /\ panel' = IF panel = j THEN None ELSE j
  /\ excused' = (panel # j /\ (Deleting(j) \/ row[j] = "gone"))
  /\ UNCHANGED <<row, queryVars, onPage, command, outdated>>

----------------------------------------------------------------------------
(* The server, and what its answers do.                                        *)

Handled(s) == command' = [command EXCEPT ![s].done = TRUE]

ServerTriggers(s) ==
  /\ command[s].kind \in {"sync", "snapshot"} /\ ~command[s].done /\ row[command[s].job] # "gone"
  /\ row' = [row EXCEPT ![command[s].job] = "running"]
  /\ Handled(s)
  /\ UNCHANGED <<queryVars, onPage, panel, excused, outdated>>

ServerDeletes(s) ==
  /\ command[s].kind = "delete" /\ ~command[s].done /\ row[command[s].job] # "gone"
  /\ row' = [row EXCEPT ![command[s].job] = "gone"]
  /\ Handled(s)
  /\ UNCHANGED <<queryVars, onPage, panel, excused, outdated>>

(* A sync or snapshot ends; the scheduler, start and stop, the buttons of the  *)
(* drawer, another tab.                                                        *)
ChangedElsewhere(j, status) ==
  /\ row[j] \notin {"gone", status} /\ row' = [row EXCEPT ![j] = status]
  /\ outdated' = TRUE /\ excused' = (excused \/ (status = "gone" /\ panel = j))
  /\ UNCHANGED <<queryVars, onPage, panel, command>>

TriggerAnswered(s) ==
  /\ command[s].kind \in {"sync", "snapshot"} /\ command[s].done
  /\ Invalidate /\ command' = [command EXCEPT ![s] = Free]
  /\ UNCHANGED <<row, listed, broken, onPage, panel, excused>>

(* Variant: the panel is left open.                                            *)
DeleteAnsweredOnly(s) ==
  /\ command[s].kind = "delete" /\ command[s].done
  /\ Invalidate /\ command' = [command EXCEPT ![s] = Free]
  /\ UNCHANGED <<row, listed, broken, onPage, panel, excused>>

DeleteAnswered(s) ==
  /\ command[s].kind = "delete" /\ command[s].done
  /\ Invalidate /\ command' = [command EXCEPT ![s] = Free]
  /\ panel' = IF command[s].here /\ command[s].closes THEN None ELSE panel
  /\ UNCHANGED <<row, listed, broken, onPage, excused>>

(* Refused, as for a job that is gone; raised by a trigger that has committed  *)
(* RUNNING and cannot dispatch; or lost, served or not.  A notice tells of it, *)
(* and nothing else happens.                                                   *)
RequestFails(s) ==
  /\ command[s].kind # "free" /\ command' = [command EXCEPT ![s] = Free]
  /\ outdated' = (outdated \/ command[s].done)
  /\ excused' = (excused \/ (command[s].done /\ command[s].kind = "delete"
                                /\ command[s].job = panel))
  /\ UNCHANGED <<row, queryVars, onPage, panel>>

Next ==
  \/ ServerReads \/ ListAnswered \/ ListFails \/ Refetch \/ Mount \/ Leave
  \/ \E j \in Jobs : ToggleLogs(j)
  \/ \E j \in Jobs, status \in Statuses : ChangedElsewhere(j, status)
  \/ \E s \in Slots : ServerTriggers(s) \/ ServerDeletes(s) \/ TriggerAnswered(s)
                      \/ DeleteAnswered(s) \/ RequestFails(s)
  \/ \E s \in Slots, j \in Jobs : handleSync(s, j) \/ handleSnapshot(s, j) \/ handleDelete(s, j)

Spec == Init /\ [][Next]_vars

----------------------------------------------------------------------------
(* Properties.                                                                 *)

(* The panel does not go on showing the logs of a job that the page deleted:   *)
(* the answer of the deletion closes it, whatever was toggled, answered or     *)
(* fetched on the way.  The exceptions are those the callback cannot see: the  *)
(* panel was opened on the job after the click, a further deletion was started *)
(* meanwhile, the answer was lost, or somebody else deleted the job.           *)
NoPanelOfDeleted ==
  panel # None /\ row[panel] = "gone" => Deleting(panel) \/ excused

(* With nothing under way the list shows what is stored, whatever requests and *)
(* fetches crossed on the way, unless since the server read it a job changed   *)
(* elsewhere, a fetch failed, or a request was served whose answer was lost or *)
(* came when the page was gone.                                                *)
ListCatchesUp ==
  jobsFetch = "idle" /\ (\A s \in Slots : command[s] = Free) /\ ~outdated => listed = row
=============================================================================
