---------------------------- MODULE PipelineList ----------------------------
(***************************************************************************)
(* The list of pipelines: a query that is kept when the page is left and   *)
(* fetched again when it is old, the status filter over it, and the        *)
(* deletion of a row.  The editor's saves and runs change pipelines        *)
(* without a word to this query.                                           *)
(*                                                                         *)
(* Bounds: the pipelines, and the deletions under way together.            *)
(***************************************************************************)
CONSTANTS
  Pipelines,
  Slots,        (* bound: the deletions under way together                     *)
  None

VARIABLES
  pipeline,     (* the pipelines at the server: their status, or "gone"        *)
  pipelines,    (* the data of the query, "gone" for one that is not there     *)
  loaded,       (* it has data                                                 *)
  listFetch,    (* "idle", "sent" or "read"                                    *)
  listAnswer,   (* what the server read                                        *)
  mounted,
  statusFilter,
  deletion,     (* the deletions under way                                     *)
  unseen        (* history: a pipeline was changed elsewhere since it was read *)

queryVars == <<pipelines, loaded, listFetch, listAnswer>>
vars == <<pipeline, queryVars, mounted, statusFilter, deletion, unseen>>

Statuses == {"draft", "valid"}
Shots == [Pipelines -> Statuses \cup {"gone"}]
Nothing == [p \in Pipelines |-> "gone"]
Free == [of |-> None, done |-> FALSE]

TypeOK ==
  /\ pipeline \in Shots /\ pipelines \in Shots /\ listAnswer \in Shots
  /\ loaded \in BOOLEAN /\ mounted \in BOOLEAN /\ unseen \in BOOLEAN
  /\ listFetch \in {"idle", "sent", "read"} /\ statusFilter \in Statuses \cup {"all"}
  /\ deletion \in [Slots -> [of : Pipelines \cup {None}, done : BOOLEAN]]

Init ==
  /\ pipeline \in [Pipelines -> {"draft", "gone"}]
  /\ pipelines = Nothing /\ loaded = FALSE /\ listFetch = "idle" /\ listAnswer = Nothing
  /\ mounted = FALSE /\ statusFilter = "all"
  /\ deletion = [s \in Slots |-> Free] /\ unseen = FALSE

(* The rows the table gets.                                                    *)
rows == {p \in Pipelines : pipelines[p] # "gone" /\ statusFilter \in {"all", pipelines[p]}}

(* Fetched when it has no data or old data.                                    *)
Mount ==
  /\ ~mounted /\ mounted' = TRUE /\ statusFilter' = "all"
  /\ listFetch' \in (IF listFetch # "idle" THEN {listFetch}
                     ELSE IF loaded THEN {"idle", "sent"} ELSE {"sent"})
  /\ UNCHANGED <<pipeline, pipelines, loaded, listAnswer, deletion, unseen>>

Leave ==
  /\ mounted /\ mounted' = FALSE
  /\ UNCHANGED <<pipeline, queryVars, statusFilter, deletion, unseen>>

SetFilter(f) ==
  /\ mounted /\ statusFilter' = f
  /\ UNCHANGED <<pipeline, queryVars, mounted, deletion, unseen>>

(* The window regains the focus.                                               *)
Refocus ==
  /\ mounted /\ listFetch = "idle" /\ listFetch' = "sent"
  /\ UNCHANGED <<pipeline, pipelines, loaded, listAnswer, mounted, statusFilter, deletion, unseen>>

ServerReads ==
  /\ listFetch = "sent" /\ listFetch' = "read" /\ listAnswer' = pipeline /\ unseen' = FALSE
  /\ UNCHANGED <<pipeline, pipelines, loaded, mounted, statusFilter, deletion>>

ListAnswered ==
  /\ listFetch = "read" /\ listFetch' = "idle"
  /\ pipelines' = listAnswer /\ loaded' = TRUE /\ listAnswer' = Nothing
  /\ UNCHANGED <<pipeline, mounted, statusFilter, deletion, unseen>>

(* The page shows the error in place of the table, until it is fetched again.  *)
ListFails ==
  /\ listFetch # "idle" /\ listFetch' = "idle" /\ listAnswer' = Nothing /\ unseen' = TRUE
  /\ UNCHANGED <<pipeline, pipelines, loaded, mounted, statusFilter, deletion>>

(* Once confirmed.                                                             *)
handleDelete(s, p) ==
  /\ mounted /\ p \in rows /\ deletion[s] = Free
  /\ deletion' = [deletion EXCEPT ![s].of = p]
  /\ UNCHANGED <<pipeline, queryVars, mounted, statusFilter, unseen>>

delete_pipeline(s) ==
  /\ deletion[s] # Free /\ ~deletion[s].done
  /\ pipeline' = [pipeline EXCEPT ![deletion[s].of] = "gone"]
  /\ deletion' = [deletion EXCEPT ![s].done = TRUE]
  /\ UNCHANGED <<queryVars, mounted, statusFilter, unseen>>

(* Variant: a fetch under way is left to answer.                               *)
InvalidateIdle ==
  IF listFetch = "idle" THEN listFetch' = "sent" /\ UNCHANGED <<listAnswer, unseen>>
                        ELSE UNCHANGED <<listFetch, listAnswer, unseen>>

(* Fetched again in place of a fetch under way, unless that is the first; at   *)
(* the next visit if the page is gone.                                         *)
Invalidate ==
  IF mounted /\ loaded
    THEN listFetch' = "sent" /\ listAnswer' = Nothing /\ UNCHANGED unseen
    ELSE unseen' = TRUE /\ UNCHANGED <<listFetch, listAnswer>>

DeleteAnswered(s) ==
  /\ deletion[s].done /\ deletion' = [deletion EXCEPT ![s] = Free]
  /\ Invalidate
  /\ UNCHANGED <<pipeline, pipelines, loaded, mounted, statusFilter>>

(* Refused, as for a pipeline that is gone; or lost, served or not.            *)
DeleteFails(s) ==
  /\ deletion[s] # Free /\ deletion' = [deletion EXCEPT ![s] = Free]
  /\ unseen' = (unseen \/ deletion[s].done)
  /\ UNCHANGED <<pipeline, queryVars, mounted, statusFilter>>

(* The editor, a run, the scheduler, another tab.                              *)
ChangedElsewhere(p, status) ==
  /\ pipeline[p] # status /\ pipeline' = [pipeline EXCEPT ![p] = status] /\ unseen' = TRUE
  /\ UNCHANGED <<queryVars, mounted, statusFilter, deletion>>

Next ==
  \/ Mount \/ Leave \/ Refocus \/ ServerReads \/ ListAnswered \/ ListFails
  \/ \E f \in Statuses \cup {"all"} : SetFilter(f)
  \/ \E s \in Slots : delete_pipeline(s) \/ DeleteAnswered(s) \/ DeleteFails(s)
  \/ \E s \in Slots, p \in Pipelines : handleDelete(s, p)
  \/ \E p \in Pipelines, status \in Statuses : ChangedElsewhere(p, status)

Spec == Init /\ [][Next]_vars

----------------------------------------------------------------------------
(* Properties.                                                                 *)

(* With nothing under way the page lists exactly the pipelines of the status   *)
(* chosen, unless one was changed elsewhere or a fetch failed since it was     *)
(* read: a deletion that is answered while the list is being fetched does not  *)
(* leave the deleted row there.                                                *)
ListsWhatIsThere ==
  mounted /\ listFetch = "idle" /\ ~unseen /\ (\A s \in Slots : deletion[s] = Free) =>
    rows = {p \in Pipelines : pipeline[p] # "gone" /\ statusFilter \in {"all", pipeline[p]}}
=============================================================================
