--------------------------- MODULE SchedulePanel ---------------------------
(***************************************************************************)
(* The schedule panel of the pipeline editor: a field loaded once, when    *)
(* the pipeline's data first arrives, and two buttons that send it.  The   *)
(* requests are those of the editor's saves and may pass one another; a    *)
(* blank field is sent as nothing at all, and so takes no schedule away.   *)
(*                                                                         *)
(* Bounds: the requests under way together; the page's query, which module *)
(* PipelineEditor details, is read and answered at once.                   *)
(***************************************************************************)
CONSTANTS
  Crons,        (* cron expressions                                            *)
  Slots,        (* bound: the requests under way together                      *)
  Blank,        (* the empty field                                             *)
  None          (* no data                                                     *)

ScheduleAssumption == {Blank, None} \cap Crons = {} /\ Blank # None

VARIABLES
  editing,      (* the page is open: "no", "yes", or "loaded" (initialized)    *)
  showSchedule, cronValue,
  known,        (* schedule_cron in the query's data, or None                  *)
  schedule_cron,(* of the pipeline, Blank for null                             *)
  put,          (* the requests under way                                      *)
  wanted,       (* history: what was last sent to be kept                      *)
  crossing      (* history: one was sent beside another, or failed             *)

panelVars == <<editing, showSchedule, cronValue>>
vars == <<panelVars, known, schedule_cron, put, wanted, crossing>>

Free == [stage |-> "free", cron |-> Blank, here |-> FALSE]

TypeOK ==
  /\ editing \in {"no", "yes", "loaded"} /\ showSchedule \in BOOLEAN
  /\ {cronValue, schedule_cron, wanted} \subseteq Crons \cup {Blank}
  /\ known \in Crons \cup {Blank, None} /\ crossing \in BOOLEAN
  /\ put \in [Slots -> [stage : {"free", "sent", "stored"}, cron : Crons \cup {Blank},
                        here : BOOLEAN]]

Init ==
  /\ editing = "no" /\ showSchedule = FALSE /\ cronValue = Blank /\ known = None
  /\ schedule_cron \in Crons \cup {Blank} /\ wanted = schedule_cron
  /\ put = [s \in Slots |-> Free] /\ crossing = FALSE

OpenEditor ==
  /\ editing = "no" /\ editing' = IF known = None THEN "yes" ELSE "loaded"
  /\ cronValue' = IF known = None THEN Blank ELSE known
  /\ showSchedule' = FALSE
  /\ UNCHANGED <<known, schedule_cron, put, wanted, crossing>>

LeaveEditor ==
  /\ editing # "no" /\ editing' = "no" /\ showSchedule' = FALSE
  /\ put' = [s \in Slots |-> [put[s] EXCEPT !.here = FALSE]]
  /\ UNCHANGED <<cronValue, known, schedule_cron, wanted, crossing>>

(* The first answer is put into the field, also over what was typed there.     *)
DataArrives ==
  /\ editing # "no" /\ known' = schedule_cron /\ editing' = "loaded"
  /\ cronValue' = IF editing = "yes" THEN known' ELSE cronValue
  /\ UNCHANGED <<showSchedule, schedule_cron, put, wanted, crossing>>

ToggleSchedule ==
  /\ editing # "no" /\ showSchedule' = ~showSchedule
  /\ UNCHANGED <<editing, cronValue, known, schedule_cron, put, wanted, crossing>>

TypeCron(c) ==
  /\ showSchedule /\ cronValue' = c
  /\ UNCHANGED <<editing, showSchedule, known, schedule_cron, put, wanted, crossing>>

(* Variant: the callback is not made anew when the field changes.              *)
handleSaveScheduleLoaded(s) ==
  LET cron == IF known = None THEN Blank ELSE known IN
  /\ showSchedule /\ put[s] = Free
  /\ put' = [put EXCEPT ![s] = [stage |-> "sent", cron |-> cron, here |-> TRUE]]
  /\ wanted' = IF cronValue = Blank THEN wanted ELSE cronValue
  /\ crossing' = (crossing \/ \E t \in Slots : put[t].stage = "sent")

(* The field of the last drawing is sent, whatever is under way.               *)
handleSaveSchedule(s) ==
  /\ showSchedule /\ put[s] = Free
  /\ put' = [put EXCEPT ![s] = [stage |-> "sent", cron |-> cronValue, here |-> TRUE]]
  /\ wanted' = IF cronValue = Blank THEN wanted ELSE cronValue
  /\ crossing' = (crossing \/ \E t \in Slots : put[t].stage = "sent")

ClickSave(s) ==
  handleSaveSchedule(s) /\ UNCHANGED <<panelVars, known, schedule_cron>>

(* The field becomes blank, but what it held is sent.                          *)
ClickRemove(s) ==
  /\ cronValue # Blank /\ handleSaveSchedule(s) /\ cronValue' = Blank
  /\ UNCHANGED <<editing, showSchedule, known, schedule_cron>>

(* A field that was not sent is left alone.                                    *)
update_pipeline(s) ==
  /\ put[s].stage = "sent" /\ put' = [put EXCEPT ![s].stage = "stored"]
  /\ schedule_cron' = IF put[s].cron = Blank THEN schedule_cron ELSE put[s].cron
  /\ UNCHANGED <<panelVars, known, wanted, crossing>>

(* The panel closes, whether or not it has been opened again meanwhile.        *)
SaveAnswered(s) ==
  /\ put[s].stage = "stored" /\ put' = [put EXCEPT ![s] = Free]
  /\ showSchedule' = (showSchedule /\ ~put[s].here)
  /\ UNCHANGED <<editing, cronValue, known, schedule_cron, wanted, crossing>>

SaveFails(s) ==
  /\ put[s] # Free /\ put' = [put EXCEPT ![s] = Free] /\ crossing' = TRUE
  /\ UNCHANGED <<panelVars, known, schedule_cron, wanted>>

Next ==
  \/ OpenEditor \/ LeaveEditor \/ DataArrives \/ ToggleSchedule
  \/ \E c \in Crons \cup {Blank} : TypeCron(c)
  \/ \E s \in Slots :
       ClickSave(s) \/ ClickRemove(s) \/ update_pipeline(s) \/ SaveAnswered(s) \/ SaveFails(s)

Spec == Init /\ [][Next]_vars

----------------------------------------------------------------------------
(* Properties.                                                                 *)

(* Once nothing is under way, the pipeline has the schedule that was last sent *)
(* from a field that was not blank - after Remove, the one it should have      *)
(* taken away - unless two were under way at once or one has failed.           *)
LastScheduleStays ==
  (\A s \in Slots : put[s].stage # "sent") /\ ~crossing => schedule_cron = wanted
=============================================================================
