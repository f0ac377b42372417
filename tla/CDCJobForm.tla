----------------------------- MODULE CDCJobForm -----------------------------
(***************************************************************************)
(* The dialog of the CDC page that creates a job.  A click on its button   *)
(* sends what it shows; the request goes on when the dialog is closed and  *)
(* opened again, or the page left and shown again, and its answer resets   *)
(* whatever the dialog of the same visit shows by then.                    *)
(*                                                                         *)
(* Bounds: the requests under way together and the jobs ever made.  The    *)
(* name and the S3 fields count as one, filled in or not.                  *)
(***************************************************************************)
EXTENDS Naturals

CONSTANTS
  Connectors, Schemas, Tables, Names,
  Columns,      (* the columns of each table                                   *)
  Jobs,         (* bound: the identities of jobs                               *)
  Slots,        (* bound: the requests under way together                      *)
  None          (* nothing chosen, no job, no request                          *)

Keys == Connectors \X Schemas \X Tables

FormAssumption ==
  /\ Columns \in [Keys -> SUBSET Names]
  /\ None \notin Connectors \cup Schemas \cup Tables \cup Names \cup Jobs
  /\ None \notin (Keys \X Names) \cup ((Keys \X Names) \X {None})

VARIABLES
  open,         (* formOpen                                                    *)
  filled,       (* name and s3Bucket are given                                 *)
  chosen,       (* connectorId, schema, table                                  *)
  tracking,     (* trackingColumn                                              *)
  creation,     (* the requests of createMutation, with the payload of each    *)
  jobs,         (* the jobs stored                                             *)
  touched       (* history: the form changed while a request was under way     *)

formVars == <<open, filled, chosen, tracking>>
vars == <<formVars, creation, jobs, touched>>

Payload == Keys \X Names
Free == [stage |-> "free", payload |-> None, here |-> FALSE]

TypeOK ==
  /\ open \in BOOLEAN /\ filled \in BOOLEAN /\ touched \in BOOLEAN
  /\ chosen \in (Connectors \cup {None}) \X (Schemas \cup {None}) \X (Tables \cup {None})
  /\ tracking \in Names \cup {None}
  /\ creation \in [Slots -> [stage : {"free", "sent", "stored", "refused"},
                            payload : Payload \cup {None}, here : BOOLEAN]]
  /\ jobs \in [Jobs -> Payload \cup {None}]

Unchosen == <<None, None, None>>

Init ==
  /\ open = FALSE /\ filled = FALSE /\ chosen = Unchosen /\ tracking = None
  /\ creation = [s \in Slots |-> Free] /\ jobs = [j \in Jobs |-> None] /\ touched = FALSE

(* createMutation.isPending of this visit.                                     *)
isPending == \E s \in Slots : creation[s].stage # "free" /\ creation[s].here

(* A change of the form by the user.                                           *)
Show(f, c, t) ==
  /\ open /\ filled' = f /\ chosen' = c /\ tracking' = t
  /\ touched' = (touched \/ isPending)
  /\ UNCHANGED <<open, creation, jobs>>

resetForm == filled' = FALSE /\ chosen' = Unchosen /\ tracking' = None

OpenForm == ~open /\ open' = TRUE /\ UNCHANGED <<filled, chosen, tracking, creation, jobs, touched>>

CloseForm ==
  /\ open /\ open' = FALSE /\ resetForm
  /\ touched' = (touched \/ isPending)
  /\ UNCHANGED <<creation, jobs>>

EditText == Show(~filled, chosen, tracking)

PickConnector(c) == Show(filled, <<c, None, None>>, None)

PickSchema(s) == chosen[1] # None /\ Show(filled, <<chosen[1], s, None>>, None)

(* Variant: the tracking column is kept.                                       *)
PickTableOnly(t) == chosen[2] # None /\ Show(filled, <<chosen[1], chosen[2], t>>, tracking)

PickTable(t) == chosen[2] # None /\ Show(filled, <<chosen[1], chosen[2], t>>, None)

(* The columns of the key the form shows, once they are there.                 *)
PickColumn(n) == chosen[3] # None /\ n \in Columns[chosen] /\ Show(filled, chosen, n)

canSubmit == filled /\ tracking # None

handleSubmit(s) ==
  /\ open /\ canSubmit /\ ~isPending /\ creation[s] = Free
  /\ creation' = [creation EXCEPT ![s] = [stage |-> "sent", payload |-> <<chosen, tracking>>,
                                        here |-> TRUE]]
  /\ touched' = FALSE
  /\ UNCHANGED <<formVars, jobs>>

(* Variant: a request whose answer is lost is sent again.                      *)
create_job_again(s, j) ==
  /\ creation[s].stage = "sent" /\ jobs[j] = None
  /\ jobs' = [jobs EXCEPT ![j] = creation[s].payload]
  /\ UNCHANGED <<creation, formVars, touched>>

create_job(s, j) ==
  /\ creation[s].stage = "sent" /\ jobs[j] = None
  /\ jobs' = [jobs EXCEPT ![j] = creation[s].payload]
  /\ creation' = [creation EXCEPT ![s].stage = "stored"]
  /\ UNCHANGED <<formVars, touched>>

(* Refused, or lost before or after the job was stored.                        *)
Refuse(s) ==
  /\ creation[s].stage \in {"sent", "stored"}
  /\ creation' = [creation EXCEPT ![s].stage = "refused"]
  /\ UNCHANGED <<formVars, jobs, touched>>

Answer(s) == creation' = [creation EXCEPT ![s] = Free] /\ UNCHANGED <<jobs, touched>>

(* The callbacks of mutate run only on the page that called it.                *)
OnSuccess(s) ==
  /\ creation[s].stage = "stored"
  /\ IF creation[s].here THEN resetForm /\ open' = FALSE ELSE UNCHANGED formVars
  /\ Answer(s)

(* Variant: the form is reset when the request is settled.                     *)
OnErrorReset(s) == creation[s].stage = "refused" /\ resetForm /\ UNCHANGED open /\ Answer(s)

OnError(s) == creation[s].stage = "refused" /\ UNCHANGED formVars /\ Answer(s)

(* The page is left, and mounted again.                                        *)
Leave ==
  /\ open' = FALSE /\ resetForm
  /\ creation' = [s \in Slots |-> [creation[s] EXCEPT !.here = FALSE]]
  /\ UNCHANGED <<jobs, touched>>

Delete(j) ==
  /\ jobs[j] # None /\ jobs' = [jobs EXCEPT ![j] = None]
  /\ UNCHANGED <<formVars, creation, touched>>

(* What the user does to the form.                                             *)
ByUser ==
  \/ OpenForm \/ CloseForm \/ EditText \/ Leave
  \/ \E c \in Connectors : PickConnector(c)
  \/ \E s \in Schemas : PickSchema(s)
  \/ \E t \in Tables : PickTable(t)
  \/ \E n \in Names : PickColumn(n)

Next ==
  \/ ByUser
  \/ \E s \in Slots : handleSubmit(s) \/ Refuse(s) \/ OnSuccess(s) \/ OnError(s)
  \/ \E s \in Slots, j \in Jobs : create_job(s, j)
  \/ \E j \in Jobs : Delete(j)

Spec == Init /\ [][Next]_vars

----------------------------------------------------------------------------
(* Properties.                                                                 *)

(* A job tracks a column of its own table: choosing another connector, schema  *)
(* or table takes the column back, whatever answers come between the choices.  *)
JobsTrackTheirTable ==
  \A j \in Jobs : jobs[j] # None => jobs[j][2] \in Columns[jobs[j][1]]

(* Nothing in the form changes or goes but by the user's hand, open or closed: *)
(* a refusal, a lost answer and the answer to a click of an earlier visit leave *)
(* it as it is.  The one exception is the answer to a click of this visit that *)
(* stored a job, and that job is what the form shows, unless the user changed  *)
(* the form while the request was under way.                                   *)
EntriesKept ==
  [][\/ UNCHANGED formVars
     \/ ByUser
     \/ \E s \in Slots :
          /\ creation[s].stage = "stored" /\ creation[s].here /\ creation'[s] = Free
          /\ touched \/ creation[s].payload = <<chosen, tracking>>]_vars

(* The form keeps the promise of a form: one job for a click, of what it       *)
(* showed.                                                                     *)
Form == INSTANCE Submission WITH
  Rows <- Jobs, Complete <- Payload,
  Drafts <- ((Connectors \cup {None}) \X (Schemas \cup {None}) \X (Tables \cup {None}))
              \X (Names \cup {None}),
  draft <- <<chosen, tracking>>, editing <- None,
  sent <- [s \in Slots |-> IF creation[s].stage = "sent" THEN <<creation[s].payload, None>>
                                                        ELSE None],
  rows <- jobs
OneJobPerClick == Form!Spec
=============================================================================
