--------------------------- MODULE ConnectorForms ---------------------------
(***************************************************************************)
(* The dialog of the connectors page that adds a connector or edits one.   *)
(* A click on its button starts a chain: the connector is stored, then     *)
(* tested, then the dialog shows what came of it.  The chain goes on when  *)
(* the dialog is closed and opened again, for another connector even, and  *)
(* when the page is left.                                                  *)
(*                                                                         *)
(* Bounds: the connectors ever made, and the chains under way together.    *)
(* The fields of the connection count as one, with its default.            *)
(***************************************************************************)
CONSTANTS
  Titles,       (* of connectors                                               *)
  Configs,      (* what the connection fields may hold                         *)
  Default,      (* what they hold at first                                     *)
  Rows,         (* bound: the identities of connectors                         *)
  Chains,       (* bound: the chains under way together                        *)
  None          (* no connector, an empty name                                 *)

FormAssumption ==
  /\ Default \in Configs /\ None \notin Titles \cup Rows \cup (Titles \X Configs)
  /\ None \notin (Titles \X Configs) \X (Rows \cup {None})

VARIABLES
  formOpen, editConnector,
  name, config,
  testResult,   (* the connector of the test shown, or None                    *)
  saved,        (* what was stored, by the chain that set it, or None          *)
  chain,        (* the chains of handleSubmit                                  *)
  connectors,   (* the connectors stored                                       *)
  overtaken     (* history: the form changed while a chain was under way       *)

formVars == <<formOpen, editConnector, name, config, testResult, saved>>
vars == <<formVars, chain, connectors, overtaken>>

Payload == Titles \X Configs
Free == [stage |-> "free", payload |-> None, edit |-> None, id |-> None,
         here |-> FALSE]

TypeOK ==
  /\ formOpen \in BOOLEAN /\ overtaken \in BOOLEAN
  /\ editConnector \in Rows \cup {None} /\ testResult \in Rows \cup {None}
  /\ name \in Titles \cup {None} /\ config \in Configs
  /\ saved \in (Payload \X Rows) \cup {None}
  /\ chain \in [Chains -> [stage : {"free", "sent", "stored", "testing", "tested", "untested"},
                          payload : Payload \cup {None}, edit : Rows \cup {None},
                          id : Rows \cup {None}, here : BOOLEAN]]
  /\ connectors \in [Rows -> Payload \cup {None}]

resetForm ==
  /\ name' = None /\ config' = Default /\ testResult' = None /\ saved' = None

Init ==
  /\ formOpen = FALSE /\ editConnector = None /\ name = None /\ config = Default
  /\ testResult = None /\ saved = None /\ overtaken = FALSE
  /\ chain = [s \in Chains |-> Free]
  /\ connectors \in [Rows -> (Titles \X Configs) \cup {None}]

(* A mutation of this visit is pending.                                        *)
isPending == \E s \in Chains : chain[s].stage # "free" /\ chain[s].here

Changed == overtaken' = (overtaken \/ isPending) /\ UNCHANGED <<chain, connectors>>

----------------------------------------------------------------------------
(* The user.                                                                   *)

AddConnector ==
  /\ ~formOpen /\ formOpen' = TRUE
  /\ UNCHANGED <<editConnector, name, config, testResult, saved>>
  /\ Changed

(* The effect puts name and type into the form, and no connection.             *)
handleEdit(r) ==
  /\ ~formOpen /\ connectors[r] # None
  /\ formOpen' = TRUE /\ editConnector' = r /\ name' = connectors[r][1]
  /\ saved' = None /\ testResult' = None
  /\ UNCHANGED config
  /\ Changed

(* Variant: what was saved stays.                                              *)
handleCloseKeeps ==
  /\ formOpen /\ formOpen' = FALSE /\ editConnector' = None
  /\ name' = None /\ config' = Default /\ testResult' = None
  /\ UNCHANGED saved
  /\ Changed

handleClose ==
  /\ formOpen /\ formOpen' = FALSE /\ editConnector' = None
  /\ resetForm
  /\ Changed

(* The fields can be changed until saved, whatever is under way.               *)
EditField ==
  /\ formOpen /\ saved = None
  /\ \/ name' \in (Titles \cup {None}) \ {name} /\ UNCHANGED config
     \/ config' \in Configs \ {config} /\ UNCHANGED name
  /\ UNCHANGED <<formOpen, editConnector, testResult, saved>>
  /\ Changed

handleSubmit(s) ==
  /\ formOpen /\ saved = None /\ name # None /\ ~isPending /\ chain[s] = Free
  /\ chain' = [chain EXCEPT ![s] =
       [stage |-> "sent", payload |-> <<name, config>>, edit |-> editConnector,
        id |-> None, here |-> TRUE]]
  /\ overtaken' = FALSE
  /\ UNCHANGED <<formVars, connectors>>

(* The page is left, and mounted again.                                        *)
Leave ==
  /\ formOpen' = FALSE /\ editConnector' = None /\ resetForm
  /\ chain' = [s \in Chains |-> [chain[s] EXCEPT !.here = FALSE]]
  /\ UNCHANGED <<connectors, overtaken>>

----------------------------------------------------------------------------
(* The chain, and the server.                                                  *)

To(s, stage) == chain' = [chain EXCEPT ![s].stage = stage]

(* Variant: a connector that is edited is made anew.                           *)
create_connector_also(s, r) ==
  /\ chain[s].stage = "sent" /\ connectors[r] = None
  /\ connectors' = [connectors EXCEPT ![r] = chain[s].payload]
  /\ chain' = [chain EXCEPT ![s].stage = "stored", ![s].id = r]
  /\ UNCHANGED <<formVars, overtaken>>

create_connector(s, r) ==
  /\ chain[s].stage = "sent" /\ chain[s].edit = None /\ connectors[r] = None
  /\ connectors' = [connectors EXCEPT ![r] = chain[s].payload]
  /\ chain' = [chain EXCEPT ![s].stage = "stored", ![s].id = r]
  /\ UNCHANGED <<formVars, overtaken>>

update_connector(s) ==
  LET r == chain[s].edit IN
  /\ chain[s].stage = "sent" /\ r # None /\ connectors[r] # None
  /\ connectors' = [connectors EXCEPT ![r] = chain[s].payload]
  /\ chain' = [chain EXCEPT ![s].stage = "stored", ![s].id = r]
  /\ UNCHANGED <<formVars, overtaken>>

(* Refused, or lost before or after it was stored: the chain ends.             *)
Refuse(s) ==
  /\ chain[s].stage \in {"sent", "stored"}
  /\ chain' = [chain EXCEPT ![s] = Free]
  /\ UNCHANGED <<formVars, connectors, overtaken>>

StartTest(s) ==
  /\ chain[s].stage = "stored" /\ To(s, "testing")
  /\ UNCHANGED <<formVars, connectors, overtaken>>

(* The test may itself be refused; the chain goes on without a result.         *)
test_connector(s) ==
  /\ chain[s].stage = "testing"
  /\ \/ connectors[chain[s].id] # None /\ To(s, "tested")
     \/ To(s, "untested")
  /\ UNCHANGED <<formVars, connectors, overtaken>>

(* setTestResult and setSaved of whatever this page's form now shows.          *)
Finish(s) ==
  /\ chain[s].stage \in {"tested", "untested"}
  /\ IF chain[s].here
       THEN /\ saved' = <<chain[s].payload, chain[s].id>>
            /\ testResult' = IF chain[s].stage = "tested" THEN chain[s].id ELSE testResult
       ELSE UNCHANGED <<saved, testResult>>
  /\ chain' = [chain EXCEPT ![s] = Free]
  /\ UNCHANGED <<formOpen, editConnector, name, config, connectors, overtaken>>

delete_connector(r) ==
  /\ connectors[r] # None /\ connectors' = [connectors EXCEPT ![r] = None]
  /\ UNCHANGED <<formVars, chain, overtaken>>

Next ==
  \/ AddConnector \/ handleClose \/ EditField \/ Leave
  \/ \E r \in Rows : handleEdit(r) \/ delete_connector(r)
  \/ \E s \in Chains :
       \/ handleSubmit(s) \/ update_connector(s) \/ Refuse(s)
       \/ StartTest(s) \/ test_connector(s) \/ Finish(s)
       \/ \E r \in Rows : create_connector(s, r)

Spec == Init /\ [][Next]_vars

----------------------------------------------------------------------------
(* Properties.                                                                 *)

(* A form that says it is saved shows what was stored, of the connector it     *)
(* shows, and the test of that one; unless it was changed, or opened again,    *)
(* while a chain was under way, whose end then shows in it all the same.       *)
SavedIsShown ==
  formOpen /\ saved # None /\ ~overtaken =>
    /\ saved[1] = <<name, config>>
    /\ editConnector \in {None, saved[2]}
    /\ testResult \in {None, saved[2]}

(* The form keeps the promise of a form: for a click at most one connector is  *)
(* stored, the one edited if one is, as the form showed it.                    *)
Form == INSTANCE Submission WITH
  Slots <- Chains, Drafts <- (Titles \cup {None}) \X Configs, Complete <- Payload,
  draft <- <<name, config>>, editing <- editConnector,
  sent <- [s \in Chains |-> IF chain[s].stage = "sent" THEN <<chain[s].payload, chain[s].edit>>
                                                     ELSE None],
  rows <- connectors
OneConnectorPerClick == Form!Spec
=============================================================================
