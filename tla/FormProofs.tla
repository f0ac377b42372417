----------------------------- MODULE FormProofs -----------------------------
(***************************************************************************)
(* Proofs about the two dialogs that store rows, ConnectorForms and        *)
(* CDCJobForm, for every catalog and any number of rows and of requests    *)
(* under way: their types, that a connector form which says it is saved    *)
(* shows what was stored, that a job tracks a column of its own table,     *)
(* and that both implement Submission.                                     *)
(***************************************************************************)
EXTENDS Console, TLAPS

----------------------------------------------------------------------------
(* Connectors.                                                                 *)

ChainStages == {"free", "sent", "stored", "testing", "tested", "untested"}
Chain == [stage : ChainStages, payload : Connector!Payload \cup {None}, edit : Rows \cup {None},
          id : Rows \cup {None}, here : BOOLEAN]

(* What a chain carries, and the connector it has stored. *)
ChainOK(x) ==
  /\ x \in Chain
  /\ x.stage # "free" => x.payload \in Connector!Payload
  /\ x.stage \notin {"free", "sent"} => x.id \in Rows /\ x.edit \in {None, x.id}

PendingChain(x) == x.stage # "free" /\ x.here

(* Until the form changes, it shows what the chain of its last click carries. *)
ShowsChain(x) == formOpen /\ saved = None /\ x.payload = <<name, config>> /\ x.edit = editConnector

ChainsInv ==
  /\ chain \in [Chains -> Chain]
  /\ \A s \in Chains : ChainOK(chain[s])
  /\ \A s, t \in Chains : PendingChain(chain[s]) /\ PendingChain(chain[t]) => s = t

ConnectorFormTypes ==
  /\ formOpen \in BOOLEAN /\ overtaken \in BOOLEAN
  /\ editConnector \in Rows \cup {None} /\ testResult \in Rows \cup {None}
  /\ name \in Titles \cup {None} /\ config \in Configs
  /\ saved \in (Connector!Payload \X Rows) \cup {None}

ConnectorFormInv ==
  /\ ConnectorFormTypes
  /\ saved = None => testResult = None
  /\ ~overtaken => \A s \in Chains : PendingChain(chain[s]) => ShowsChain(chain[s])
  /\ ~overtaken /\ saved # None => formOpen /\ Connector!SavedIsShown

RowsInv == connectors \in [Rows -> Connector!Payload \cup {None}]

ConnectorInv == ChainsInv /\ ConnectorFormInv /\ RowsInv

(* A closed form, and no chain. *)
LEMMA ConnectorInitially == ASSUME Connector!FormAssumption, Connector!Init PROVE ConnectorInv
<1>1. ChainOK(Connector!Free) /\ ~PendingChain(Connector!Free)
  BY DEF ChainOK, Chain, ChainStages, Connector!Free, PendingChain
<1>2. ChainsInv
  BY <1>1 DEF Connector!Init, ChainsInv, ChainOK
<1>. QED
  BY <1>1, <1>2 DEF Connector!Init, ConnectorInv, ConnectorFormInv, ConnectorFormTypes, RowsInv,
         Connector!FormAssumption, Connector!Payload

(* A chain that goes on without a change of what it carries. *)
LEMMA ChainReplaced ==
  ASSUME ConnectorInv, NEW s \in Chains, NEW x, ChainOK(x),
         PendingChain(x) => PendingChain(chain[s]),
         chain' = [chain EXCEPT ![s] = x]
  PROVE  ChainsInv'
BY DEF ConnectorInv, ChainsInv, ChainOK, PendingChain

(* The chains after each step. *)
LEMMA ChainsStep ==
  ASSUME Connector!FormAssumption, ConnectorInv, [Connector!Next]_(Connector!vars)
  PROVE  ChainsInv'
<1>0. ChainsInv /\ chain \in [Chains -> Chain]
  BY DEF ConnectorInv, ChainsInv
<1>1. CASE UNCHANGED chain
  BY <1>0, <1>1 DEF ChainsInv, ChainOK, PendingChain
<1>2. CASE \E s \in Chains : Connector!handleSubmit(s)
  <2>1. PICK s \in Chains : Connector!handleSubmit(s)
    BY <1>2
  <2>. DEFINE x == [stage |-> "sent", payload |-> <<name, config>>, edit |-> editConnector,
                    id |-> None, here |-> TRUE]
  <2>2. <<name, config>> \in Connector!Payload
    BY <2>1 DEF Connector!handleSubmit, ConnectorInv, ConnectorFormInv, ConnectorFormTypes,
           Connector!Payload
  <2>3. ChainOK(x)
    BY <2>2 DEF ChainOK, Chain, ChainStages, ConnectorInv, ConnectorFormInv, ConnectorFormTypes
  <2>4. chain' = [chain EXCEPT ![s] = x] /\ \A t \in Chains : ~PendingChain(chain[t])
    BY <2>1 DEF Connector!handleSubmit, Connector!isPending, PendingChain
  <2>. HIDE DEF x
  <2>. QED
    BY <1>0, <2>3, <2>4 DEF ChainsInv, ChainOK, PendingChain
<1>3. CASE Connector!Leave
  <2>1. chain' = [s \in Chains |-> [chain[s] EXCEPT !.here = FALSE]]
    BY <1>3 DEF Connector!Leave
  <2>2. ASSUME NEW s \in Chains PROVE ChainOK(chain'[s]) /\ ~PendingChain(chain'[s])
    <3>1. ChainOK(chain[s])
      BY <1>0 DEF ChainsInv
    <3>2. ChainOK([chain[s] EXCEPT !.here = FALSE])
      BY <3>1 DEF ChainOK, Chain
    <3>3. ~PendingChain([chain[s] EXCEPT !.here = FALSE])
      BY <3>1 DEF ChainOK, Chain, PendingChain
    <3>. QED
      BY <2>1, <3>2, <3>3
  <2>. QED
    BY <2>1, <2>2 DEF ChainsInv, ChainOK, PendingChain
<1>4. ASSUME NEW s \in Chains, NEW stage \in ChainStages \ {"free", "sent"}, NEW r \in Rows,
             chain[s].stage # "free", chain[s].edit \in {None, r},
             chain' = [chain EXCEPT ![s].stage = stage, ![s].id = r]
      PROVE  ChainsInv'
  <2>. DEFINE x == [chain[s] EXCEPT !.stage = stage, !.id = r]
  <2>1. ChainOK(chain[s])
    BY <1>0 DEF ChainsInv
  <2>2. ChainOK(x) /\ (PendingChain(x) => PendingChain(chain[s]))
    BY <1>4, <2>1 DEF ChainOK, Chain, ChainStages, PendingChain
  <2>3. chain' = [chain EXCEPT ![s] = x]
    BY <1>0, <1>4
  <2>. HIDE DEF x
  <2>. QED
    BY <2>2, <2>3, ChainReplaced
<1>5. CASE \E s \in Chains, r \in Rows : Connector!create_connector(s, r)
  BY <1>4, <1>5 DEF Connector!create_connector, ChainStages
<1>6. CASE \E s \in Chains : Connector!update_connector(s)
  <2>1. PICK s \in Chains : Connector!update_connector(s)
    BY <1>6
  <2>2. chain[s].edit \in Rows
    BY <1>0, <2>1 DEF Connector!update_connector, ChainsInv, ChainOK, Chain
  <2>. QED
    BY <1>4, <2>1, <2>2 DEF Connector!update_connector, ChainStages
<1>7. CASE \E s \in Chains : Connector!Refuse(s) \/ Connector!Finish(s)
  <2>1. PICK s \in Chains : chain' = [chain EXCEPT ![s] = Connector!Free]
    BY <1>7 DEF Connector!Refuse, Connector!Finish
  <2>2. ChainOK(Connector!Free) /\ ~PendingChain(Connector!Free)
    BY DEF ChainOK, Chain, ChainStages, Connector!Free, PendingChain
  <2>. QED
    BY <2>1, <2>2, ChainReplaced
<1>8. CASE \E s \in Chains : Connector!StartTest(s) \/ Connector!test_connector(s)
  <2>1. PICK s \in Chains, stage \in {"testing", "tested", "untested"} :
          chain[s].stage \in {"stored", "testing"} /\ Connector!To(s, stage)
    BY <1>8 DEF Connector!StartTest, Connector!test_connector
  <2>. DEFINE x == [chain[s] EXCEPT !.stage = stage]
  <2>2. ChainOK(chain[s])
    BY <1>0 DEF ChainsInv
  <2>3. ChainOK(x) /\ (PendingChain(x) => PendingChain(chain[s]))
    BY <2>1, <2>2 DEF ChainOK, Chain, ChainStages, PendingChain
  <2>4. chain' = [chain EXCEPT ![s] = x]
    BY <1>0, <2>1 DEF Connector!To
  <2>. HIDE DEF x
  <2>. QED
    BY <2>3, <2>4, ChainReplaced
<1>9. CASE Connector!AddConnector \/ Connector!handleClose \/ Connector!EditField
  BY <1>1, <1>9 DEF Connector!AddConnector, Connector!handleClose, Connector!EditField,
         Connector!Changed
<1>10. CASE \E r \in Rows : Connector!handleEdit(r) \/ Connector!delete_connector(r)
  BY <1>1, <1>10 DEF Connector!handleEdit, Connector!delete_connector, Connector!Changed
<1>11. CASE UNCHANGED Connector!vars
  BY <1>1, <1>11 DEF Connector!vars
<1>. QED
  BY <1>2, <1>3, <1>5, <1>6, <1>7, <1>8, <1>9, <1>10, <1>11 DEF Connector!Next

(* The connectors after each step. *)
LEMMA RowsStep ==
  ASSUME Connector!FormAssumption, ConnectorInv, [Connector!Next]_(Connector!vars)
  PROVE  RowsInv'
<1>1. CASE UNCHANGED connectors
  BY <1>1 DEF ConnectorInv, RowsInv
<1>2. CASE \E s \in Chains :
            \/ Connector!update_connector(s)
            \/ \E r \in Rows : Connector!create_connector(s, r)
  <2>1. PICK s \in Chains, r \in Rows :
          chain[s].stage = "sent" /\ connectors' = [connectors EXCEPT ![r] = chain[s].payload]
    BY <1>2 DEF Connector!update_connector, Connector!create_connector, ConnectorInv, ChainsInv,
           ChainOK, Chain
  <2>2. chain[s].payload \in Connector!Payload
    BY <2>1 DEF ConnectorInv, ChainsInv, ChainOK
  <2>. QED
    BY <2>1, <2>2 DEF ConnectorInv, RowsInv
<1>3. CASE \E r \in Rows : Connector!delete_connector(r)
  BY <1>3 DEF Connector!delete_connector, ConnectorInv, RowsInv
<1>4. CASE \/ Connector!AddConnector \/ Connector!handleClose \/ Connector!EditField
           \/ Connector!Leave \/ \E r \in Rows : Connector!handleEdit(r)
  BY <1>1, <1>4 DEF Connector!AddConnector, Connector!handleClose, Connector!EditField,
         Connector!Leave, Connector!handleEdit, Connector!Changed
<1>5. CASE \E s \in Chains :
            \/ Connector!handleSubmit(s) \/ Connector!Refuse(s) \/ Connector!StartTest(s)
            \/ Connector!test_connector(s) \/ Connector!Finish(s)
  BY <1>1, <1>5 DEF Connector!handleSubmit, Connector!Refuse, Connector!StartTest,
         Connector!test_connector, Connector!Finish
<1>6. CASE UNCHANGED Connector!vars
  BY <1>1, <1>6 DEF Connector!vars
<1>. QED
  BY <1>2, <1>3, <1>4, <1>5, <1>6 DEF Connector!Next

(* The form after each step: a change while a chain is pending is remembered. *)
LEMMA ConnectorFormChanged ==
  ASSUME ConnectorInv, ConnectorFormTypes', Connector!Changed, saved' = None => testResult' = None,
         formOpen' => saved' = None \/ UNCHANGED <<saved, name, config, editConnector, testResult>>,
         ~formOpen' => saved' = None,
         ~formOpen => saved = None \/ overtaken
  PROVE  ConnectorFormInv'
<1>1. CASE Connector!isPending
  BY <1>1 DEF Connector!Changed, ConnectorFormInv, ConnectorFormTypes
<1>2. CASE ~Connector!isPending
  <2>1. \A s \in Chains : ~PendingChain(chain[s])
    BY <1>2 DEF Connector!isPending, PendingChain
  <2>2. chain' = chain /\ overtaken' = overtaken
    BY <1>2 DEF Connector!Changed, ConnectorInv, ConnectorFormInv, ConnectorFormTypes
  <2>3. ASSUME ~overtaken, saved' # None PROVE formOpen' /\ Connector!SavedIsShown'
    <3>1. UNCHANGED <<saved, name, config, editConnector, testResult>> /\ formOpen'
      BY <2>3
    <3>2. formOpen /\ Connector!SavedIsShown
      BY <2>3, <3>1 DEF ConnectorInv, ConnectorFormInv
    <3>. QED
      BY <3>1, <3>2, <2>2 DEF Connector!SavedIsShown
  <2>. QED
    BY <2>1, <2>2, <2>3 DEF ConnectorFormInv, PendingChain
<1>. QED
  BY <1>1, <1>2

LEMMA ConnectorFormStays ==
  ASSUME ConnectorInv, UNCHANGED <<Connector!formVars, overtaken>>,
         \A s \in Chains : PendingChain(chain'[s]) =>
            /\ PendingChain(chain[s]) /\ chain'[s].payload = chain[s].payload
            /\ chain'[s].edit = chain[s].edit
  PROVE  ConnectorFormInv'
BY DEF ConnectorInv, ConnectorFormInv, ConnectorFormTypes, Connector!formVars,
       Connector!SavedIsShown, ShowsChain, PendingChain

LEMMA ConnectorFormStep ==
  ASSUME Connector!FormAssumption, ConnectorInv, [Connector!Next]_(Connector!vars)
  PROVE  ConnectorFormInv'
<1>0. ConnectorFormInv /\ ConnectorFormTypes /\ ChainsInv /\ chain \in [Chains -> Chain]
  BY DEF ConnectorInv, ConnectorFormInv, ChainsInv
<1>1. ~formOpen => saved = None \/ overtaken
  BY <1>0 DEF ConnectorFormInv
<1>2. CASE Connector!AddConnector
  BY <1>0, <1>1, <1>2, ConnectorFormChanged DEF Connector!AddConnector, Connector!Changed,
         Connector!isPending, ConnectorFormInv, ConnectorFormTypes
<1>3. CASE Connector!handleClose
  BY <1>0, <1>1, <1>3, ConnectorFormChanged DEF Connector!handleClose, Connector!resetForm,
         Connector!Changed, Connector!isPending, ConnectorFormTypes,
     Connector!FormAssumption
<1>4. CASE Connector!EditField
  BY <1>0, <1>1, <1>4, ConnectorFormChanged DEF Connector!EditField, Connector!Changed,
         Connector!isPending, ConnectorFormInv, ConnectorFormTypes
<1>5. CASE \E r \in Rows : Connector!handleEdit(r)
  <2>1. PICK r \in Rows : Connector!handleEdit(r)
    BY <1>5
  <2>2. connectors[r][1] \in Titles
    BY <2>1 DEF Connector!handleEdit, ConnectorInv, RowsInv, Connector!Payload
  <2>. QED
    BY <1>0, <1>1, <2>1, <2>2, ConnectorFormChanged DEF Connector!handleEdit, Connector!Changed,
           Connector!isPending, ConnectorFormTypes
<1>6. CASE Connector!Leave
  <2>1. \A s \in Chains : ~PendingChain(chain'[s])
    <3>1. chain' = [s \in Chains |-> [chain[s] EXCEPT !.here = FALSE]]
      BY <1>6 DEF Connector!Leave
    <3>. QED
      BY <1>0, <3>1 DEF Chain, PendingChain
  <2>2. ConnectorFormTypes' /\ saved' = None /\ testResult' = None
    BY <1>0, <1>6 DEF Connector!Leave, Connector!resetForm, ConnectorFormTypes,
           Connector!FormAssumption
  <2>. QED
    BY <2>1, <2>2 DEF ConnectorFormInv, PendingChain
<1>7. CASE \E s \in Chains : Connector!handleSubmit(s)
  <2>1. PICK s \in Chains : Connector!handleSubmit(s)
    BY <1>7
  <2>2. \A t \in Chains : ~PendingChain(chain[t])
    BY <2>1 DEF Connector!handleSubmit, Connector!isPending, PendingChain
  <2>3. \A t \in Chains : PendingChain(chain'[t]) => ShowsChain(chain[t])'
    BY <1>0, <2>1, <2>2 DEF Connector!handleSubmit, Connector!formVars, PendingChain, ShowsChain
  <2>. QED
    BY <1>0, <2>1, <2>3 DEF Connector!handleSubmit, Connector!formVars, ConnectorFormInv,
           ConnectorFormTypes,
           PendingChain
<1>8. CASE \E s \in Chains : Connector!Finish(s)
  <2>1. PICK s \in Chains : Connector!Finish(s)
    BY <1>8
  <2>2. /\ chain' = [chain EXCEPT ![s] = Connector!Free]
        /\ UNCHANGED <<formOpen, editConnector, name, config, overtaken>>
    BY <2>1 DEF Connector!Finish
  <2>3. \A t \in Chains : PendingChain(chain'[t]) => t # s /\ chain'[t] = chain[t]
    BY <1>0, <2>2 DEF PendingChain, Connector!Free
  <2>4. CASE ~chain[s].here
    <3>1. UNCHANGED <<Connector!formVars, overtaken>>
      BY <2>1, <2>2, <2>4 DEF Connector!Finish, Connector!formVars
    <3>. QED
      BY <2>3, <3>1, ConnectorFormStays
  <2>5. CASE chain[s].here
    <3>1. PendingChain(chain[s]) /\ chain[s].stage \in {"tested", "untested"}
      BY <2>1, <2>5 DEF Connector!Finish, PendingChain
    <3>2. \A t \in Chains : ~PendingChain(chain'[t])
      BY <1>0, <2>3, <3>1 DEF ChainsInv
    <3>3. chain[s].payload \in Connector!Payload /\ chain[s].id \in Rows
          /\ chain[s].edit \in {None, chain[s].id}
      BY <1>0, <3>1 DEF ChainsInv, ChainOK
    <3>4. /\ saved' = <<chain[s].payload, chain[s].id>>
          /\ testResult' \in {chain[s].id, testResult}
      BY <2>1, <2>5 DEF Connector!Finish
    <3>5. saved' \in Connector!Payload \X Rows /\ saved' # None
      BY <3>3, <3>4 DEF Connector!FormAssumption, Connector!Payload
    <3>6. ConnectorFormTypes'
      BY <1>0, <2>2, <3>3, <3>4, <3>5 DEF ConnectorFormTypes
    <3>7. ASSUME ~overtaken PROVE formOpen' /\ Connector!SavedIsShown'
      <4>1. ShowsChain(chain[s]) /\ testResult = None
        BY <1>0, <3>1, <3>7 DEF ConnectorFormInv, ShowsChain
      <4>. QED
        BY <2>2, <3>3, <3>4, <4>1 DEF ShowsChain, Connector!SavedIsShown
    <3>. QED
      BY <2>2, <3>2, <3>5, <3>6, <3>7 DEF ConnectorFormInv, PendingChain
  <2>. QED
    BY <2>4, <2>5
<1>9. CASE \E s \in Chains, r \in Rows : Connector!create_connector(s, r)
  BY <1>0, <1>9, ConnectorFormStays DEF Connector!create_connector, PendingChain, Chain
<1>10. CASE \E s \in Chains : Connector!update_connector(s)
  BY <1>0, <1>10, ConnectorFormStays DEF Connector!update_connector, PendingChain, Chain
<1>11. CASE \E s \in Chains : Connector!Refuse(s)
  BY <1>0, <1>11, ConnectorFormStays DEF Connector!Refuse, PendingChain, Connector!Free
<1>12. CASE \E s \in Chains : Connector!StartTest(s) \/ Connector!test_connector(s)
  BY <1>0, <1>12, ConnectorFormStays DEF Connector!StartTest, Connector!test_connector,
         Connector!To,
         PendingChain, Chain
<1>13. CASE \E r \in Rows : Connector!delete_connector(r)
  BY <1>0, <1>13, ConnectorFormStays DEF Connector!delete_connector
<1>14. CASE UNCHANGED Connector!vars
  BY <1>0, <1>14, ConnectorFormStays DEF Connector!vars
<1>. QED
  BY <1>2, <1>3, <1>4, <1>5, <1>6, <1>7, <1>8, <1>9, <1>10, <1>11, <1>12, <1>13, <1>14
    DEF Connector!Next

(* What the console does, the view does or does not see. *)
LEMMA ConnectorInView == [ConsoleNext]_consoleVars => [Connector!Next]_(Connector!vars)
BY DEF ConsoleNext, consoleVars, connectorVars, Connector!vars, Connector!formVars

LEMMA ConnectorInvariance == ConsoleSpec => []ConnectorInv
<1>1. ConsoleInit => ConnectorInv
  BY ConnectorInitially, ConsoleAssumption DEF ConsoleInit
<1>2. ConnectorInv /\ [ConsoleNext]_consoleVars => ConnectorInv'
  BY ConnectorInView, ConsoleAssumption, ChainsStep, ConnectorFormStep, RowsStep DEF ConnectorInv
<1>. QED
  BY <1>1, <1>2, PTL DEF ConsoleSpec

(* Every variable of the form, its chains and the connectors keeps its type.   *)
THEOREM ConnectorTypeCorrect == ConsoleSpec => []Connector!TypeOK
<1>1. ConnectorInv => Connector!TypeOK
  BY DEF ConnectorInv, ChainsInv, ConnectorFormInv, ConnectorFormTypes, RowsInv, Chain,
         ChainStages, Connector!TypeOK
<1>. QED
  BY <1>1, ConnectorInvariance, PTL

(* A form that says it is saved shows what was stored, and in the connector it *)
(* shows, unless it was changed or opened again since the click, for any       *)
(* number of chains that go on behind it.                                      *)
THEOREM SavedFormIsShown == ConsoleSpec => []SavedIsShown
<1>1. ConnectorInv => SavedIsShown
  BY DEF ConnectorInv, ConnectorFormInv, SavedIsShown, Connector!SavedIsShown
<1>. QED
  BY <1>1, ConnectorInvariance, PTL

----------------------------------------------------------------------------
(* The form implements Submission.                                             *)

(* The submissions under way, as Submission sees them. *)
SentChains == [s \in Chains |-> IF chain[s].stage = "sent" THEN <<chain[s].payload, chain[s].edit>>
                                                    ELSE None]

(* A step that neither sends nor stores is a change of the form, or unseen. *)
LEMMA ChainUnseen ==
  ASSUME ConnectorInv, ConnectorFormInv', UNCHANGED connectors,
         \A s \in Chains : /\ chain'[s].stage = "sent" <=> chain[s].stage = "sent"
                           /\ chain[s].stage = "sent" =>
                                /\ chain'[s].payload = chain[s].payload
                                /\ chain'[s].edit = chain[s].edit
  PROVE  [Connector!Form!Next]_(Connector!Form!vars)
<1>1. SentChains' = SentChains
  BY DEF SentChains
<1>2. <<name, config>>' \in (Titles \cup {None}) \X Configs
      /\ editConnector' \in Rows \cup {None}
  BY DEF ConnectorFormInv, ConnectorFormTypes
<1>. QED
  BY <1>1, <1>2 DEF Connector!Form!Next, Connector!Form!Compose, Connector!Form!vars, SentChains

(* What a chain on its way carries. *)
LEMMA SentChainOnly ==
  ASSUME Connector!FormAssumption, ConnectorInv, NEW s \in Chains, chain[s].stage = "sent"
  PROVE  /\ SentChains[s] = <<chain[s].payload, chain[s].edit>> /\ SentChains[s] # None
         /\ SentChains[s][1] = chain[s].payload /\ SentChains[s][2] = chain[s].edit
<1>1. chain[s].payload \in Connector!Payload /\ chain[s].edit \in Rows \cup {None}
  BY DEF ConnectorInv, ChainsInv, ChainOK, Chain
<1>. QED
  BY <1>1 DEF SentChains, Connector!FormAssumption, Connector!Payload

LEMMA ConnectorStepsMap ==
  ASSUME Connector!FormAssumption, ConnectorInv, [Connector!Next]_(Connector!vars)
  PROVE  [Connector!Form!Next]_(Connector!Form!vars)
<1>0. chain \in [Chains -> Chain] /\ ConnectorFormInv'
  BY ConnectorFormStep DEF ConnectorInv, ChainsInv
<1>1. CASE \E s \in Chains : Connector!handleSubmit(s)
  <2>1. PICK s \in Chains : Connector!handleSubmit(s)
    BY <1>1
  <2>2. <<name, config>> \in Connector!Payload
    BY <2>1 DEF Connector!handleSubmit, ConnectorInv, ConnectorFormInv, ConnectorFormTypes,
           Connector!Payload
  <2>3. SentChains[s] = None
    BY <2>1 DEF Connector!handleSubmit, Connector!Free, SentChains
  <2>4. SentChains' = [SentChains EXCEPT ![s] = <<<<name, config>>, editConnector>>]
    BY <1>0, <2>1 DEF Connector!handleSubmit, SentChains
  <2>5. UNCHANGED <<name, config, editConnector, connectors>>
    BY <2>1 DEF Connector!handleSubmit, Connector!formVars
  <2>6. Connector!Form!Click(s)
    BY <2>2, <2>3, <2>4, <2>5 DEF Connector!Form!Click, SentChains
  <2>. QED
    BY <2>6 DEF Connector!Form!Next
<1>2. ASSUME NEW s \in Chains, NEW r \in Rows, chain[s].stage = "sent",
             IF chain[s].edit = None THEN connectors[r] = None
                                     ELSE r = chain[s].edit /\ connectors[r] # None,
             connectors' = [connectors EXCEPT ![r] = chain[s].payload],
             chain' = [chain EXCEPT ![s].stage = "stored", ![s].id = r],
             UNCHANGED Connector!formVars
      PROVE  [Connector!Form!Next]_(Connector!Form!vars)
  <2>1. /\ SentChains[s] # None /\ SentChains[s][1] = chain[s].payload
        /\ SentChains[s][2] = chain[s].edit
    BY <1>2, SentChainOnly
  <2>2. SentChains' = [SentChains EXCEPT ![s] = None]
    BY <1>0, <1>2 DEF SentChains, Chain
  <2>3. UNCHANGED <<name, config, editConnector>>
    BY <1>2 DEF Connector!formVars
  <2>4. Connector!Form!Store(s, r)
    BY <1>2, <2>1, <2>2, <2>3 DEF Connector!Form!Store, SentChains
  <2>. QED
    BY <2>4 DEF Connector!Form!Next
<1>3. CASE \E s \in Chains, r \in Rows : Connector!create_connector(s, r)
  BY <1>2, <1>3 DEF Connector!create_connector
<1>4. CASE \E s \in Chains : Connector!update_connector(s)
  <2>1. PICK s \in Chains : Connector!update_connector(s)
    BY <1>4
  <2>2. chain[s].edit \in Rows
    BY <1>0, <2>1 DEF Connector!update_connector, Chain
  <2>. QED
    BY <1>2, <2>1, <2>2 DEF Connector!update_connector
<1>5. CASE \E s \in Chains : Connector!Refuse(s)
  <2>1. PICK s \in Chains : Connector!Refuse(s)
    BY <1>5
  <2>2. UNCHANGED <<name, config, editConnector, connectors>>
        /\ chain' = [chain EXCEPT ![s] = Connector!Free]
    BY <2>1 DEF Connector!Refuse, Connector!formVars
  <2>3. CASE chain[s].stage = "stored"
    BY <1>0, <2>2, <2>3, ChainUnseen DEF Connector!Free
  <2>4. CASE chain[s].stage = "sent"
    <3>1. SentChains[s] # None
      BY <2>4, SentChainOnly
    <3>2. SentChains' = [SentChains EXCEPT ![s] = None]
      BY <1>0, <2>2 DEF SentChains, Connector!Free
    <3>3. Connector!Form!Lose(s)
      BY <2>2, <3>1, <3>2 DEF Connector!Form!Lose, SentChains
    <3>. QED
      BY <3>3 DEF Connector!Form!Next
  <2>. QED
    BY <2>1, <2>3, <2>4 DEF Connector!Refuse
<1>6. CASE \E r \in Rows : Connector!delete_connector(r)
  <2>1. PICK r \in Rows : Connector!delete_connector(r)
    BY <1>6
  <2>2. SentChains' = SentChains /\ UNCHANGED <<name, config, editConnector>>
    BY <2>1 DEF Connector!delete_connector, Connector!formVars, SentChains
  <2>3. Connector!Form!Remove(r)
    BY <2>1, <2>2 DEF Connector!delete_connector, Connector!Form!Remove, SentChains
  <2>. QED
    BY <2>3 DEF Connector!Form!Next
<1>7. CASE \E s \in Chains : Connector!StartTest(s) \/ Connector!test_connector(s)
  <2>1. PICK s \in Chains, stage \in {"testing", "tested", "untested"} :
          chain[s].stage \in {"stored", "testing"} /\ Connector!To(s, stage) /\ UNCHANGED connectors
    BY <1>7 DEF Connector!StartTest, Connector!test_connector
  <2>. QED
    BY <1>0, <2>1, ChainUnseen DEF Connector!To, Chain
<1>8. CASE \E s \in Chains : Connector!Finish(s)
  BY <1>0, <1>8, ChainUnseen DEF Connector!Finish, Connector!Free
<1>9. CASE Connector!Leave
  <2>1. chain' = [s \in Chains |-> [chain[s] EXCEPT !.here = FALSE]] /\ UNCHANGED connectors
    BY <1>9 DEF Connector!Leave
  <2>2. \A s \in Chains : /\ chain'[s].stage = chain[s].stage
                          /\ chain'[s].payload = chain[s].payload
                          /\ chain'[s].edit = chain[s].edit
    BY <1>0, <2>1 DEF Chain
  <2>. QED
    BY <1>0, <2>1, <2>2, ChainUnseen
<1>10. CASE \/ Connector!AddConnector \/ Connector!handleClose \/ Connector!EditField
            \/ \E r \in Rows : Connector!handleEdit(r)
  BY <1>0, <1>10, ChainUnseen DEF Connector!AddConnector, Connector!handleClose,
         Connector!EditField, Connector!handleEdit, Connector!Changed
<1>11. CASE UNCHANGED Connector!vars
  BY <1>0, <1>11, ChainUnseen DEF Connector!vars
<1>. QED
  BY <1>1, <1>3, <1>4, <1>5, <1>6, <1>7, <1>8, <1>9, <1>10, <1>11 DEF Connector!Next

(* The dialog implements Submission: for a click at most one connector is      *)
(* stored, as the form showed it, and in the one it showed; however the form   *)
(* is changed, closed, opened for another, or left meanwhile.                  *)
THEOREM ConnectorKeepsPromise == ConsoleSpec => OneConnectorPerClick
<1>1. ASSUME ConsoleInit PROVE Connector!Form!Init
  BY <1>1, ConsoleAssumption DEF ConsoleInit, Connector!FormAssumption, Connector!Init,
         Connector!Form!Init, Connector!Free, Connector!Payload
<1>2. ConnectorInv /\ [ConsoleNext]_consoleVars => [Connector!Form!Next]_(Connector!Form!vars)
  BY ConnectorStepsMap, ConnectorInView, ConsoleAssumption
<1>. QED
  BY <1>1, <1>2, ConnectorInvariance, PTL DEF ConsoleSpec, OneConnectorPerClick,
         Connector!OneConnectorPerClick, Connector!Form!Spec

----------------------------------------------------------------------------
(* CDC jobs.                                                                   *)

(* What is chosen is chosen in order, and a column belongs to the table that is
   chosen with it: in the form, in the requests and in the jobs. *)
ChosenInOrder ==
  /\ chosen[3] # None => chosen[2] # None
  /\ chosen[2] # None => chosen[1] # None

JobFormTracks == tracking # None => chosen \in JobForm!Keys /\ tracking \in Columns[chosen]

RequestsTrack ==
  \A s \in Chains :
    LET p == creation[s].payload IN
    /\ creation[s].stage # "free" => p \in JobForm!Payload
    /\ p # None => p[2] \in Columns[p[1]]

JobInv ==
  /\ JobForm!TypeOK /\ ChosenInOrder /\ JobFormTracks /\ RequestsTrack
  /\ JobForm!JobsTrackTheirTable

(* An empty form, no request and no job. *)
LEMMA JobInitially == ASSUME JobForm!FormAssumption, JobForm!Init PROVE JobInv
BY DEF JobForm!Init, JobInv, JobForm!TypeOK, ChosenInOrder, JobFormTracks, RequestsTrack,
       JobForm!JobsTrackTheirTable,
       JobForm!FormAssumption, JobForm!Payload, JobForm!Keys, JobForm!Free, JobForm!Unchosen

(* What a table chosen in order is. *)
LEMMA ChosenKey ==
  ASSUME JobForm!TypeOK, ChosenInOrder, chosen[3] # None
  PROVE  chosen \in JobForm!Keys
BY DEF JobForm!TypeOK, ChosenInOrder, JobForm!Keys

(* The changes of the form, by the user or by an answer, keep what it shows in
   order. *)
LEMMA JobFormKept ==
  ASSUME JobForm!FormAssumption, JobInv, [JobForm!Next]_(JobForm!vars)
  PROVE  /\ ChosenInOrder' /\ JobFormTracks'
         /\ chosen' \in (Connectors \cup {None}) \X (Schemas \cup {None}) \X (Tables \cup {None})
         /\ tracking' \in Names \cup {None} /\ open' \in BOOLEAN /\ filled' \in BOOLEAN
         /\ touched' \in BOOLEAN
<1>. USE DEF JobForm!FormAssumption, JobInv, JobForm!TypeOK, ChosenInOrder, JobFormTracks
<1>1. CASE UNCHANGED JobForm!vars \/ JobForm!OpenForm
  BY <1>1 DEF JobForm!vars, JobForm!formVars, JobForm!OpenForm
<1>2. CASE JobForm!CloseForm
  BY <1>2 DEF JobForm!CloseForm, JobForm!resetForm, JobForm!Unchosen, JobForm!isPending
<1>12. CASE JobForm!Leave
  <2>1. chosen' = <<None, None, None>> /\ tracking' = None /\ UNCHANGED touched
    BY <1>12 DEF JobForm!Leave, JobForm!resetForm, JobForm!Unchosen
  <2>2. open' = FALSE /\ filled' = FALSE
    BY <1>12 DEF JobForm!Leave, JobForm!resetForm
  <2>. QED
    BY <2>1, <2>2
<1>3. CASE JobForm!EditText
  BY <1>3 DEF JobForm!EditText, JobForm!Show, JobForm!isPending
<1>4. CASE \E c \in Connectors : JobForm!PickConnector(c)
  BY <1>4 DEF JobForm!PickConnector, JobForm!Show, JobForm!isPending
<1>5. CASE \E s \in Schemas : JobForm!PickSchema(s)
  BY <1>5 DEF JobForm!PickSchema, JobForm!Show, JobForm!isPending
<1>6. CASE \E t \in Tables : JobForm!PickTable(t)
  BY <1>6 DEF JobForm!PickTable, JobForm!Show, JobForm!isPending
<1>7. CASE \E n \in Names : JobForm!PickColumn(n)
  <2>1. PICK n \in Names : JobForm!PickColumn(n)
    BY <1>7
  <2>2. chosen \in JobForm!Keys
    BY <2>1, ChosenKey DEF JobForm!PickColumn
  <2>. QED
    BY <2>1, <2>2 DEF JobForm!PickColumn, JobForm!Show, JobForm!isPending
<1>8. CASE \E s \in Chains : JobForm!handleSubmit(s) \/ JobForm!Refuse(s) \/ JobForm!OnError(s)
  BY <1>8 DEF JobForm!handleSubmit, JobForm!Refuse, JobForm!OnError, JobForm!Answer,
         JobForm!formVars
<1>9. CASE \E s \in Chains : JobForm!OnSuccess(s)
  <2>1. UNCHANGED touched
    BY <1>9 DEF JobForm!OnSuccess, JobForm!Answer
  <2>2. CASE UNCHANGED JobForm!formVars
    BY <2>1, <2>2 DEF JobForm!formVars
  <2>3. CASE JobForm!resetForm /\ open' = FALSE
    <3>1. chosen' = <<None, None, None>> /\ tracking' = None /\ filled' = FALSE
      BY <2>3 DEF JobForm!resetForm, JobForm!Unchosen
    <3>. QED
      BY <2>1, <2>3, <3>1
  <2>. QED
    BY <1>9, <2>2, <2>3 DEF JobForm!OnSuccess
<1>10. CASE \E s \in Chains, j \in Jobs : JobForm!create_job(s, j)
  BY <1>10 DEF JobForm!create_job, JobForm!formVars
<1>11. CASE \E j \in Jobs : JobForm!Delete(j)
  BY <1>11 DEF JobForm!Delete, JobForm!formVars
<1>. QED
  BY <1>1, <1>2, <1>3, <1>4, <1>5, <1>6, <1>7, <1>8, <1>9, <1>10, <1>11, <1>12
  DEF JobForm!Next, JobForm!ByUser

(* A request carries what the form showed, and a job what a request carries. *)
LEMMA JobStoredKept ==
  ASSUME JobForm!FormAssumption, JobInv, [JobForm!Next]_(JobForm!vars)
  PROVE  /\ RequestsTrack' /\ JobForm!JobsTrackTheirTable'
         /\ creation' \in [Chains -> [stage : {"free", "sent", "stored", "refused"},
                                     payload : JobForm!Payload \cup {None}, here : BOOLEAN]]
         /\ jobs' \in [Jobs -> JobForm!Payload \cup {None}]
<1>. USE DEF JobForm!FormAssumption, JobInv, JobForm!TypeOK, RequestsTrack,
       JobForm!JobsTrackTheirTable
<1>1. CASE UNCHANGED <<creation, jobs>>
  BY <1>1
<1>2. CASE JobForm!Leave
  <2>1. UNCHANGED jobs /\ creation' = [s \in Chains |-> [creation[s] EXCEPT !.here = FALSE]]
    BY <1>2 DEF JobForm!Leave
  <2>2. ASSUME NEW s \in Chains
        PROVE  /\ creation'[s] \in [stage : {"free", "sent", "stored", "refused"},
                                    payload : JobForm!Payload \cup {None}, here : BOOLEAN]
               /\ creation'[s].stage = creation[s].stage
               /\ creation'[s].payload = creation[s].payload
    <3>1. creation'[s] = [creation[s] EXCEPT !.here = FALSE]
      BY <2>1
    <3>2. creation[s] \in [stage : {"free", "sent", "stored", "refused"},
                           payload : JobForm!Payload \cup {None}, here : BOOLEAN]
      OBVIOUS
    <3>. QED
      BY ONLY <3>1, <3>2
  <2>3. creation' \in [Chains -> [stage : {"free", "sent", "stored", "refused"},
                                 payload : JobForm!Payload \cup {None}, here : BOOLEAN]]
    BY <2>1, <2>2
  <2>. QED
    BY <2>1, <2>2, <2>3
<1>3. CASE \E s \in Chains : JobForm!handleSubmit(s)
  <2>1. PICK s \in Chains : JobForm!handleSubmit(s)
    BY <1>3
  <2>2. <<chosen, tracking>> \in JobForm!Payload /\ tracking \in Columns[chosen]
    BY <2>1 DEF JobForm!handleSubmit, JobForm!canSubmit, JobFormTracks, JobForm!Payload
  <2>. QED
    BY <2>1, <2>2 DEF JobForm!handleSubmit
<1>4. CASE \E s \in Chains : JobForm!Refuse(s)
  BY <1>4 DEF JobForm!Refuse
<1>5. CASE \E s \in Chains : JobForm!OnSuccess(s) \/ JobForm!OnError(s)
  <2>1. PICK s \in Chains : JobForm!Answer(s)
    BY <1>5 DEF JobForm!OnSuccess, JobForm!OnError
  <2>. QED
    BY <2>1 DEF JobForm!Answer, JobForm!Free
<1>6. CASE \E s \in Chains, j \in Jobs : JobForm!create_job(s, j)
  BY <1>6 DEF JobForm!create_job
<1>7. CASE \E j \in Jobs : JobForm!Delete(j)
  BY <1>7 DEF JobForm!Delete
<1>8. CASE \E c \in Connectors : JobForm!PickConnector(c)
  BY <1>1, <1>8 DEF JobForm!PickConnector, JobForm!Show
<1>9. CASE \E s \in Schemas : JobForm!PickSchema(s)
  BY <1>1, <1>9 DEF JobForm!PickSchema, JobForm!Show
<1>10. CASE \E t \in Tables : JobForm!PickTable(t)
  BY <1>1, <1>10 DEF JobForm!PickTable, JobForm!Show
<1>11. CASE \E n \in Names : JobForm!PickColumn(n)
  BY <1>1, <1>11 DEF JobForm!PickColumn, JobForm!Show
<1>12. CASE JobForm!OpenForm \/ JobForm!CloseForm \/ JobForm!EditText
  BY <1>1, <1>12 DEF JobForm!OpenForm, JobForm!CloseForm, JobForm!EditText, JobForm!Show
<1>. QED
  BY <1>1, <1>2, <1>3, <1>4, <1>5, <1>6, <1>7, <1>8, <1>9, <1>10, <1>11, <1>12
    DEF JobForm!Next, JobForm!ByUser, JobForm!vars

(* Every step keeps the invariant. *)
LEMMA JobInvStep ==
  ASSUME JobForm!FormAssumption, JobInv, [JobForm!Next]_(JobForm!vars)
  PROVE  JobInv'
BY JobFormKept, JobStoredKept DEF JobInv, JobForm!TypeOK

(* What the console does, the view does or does not see. *)
LEMMA JobInView == [ConsoleNext]_consoleVars => [JobForm!Next]_(JobForm!vars)
BY DEF ConsoleNext, consoleVars, jobFormVars, JobForm!vars, JobForm!formVars

LEMMA JobInvariance == ConsoleSpec => []JobInv
<1>1. ConsoleInit => JobInv
  BY JobInitially, ConsoleAssumption DEF ConsoleInit
<1>2. JobInv /\ [ConsoleNext]_consoleVars => JobInv'
  BY JobInView, ConsoleAssumption, JobInvStep
<1>. QED
  BY <1>1, <1>2, PTL DEF ConsoleSpec

(* Every variable of the form, its requests and the jobs keeps its type.       *)
THEOREM JobTypeCorrect == ConsoleSpec => []JobForm!TypeOK
<1>1. JobInv => JobForm!TypeOK
  BY DEF JobInv
<1>. QED
  BY <1>1, JobInvariance, PTL

(* A job tracks a column of its own table, in whatever order connectors,       *)
(* schemas, tables and columns are chosen, requests sent and answers handled.  *)
THEOREM JobsTrack == ConsoleSpec => []JobsTrackTheirTable
<1>1. JobInv => JobsTrackTheirTable
  BY DEF JobInv, JobsTrackTheirTable
<1>. QED
  BY <1>1, JobInvariance, PTL

(* Until the form changes, it shows what its one request under way carries.    *)
JobShown ==
  /\ \A s, t \in Chains : creation[s].stage # "free" /\ creation[s].here
                       /\ creation[t].stage # "free" /\ creation[t].here => s = t
  /\ ~touched => \A s \in Chains : creation[s].stage # "free" /\ creation[s].here =>
                   creation[s].payload = <<chosen, tracking>>

(* Requests that go on, come to an end or lose their page, while the form and  *)
(* its history stay as they are.                                               *)
LEMMA JobShownStays ==
  ASSUME JobShown, UNCHANGED <<chosen, tracking, touched>>,
         \A s \in Chains : creation'[s].stage # "free" /\ creation'[s].here =>
           /\ creation[s].stage # "free" /\ creation[s].here
           /\ creation'[s].payload = creation[s].payload
  PROVE  JobShown'
BY DEF JobShown

(* Every step keeps that: a changed form is marked while a request is under    *)
(* way, and a click sends what is shown and nothing is under way beside it.    *)
LEMMA JobShownStep ==
  ASSUME JobForm!TypeOK, JobShown, [JobForm!Next]_(JobForm!vars)
  PROVE  JobShown'
<1>. USE DEF JobForm!TypeOK
<1>1. ASSUME UNCHANGED creation, touched' = (touched \/ JobForm!isPending)
      PROVE  JobShown'
  BY <1>1 DEF JobShown, JobForm!isPending
<1>2. CASE JobForm!CloseForm \/ JobForm!EditText
  BY <1>1, <1>2 DEF JobForm!CloseForm, JobForm!EditText, JobForm!Show
<1>3. CASE \/ \E c \in Connectors : JobForm!PickConnector(c)
           \/ \E s \in Schemas : JobForm!PickSchema(s)
           \/ \E t \in Tables : JobForm!PickTable(t)
           \/ \E n \in Names : JobForm!PickColumn(n)
  BY <1>1, <1>3 DEF JobForm!PickConnector, JobForm!PickSchema, JobForm!PickTable,
         JobForm!PickColumn, JobForm!Show
<1>4. ASSUME NEW s \in Chains, JobForm!handleSubmit(s) PROVE JobShown'
  <2>1. creation'[s].payload = <<chosen, tracking>> /\ UNCHANGED <<chosen, tracking>>
    BY <1>4 DEF JobForm!handleSubmit, JobForm!formVars
  <2>2. \A t \in Chains : creation'[t].stage # "free" /\ creation'[t].here => t = s
    BY <1>4 DEF JobForm!handleSubmit, JobForm!isPending
  <2>. QED
    BY <2>1, <2>2 DEF JobShown
<1>5. ASSUME NEW s \in Chains, JobForm!Refuse(s) PROVE JobShown'
  BY <1>5, JobShownStays DEF JobForm!Refuse, JobForm!formVars
<1>6. ASSUME NEW s \in Chains, NEW j \in Jobs, JobForm!create_job(s, j) PROVE JobShown'
  BY <1>6, JobShownStays DEF JobForm!create_job, JobForm!formVars
<1>7. ASSUME NEW s \in Chains, JobForm!OnError(s) PROVE JobShown'
  BY <1>7, JobShownStays DEF JobForm!OnError, JobForm!Answer, JobForm!formVars, JobForm!Free
<1>8. ASSUME NEW s \in Chains, JobForm!OnSuccess(s) PROVE JobShown'
  <2>1. creation' = [creation EXCEPT ![s] = JobForm!Free] /\ UNCHANGED touched
    BY <1>8 DEF JobForm!OnSuccess, JobForm!Answer
  <2>2. CASE creation[s].here
    <3>1. \A t \in Chains : ~(creation'[t].stage # "free" /\ creation'[t].here)
      BY <1>8, <2>1, <2>2 DEF JobShown, JobForm!OnSuccess, JobForm!Free
    <3>. QED
      BY <3>1 DEF JobShown
  <2>3. CASE ~creation[s].here
    BY <1>8, <2>1, <2>3, JobShownStays DEF JobForm!OnSuccess, JobForm!formVars, JobForm!Free
  <2>. QED
    BY <2>2, <2>3
<1>9. CASE JobForm!Leave
  BY <1>9 DEF JobForm!Leave, JobShown
<1>10. CASE JobForm!OpenForm \/ (\E j \in Jobs : JobForm!Delete(j)) \/ UNCHANGED JobForm!vars
  BY <1>10, JobShownStays DEF JobForm!OpenForm, JobForm!Delete, JobForm!vars, JobForm!formVars
<1>. QED
  BY <1>2, <1>3, <1>4, <1>5, <1>6, <1>7, <1>8, <1>9, <1>10 DEF JobForm!Next, JobForm!ByUser

(* Only the answer that stored a job resets the form by itself, and that job is *)
(* what the form shows, unless it was changed under the request.               *)
LEMMA EntriesGoForReason ==
  ASSUME JobForm!TypeOK, JobShown, [JobForm!Next]_(JobForm!vars)
  PROVE  \/ UNCHANGED JobForm!formVars
         \/ JobForm!ByUser
         \/ \E s \in Chains :
              /\ creation[s].stage = "stored" /\ creation[s].here /\ creation'[s] = JobForm!Free
              /\ touched \/ creation[s].payload = <<chosen, tracking>>
<1>1. ASSUME NEW s \in Chains, JobForm!OnSuccess(s), ~UNCHANGED JobForm!formVars
      PROVE  /\ creation[s].stage = "stored" /\ creation[s].here /\ creation'[s] = JobForm!Free
             /\ touched \/ creation[s].payload = <<chosen, tracking>>
  <2>1. creation[s].stage = "stored" /\ creation[s].here
    BY <1>1 DEF JobForm!OnSuccess
  <2>2. creation'[s] = JobForm!Free
    BY <1>1 DEF JobForm!OnSuccess, JobForm!Answer, JobForm!TypeOK
  <2>3. touched \/ creation[s].payload = <<chosen, tracking>>
    BY <2>1 DEF JobShown
  <2>. QED
    BY <2>1, <2>2, <2>3
<1>2. ASSUME NEW s \in Chains, JobForm!handleSubmit(s) \/ JobForm!Refuse(s) \/ JobForm!OnError(s)
      PROVE  UNCHANGED JobForm!formVars
  BY <1>2 DEF JobForm!handleSubmit, JobForm!Refuse, JobForm!OnError
<1>3. ASSUME \E j \in Jobs : JobForm!Delete(j) \/ \E s \in Chains : JobForm!create_job(s, j)
      PROVE  UNCHANGED JobForm!formVars
  BY <1>3 DEF JobForm!Delete, JobForm!create_job
<1>4. CASE UNCHANGED JobForm!vars
  BY <1>4 DEF JobForm!vars
<1>. QED
  BY <1>1, <1>2, <1>3, <1>4 DEF JobForm!Next

(* Nothing in the job form changes or goes but by the user's hand, or by the   *)
(* answer that stored what it shows, whatever requests, refusals, visits and   *)
(* answers come before and between.                                            *)
THEOREM EntriesAreKept == ConsoleSpec => EntriesKept
<1>1. ConsoleInit => JobShown
  BY DEF ConsoleInit, JobForm!Init, JobForm!Free, JobShown
<1>2. JobInv /\ JobShown /\ [ConsoleNext]_consoleVars => JobShown'
  BY JobInView, JobShownStep DEF JobInv
<1>3. JobInv /\ JobShown /\ [ConsoleNext]_consoleVars =>
        [\/ UNCHANGED JobForm!formVars
         \/ JobForm!ByUser
         \/ \E s \in Chains :
              /\ creation[s].stage = "stored" /\ creation[s].here /\ creation'[s] = JobForm!Free
              /\ touched \/ creation[s].payload = <<chosen, tracking>>]_(JobForm!vars)
  BY JobInView, EntriesGoForReason DEF JobInv
<1>. QED
  BY <1>1, <1>2, <1>3, JobInvariance, PTL DEF ConsoleSpec, EntriesKept, JobForm!EntriesKept

----------------------------------------------------------------------------
(* The form implements Submission.                                             *)

(* The submissions under way, as Submission sees them. *)
SentJobs == [s \in Chains |-> IF creation[s].stage = "sent" THEN <<creation[s].payload, None>>
                                                      ELSE None]

(* A slot that stays or leaves "sent". *)
LEMMA SentJobOnly ==
  ASSUME JobForm!FormAssumption, JobInv, NEW s \in Chains, creation[s].stage = "sent"
  PROVE  /\ SentJobs[s] = <<creation[s].payload, None>> /\ SentJobs[s] # None
         /\ creation[s].payload \in JobForm!Payload
BY DEF JobForm!FormAssumption, JobInv, JobForm!TypeOK, RequestsTrack, SentJobs, JobForm!Payload

(* A change of the form is Compose; a click, what is stored, what is lost and a
   deletion are those of Submission; answers are not seen by it. *)
LEMMA JobStepsMap ==
  ASSUME JobForm!FormAssumption, JobInv, [JobForm!Next]_(JobForm!vars)
  PROVE  [JobForm!Form!Next]_(JobForm!Form!vars)
<1>1. CASE SentJobs' = SentJobs /\ UNCHANGED jobs
  <2>1. <<chosen, tracking>>' \in ((Connectors \cup {None}) \X (Schemas \cup {None})
                                    \X (Tables \cup {None})) \X (Names \cup {None})
    BY JobFormKept
  <2>. QED
    BY <1>1, <2>1 DEF JobForm!Form!Next, JobForm!Form!Compose, JobForm!Form!vars, SentJobs
<1>2. CASE \E s \in Chains : JobForm!handleSubmit(s)
  <2>1. PICK s \in Chains : JobForm!handleSubmit(s)
    BY <1>2
  <2>2. <<chosen, tracking>> \in JobForm!Payload /\ creation \in [Chains -> [
              stage : {"free", "sent", "stored", "refused"},
              payload : JobForm!Payload \cup {None}, here : BOOLEAN]]
    BY <2>1 DEF JobForm!handleSubmit, JobForm!canSubmit, JobInv, JobForm!TypeOK, JobFormTracks,
           JobForm!Payload
  <2>3. SentJobs[s] = None
    BY <2>1 DEF JobForm!handleSubmit, JobForm!Free, SentJobs
  <2>4. SentJobs' = [SentJobs EXCEPT ![s] = <<<<chosen, tracking>>, None>>]
    BY <2>1, <2>2 DEF JobForm!handleSubmit, SentJobs
  <2>5. UNCHANGED <<chosen, tracking, jobs>>
    BY <2>1 DEF JobForm!handleSubmit, JobForm!formVars
  <2>6. JobForm!Form!Click(s)
    BY <2>2, <2>3, <2>4, <2>5 DEF JobForm!Form!Click, SentJobs
  <2>. QED
    BY <2>6 DEF JobForm!Form!Next
<1>3. CASE \E s \in Chains, j \in Jobs : JobForm!create_job(s, j)
  <2>1. PICK s \in Chains, j \in Jobs : JobForm!create_job(s, j)
    BY <1>3
  <2>2. creation \in [Chains -> [stage : {"free", "sent", "stored", "refused"},
                               payload : JobForm!Payload \cup {None}, here : BOOLEAN]]
    BY DEF JobInv, JobForm!TypeOK
  <2>3. SentJobs[s] = <<creation[s].payload, None>> /\ SentJobs[s] # None
    BY <2>1, SentJobOnly DEF JobForm!create_job
  <2>4. SentJobs' = [SentJobs EXCEPT ![s] = None]
    BY <2>1, <2>2 DEF JobForm!create_job, SentJobs
  <2>5. UNCHANGED <<chosen, tracking>>
    BY <2>1 DEF JobForm!create_job, JobForm!formVars
  <2>6. jobs[j] = None /\ jobs' = [jobs EXCEPT ![j] = SentJobs[s][1]]
    BY <2>1, <2>3 DEF JobForm!create_job
  <2>7. JobForm!Form!Store(s, j)
    BY <2>3, <2>4, <2>5, <2>6 DEF JobForm!Form!Store, SentJobs
  <2>. QED
    BY <2>7 DEF JobForm!Form!Next
<1>4. CASE \E s \in Chains : JobForm!Refuse(s)
  <2>1. PICK s \in Chains : JobForm!Refuse(s)
    BY <1>4
  <2>2. creation \in [Chains -> [stage : {"free", "sent", "stored", "refused"},
                               payload : JobForm!Payload \cup {None}, here : BOOLEAN]]
    BY DEF JobInv, JobForm!TypeOK
  <2>3. UNCHANGED <<chosen, tracking, jobs>>
    BY <2>1 DEF JobForm!Refuse, JobForm!formVars
  <2>4. CASE creation[s].stage = "stored"
    <3>1. SentJobs' = SentJobs
      BY <2>1, <2>2, <2>4 DEF JobForm!Refuse, SentJobs
    <3>. QED
      BY <1>1, <2>3, <3>1
  <2>5. CASE creation[s].stage = "sent"
    <3>1. SentJobs[s] # None
      BY <2>5, SentJobOnly
    <3>2. SentJobs' = [SentJobs EXCEPT ![s] = None]
      BY <2>1, <2>2, <2>5 DEF JobForm!Refuse, SentJobs
    <3>3. JobForm!Form!Lose(s)
      BY <2>3, <3>1, <3>2 DEF JobForm!Form!Lose, SentJobs
    <3>. QED
      BY <3>3 DEF JobForm!Form!Next
  <2>. QED
    BY <2>1, <2>4, <2>5 DEF JobForm!Refuse
<1>5. CASE \E j \in Jobs : JobForm!Delete(j)
  <2>1. PICK j \in Jobs : JobForm!Delete(j)
    BY <1>5
  <2>2. SentJobs' = SentJobs /\ UNCHANGED <<chosen, tracking>>
    BY <2>1 DEF JobForm!Delete, JobForm!formVars, SentJobs
  <2>3. JobForm!Form!Remove(j)
    BY <2>1, <2>2 DEF JobForm!Delete, JobForm!Form!Remove, SentJobs
  <2>. QED
    BY <2>3 DEF JobForm!Form!Next
<1>6. CASE JobForm!Leave
  <2>1. UNCHANGED jobs /\ creation' = [s \in Chains |-> [creation[s] EXCEPT !.here = FALSE]]
    BY <1>6 DEF JobForm!Leave
  <2>2. ASSUME NEW s \in Chains
        PROVE  /\ creation'[s].stage = creation[s].stage
               /\ creation'[s].payload = creation[s].payload
    BY <2>1 DEF JobInv, JobForm!TypeOK
  <2>3. SentJobs' = SentJobs
    BY <2>2 DEF SentJobs
  <2>. QED
    BY <1>1, <2>1, <2>3
<1>7. CASE \E s \in Chains : JobForm!OnSuccess(s) \/ JobForm!OnError(s)
  <2>1. PICK s \in Chains : JobForm!Answer(s) /\ creation[s].stage # "sent"
    BY <1>7 DEF JobForm!OnSuccess, JobForm!OnError
  <2>2. creation \in [Chains -> [stage : {"free", "sent", "stored", "refused"},
                               payload : JobForm!Payload \cup {None}, here : BOOLEAN]]
    BY DEF JobInv, JobForm!TypeOK
  <2>3. SentJobs' = SentJobs /\ UNCHANGED jobs
    BY <2>1, <2>2 DEF JobForm!Answer, JobForm!Free, SentJobs
  <2>. QED
    BY <1>1, <2>3
<1>8. CASE UNCHANGED <<creation, jobs>>
  BY <1>1, <1>8 DEF SentJobs
<1>9. CASE \E c \in Connectors : JobForm!PickConnector(c)
  BY <1>8, <1>9 DEF JobForm!PickConnector, JobForm!Show
<1>10. CASE \E s \in Schemas : JobForm!PickSchema(s)
  BY <1>8, <1>10 DEF JobForm!PickSchema, JobForm!Show
<1>11. CASE \E t \in Tables : JobForm!PickTable(t)
  BY <1>8, <1>11 DEF JobForm!PickTable, JobForm!Show
<1>12. CASE \E n \in Names : JobForm!PickColumn(n)
  BY <1>8, <1>12 DEF JobForm!PickColumn, JobForm!Show
<1>13. CASE JobForm!OpenForm \/ JobForm!CloseForm \/ JobForm!EditText
  BY <1>8, <1>13 DEF JobForm!OpenForm, JobForm!CloseForm, JobForm!EditText, JobForm!Show
<1>. QED
  BY <1>2, <1>3, <1>4, <1>5, <1>6, <1>7, <1>8, <1>9, <1>10, <1>11, <1>12, <1>13
    DEF JobForm!Next, JobForm!ByUser, JobForm!vars

(* The dialog implements Submission: a job for a click at most, of what the    *)
(* form showed at it, however the form is changed, closed, left and refused.   *)
THEOREM JobKeepsPromise == ConsoleSpec => OneJobPerClick
<1>1. ASSUME ConsoleInit PROVE JobForm!Form!Init
  BY <1>1, ConsoleAssumption DEF ConsoleInit, JobForm!FormAssumption, JobForm!Init,
         JobForm!Form!Init, JobForm!Free, JobForm!Unchosen
<1>2. JobInv /\ [ConsoleNext]_consoleVars => [JobForm!Form!Next]_(JobForm!Form!vars)
  BY JobStepsMap, JobInView, ConsoleAssumption
<1>. QED
  BY <1>1, <1>2, JobInvariance, PTL DEF ConsoleSpec, OneJobPerClick, JobForm!OneJobPerClick,
         JobForm!Form!Spec
=============================================================================
