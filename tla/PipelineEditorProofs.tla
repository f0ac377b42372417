------------------------ MODULE PipelineEditorProofs ------------------------
(***************************************************************************)
(* Proofs about PipelineEditor for any number of edits and of requests in  *)
(* flight: its types, and that before the first hazard nothing is lost,    *)
(* the page shows what is stored and a run executes what was drawn.        *)
(***************************************************************************)
EXTENDS PipelineEditor, TLAPS

Requests == [kind : Kinds, stage : Stages, content : SUBSET Edits, here : BOOLEAN]

(* The kind of a request fits its stage.                                       *)
KindOK ==
  \A s \in Slots :
    /\ request[s].kind = "none" <=> At(s, {"free"})
    /\ At(s, {"create", "created"}) => request[s].kind = "create"

(* Until the server has created the pipeline there is nothing but the request  *)
(* for it; until that is answered there is no other.                           *)
ExistsOK ==
  /\ ~exists =>
       /\ ~identified /\ page # "open" /\ stored = {} /\ ~cached /\ fetch = "none"
       /\ \A s \in Slots : At(s, {"free", "create"})
  /\ \A s \in Slots :
       /\ At(s, {"create"}) => ~exists
       /\ At(s, {"created"}) =>
            ~identified /\ stored = {} /\ \A t \in Slots \ {s} : At(t, {"free"})

(* A creation is awaited on the page of the new drawing.                       *)
CreateOK ==
  /\ \A s \in Slots : request[s].kind = "create" =>
       page = "new" /\ ~cached /\ fetch = "none"
  /\ \A s, t \in Slots : request[s].kind = "create" /\ request[t].kind = "create" => s = t
  /\ page = "new" => initialized

(* What the user has drawn is on the screen, and everything else is part of it *)
DrawnOK ==
  /\ content = made
  /\ stored \subseteq made /\ cache \subseteq made /\ answer \subseteq made
  /\ \A s \in Slots : request[s].content \subseteq made

(* One definition at a time is under way, and it contains the stored one; the  *)
(* stored one contains those that have been saved.                             *)
PutOK ==
  /\ \A s, t \in Slots : At(s, {"put"}) /\ At(t, {"put"}) => s = t
  /\ \A s \in Slots : At(s, {"put"}) => stored \subseteq request[s].content
  /\ \A s \in Slots : At(s, {"saved", "post", "started"}) => request[s].content \subseteq stored

(* What is not marked unsaved is stored or under way.                          *)
CleanOK ==
  /\ isDirty \/ stored = made \/ \E s \in Slots : At(s, {"put"}) /\ request[s].content = made
  /\ page = "closed" => ~isDirty

(* Data that counts as valid, or is about to, is what is stored, unless a      *)
(* saved request has still to invalidate it.                                   *)
CacheOK ==
  /\ cached /\ ~invalidated => cache = stored \/ \E s \in Slots : At(s, {"saved"})
  /\ fetch = "read" => answer = stored \/ \E s \in Slots : At(s, {"saved"})

(* A page that waits for its definition has nothing to lose.                   *)
WaitOK ==
  page = "open" /\ ~initialized =>
    /\ stored = made
    /\ \A s \in Slots : At(s, {"put"}) => request[s].content = made
    /\ fetch = "read" => answer = made

Safe ==
  /\ KindOK /\ ExistsOK /\ CreateOK /\ DrawnOK /\ PutOK /\ CleanOK /\ CacheOK /\ WaitOK
  /\ ~misran

IInv == hazards = {} => Safe

----------------------------------------------------------------------------
(* Types.                                                                      *)

LEMMA TypeStep ==
  ASSUME TypeOK, [Next]_vars
  PROVE  TypeOK'
<1>. USE DEF TypeOK, Kinds, Stages, Hazards, pageVars, storeVars, queryVars, serverVars, historyVars
<1>1. CASE OpenNew
  BY <1>1 DEF OpenNew
<1>2. CASE OpenPage
  BY <1>2 DEF OpenPage, loadPipeline, Note, InFlight
<1>3. CASE Leave
  <2>1. request' \in [Slots -> Requests]
    BY <1>3 DEF Leave, Requests
  <2>. QED
    BY <1>3, <2>1 DEF Leave, Note, Requests
<1>4. CASE Layout
  BY <1>4 DEF Layout
<1>5. CASE Rename
  BY <1>5 DEF Rename, loadPipeline, Note
<1>6. CASE ServerReads
  BY <1>6 DEF ServerReads
<1>7. CASE FetchAnswered
  BY <1>7 DEF FetchAnswered, loadPipeline
<1>8. CASE Refetch
  BY <1>8 DEF Refetch
<1>9. CASE FetchFails
  BY <1>9 DEF FetchFails, Note
<1>10. CASE CacheExpires
  BY <1>10 DEF CacheExpires
<1>11. ASSUME NEW e \in Edits, Edit(e)
      PROVE  TypeOK'
  BY <1>11 DEF Edit, Note
<1>12. ASSUME NEW s \in Slots, ClickSave(s)
      PROVE  TypeOK'
  <2>1. request' \in [Slots -> Requests]
    BY <1>12 DEF ClickSave, Save, SendPut, Requests
  <2>2. hazards' \subseteq Hazards
    BY <1>12 DEF ClickSave, Save, SendPut, Note
  <2>. QED
    BY <1>12, <2>1, <2>2 DEF ClickSave, Save, SendPut, Requests
<1>13. ASSUME NEW s \in Slots, ClickValidate(s)
      PROVE  TypeOK'
  <2>1. request' \in [Slots -> Requests]
    BY <1>13 DEF ClickValidate, Save, SendPut, Requests
  <2>2. hazards' \subseteq Hazards
    BY <1>13 DEF ClickValidate, Save, SendPut, Note
  <2>. QED
    BY <1>13, <2>1, <2>2 DEF ClickValidate, Save, SendPut, Requests
<1>14. ASSUME NEW s \in Slots, ClickRun(s)
      PROVE  TypeOK'
  <2>1. request' \in [Slots -> Requests]
    BY <1>14 DEF ClickRun, Save, SendPut, Requests
  <2>2. hazards' \subseteq Hazards
    BY <1>14 DEF ClickRun, Save, SendPut, Note
  <2>. QED
    BY <1>14, <2>1, <2>2 DEF ClickRun, Save, SendPut, Requests
<1>15. ASSUME NEW s \in Slots, ClickCreate(s)
      PROVE  TypeOK'
  BY <1>15 DEF ClickCreate, Creating, At
<1>16. ASSUME NEW s \in Slots, AutoSave(s)
      PROVE  TypeOK'
  <2>1. request' \in [Slots -> Requests]
    BY <1>16 DEF AutoSave, Save, SendPut, Requests
  <2>2. hazards' \subseteq Hazards
    BY <1>16 DEF AutoSave, Save, SendPut, Note
  <2>. QED
    BY <1>16, <2>1, <2>2 DEF AutoSave, Save, SendPut, Requests
<1>17. ASSUME NEW s \in Slots, ServerCreates(s)
      PROVE  TypeOK'
  BY <1>17 DEF ServerCreates, Advance, At
<1>18. ASSUME NEW s \in Slots, ServerSaves(s)
      PROVE  TypeOK'
  BY <1>18 DEF ServerSaves, Advance, At
<1>19. ASSUME NEW s \in Slots, ServerStartsRun(s)
      PROVE  TypeOK'
  <2>1. request' \in [Slots -> Requests]
    BY <1>19 DEF ServerStartsRun, Advance, Requests
  <2>2. hazards' \subseteq Hazards
    BY <1>19 DEF ServerStartsRun, Advance, Note
  <2>. QED
    BY <1>19, <2>1, <2>2 DEF ServerStartsRun, Advance, Requests
<1>20. ASSUME NEW s \in Slots, CreateAnswered(s)
      PROVE  TypeOK'
  <2>1. request' \in [Slots -> Requests]
    BY <1>20 DEF CreateAnswered, loadPipeline, Requests
  <2>2. hazards' \subseteq Hazards
    BY <1>20 DEF CreateAnswered, loadPipeline, Note
  <2>. QED
    BY <1>20, <2>1, <2>2 DEF CreateAnswered, loadPipeline, Requests
<1>21. ASSUME NEW s \in Slots, AutoSaveAnswered(s)
      PROVE  TypeOK'
  BY <1>21 DEF AutoSaveAnswered, Invalidate, FetchesAgain, Answered, Free, At
<1>22. ASSUME NEW s \in Slots, SaveAnswered(s)
      PROVE  TypeOK'
  BY <1>22 DEF SaveAnswered, markClean, Invalidate, FetchesAgain, Answered, Free, At
<1>23. ASSUME NEW s \in Slots, RunSaveAnswered(s)
      PROVE  TypeOK'
  BY <1>23 DEF RunSaveAnswered, markClean, Advance, Invalidate, FetchesAgain, Answered, At
<1>24. ASSUME NEW s \in Slots, CreateSaveAnswered(s)
      PROVE  TypeOK'
  BY <1>24 DEF CreateSaveAnswered, markClean, Answered, FetchesAgain, Free, At
<1>25. ASSUME NEW s \in Slots, RunAnswered(s)
      PROVE  TypeOK'
  BY <1>25 DEF RunAnswered, Invalidate, FetchesAgain, Free, At
<1>26. ASSUME NEW s \in Slots, RequestFails(s)
      PROVE  TypeOK'
  <2>1. request' \in [Slots -> Requests]
    BY <1>26 DEF RequestFails, Free, Requests
  <2>2. hazards' \subseteq Hazards
    BY <1>26 DEF RequestFails, Note
  <2>. QED
    BY <1>26, <2>1, <2>2 DEF RequestFails, Requests
<1>27. CASE UNCHANGED vars
  BY <1>27 DEF vars
<1>. QED
  BY <1>1, <1>2, <1>3, <1>4, <1>5, <1>6, <1>7, <1>8, <1>9, <1>10, <1>11, <1>12, <1>13, <1>14,
     <1>15, <1>16, <1>17, <1>18, <1>19, <1>20, <1>21, <1>22, <1>23, <1>24, <1>25, <1>26, <1>27
     DEF Next, UserStep, QueryStep, RequestStep

(* Every variable keeps its type, for any number of edits and requests.        *)
THEOREM TypeCorrect == Spec => []TypeOK
<1>1. Init => TypeOK
  <2>1. Free \in Requests
    BY DEF Free, Requests, Kinds, Stages
  <2>. QED
    BY <2>1 DEF Init, TypeOK, Requests
<1>. QED
  BY <1>1, TypeStep, PTL DEF Spec

----------------------------------------------------------------------------
(* What happens up to the first hazard.                                        *)

(* What has happened stays recorded.                                           *)
LEMMA HazardsStay ==
  ASSUME [Next]_vars, hazards' = {}
  PROVE  hazards = {}
<1>. USE DEF Note, historyVars
<1>1. CASE OpenNew \/ OpenPage \/ Leave \/ Layout \/ Rename
  BY <1>1 DEF OpenNew, OpenPage, Leave, Layout, Rename
<1>2. CASE QueryStep \/ Refetch \/ FetchFails \/ CacheExpires
  BY <1>2 DEF QueryStep, ServerReads, FetchAnswered, Refetch, FetchFails, CacheExpires
<1>3. ASSUME NEW e \in Edits, Edit(e)
      PROVE  hazards = {}
  BY <1>3 DEF Edit
<1>4. ASSUME NEW s \in Slots, ClickSave(s) \/ ClickValidate(s) \/ ClickRun(s) \/ AutoSave(s)
      PROVE  hazards = {}
  BY <1>4 DEF ClickSave, ClickValidate, ClickRun, AutoSave, Save, SendPut
<1>5. ASSUME NEW s \in Slots, ClickCreate(s) \/ RequestFails(s)
      PROVE  hazards = {}
  BY <1>5 DEF ClickCreate, RequestFails
<1>6. ASSUME NEW s \in Slots, RequestStep(s)
      PROVE  hazards = {}
  BY <1>6 DEF RequestStep, ServerCreates, ServerSaves, ServerStartsRun, CreateAnswered,
     AutoSaveAnswered, SaveAnswered, RunSaveAnswered, CreateSaveAnswered, RunAnswered, Answered
<1>7. CASE UNCHANGED vars
  BY <1>7 DEF vars
<1>. QED
  BY <1>1, <1>2, <1>3, <1>4, <1>5, <1>6, <1>7 DEF Next, UserStep

(* A save that is answered without a hazard leaves nothing that is drawn and   *)
(* not marked unsaved unsaved.                                                 *)
LEMMA AnswerKeepsClean ==
  ASSUME TypeOK, Safe, hazards' = {}, NEW s \in Slots, At(s, {"saved"}), Answered(s),
         request[s].kind # "auto",
         UNCHANGED <<stored, made>>,
         \A t \in Slots \ {s} : request'[t] = request[t]
  PROVE  stored' = made' \/ \E t \in Slots : At(t, {"put"})' /\ request'[t].content = made'
<1>1. ~isDirty \/ content = request[s].content
  BY DEF Answered
<1>2. content = request[s].content => stored = made
  BY DEF Safe, DrawnOK, PutOK, At
<1>3. ~isDirty => \/ stored = made
                  \/ \E t \in Slots \ {s} : At(t, {"put"}) /\ request[t].content = made
  BY DEF Safe, CleanOK, At
<1>. QED
  BY <1>1, <1>2, <1>3 DEF At

LEMMA SafeStep ==
  ASSUME TypeOK, Safe, Next, hazards' = {}
  PROVE  Safe'
<1>. USE DEF TypeOK, Safe, At, pageVars, storeVars, queryVars, serverVars, historyVars
<1>1. ASSUME OpenNew
      PROVE  Safe'
  BY <1>1 DEF OpenNew, KindOK, ExistsOK, CreateOK, DrawnOK, PutOK, CleanOK, CacheOK, WaitOK
<1>2. ASSUME OpenPage
      PROVE  Safe'
  BY <1>2 DEF OpenPage, loadPipeline, Note, InFlight, KindOK, ExistsOK, CreateOK, DrawnOK, PutOK,
     CleanOK, CacheOK, WaitOK
<1>3. ASSUME Leave
      PROVE  Safe'
  <2>1. KindOK'
    BY <1>3 DEF Leave, Note, Creating, KindOK
  <2>2. ExistsOK'
    BY <1>3 DEF Leave, Note, Creating, KindOK, ExistsOK, CreateOK, DrawnOK, PutOK, CleanOK,
       CacheOK, WaitOK
  <2>3. CreateOK'
    BY <1>3 DEF Leave, Note, Creating, KindOK, ExistsOK, CreateOK, DrawnOK, PutOK, CleanOK,
       CacheOK, WaitOK
  <2>4. DrawnOK'
    BY <1>3 DEF Leave, Note, Creating, KindOK, ExistsOK, CreateOK, DrawnOK, PutOK, CleanOK,
       CacheOK, WaitOK
  <2>5. PutOK'
    BY <1>3 DEF Leave, Note, Creating, KindOK, ExistsOK, CreateOK, DrawnOK, PutOK, CleanOK,
       CacheOK, WaitOK
  <2>6. CleanOK'
    <3>1. ~isDirty
      BY <1>3 DEF Leave, Note
    <3>2. \A t \in Slots : /\ request'[t].stage = request[t].stage
                          /\ request'[t].content = request[t].content
      BY <1>3 DEF Leave
    <3>. QED
      BY <1>3, <3>1, <3>2 DEF Leave, CleanOK
  <2>7. CacheOK'
    BY <1>3 DEF Leave, Note, Creating, KindOK, ExistsOK, CreateOK, DrawnOK, PutOK, CleanOK,
       CacheOK, WaitOK
  <2>8. WaitOK'
    BY <1>3 DEF Leave, Note, Creating, KindOK, ExistsOK, CreateOK, DrawnOK, PutOK, CleanOK,
       CacheOK, WaitOK
  <2>9. (~misran)'
    BY <1>3 DEF Leave, Note, Creating, KindOK, ExistsOK, CreateOK, DrawnOK, PutOK, CleanOK,
       CacheOK, WaitOK
  <2>. QED
    BY <2>1, <2>2, <2>3, <2>4, <2>5, <2>6, <2>7, <2>8, <2>9
<1>4. ASSUME Layout
      PROVE  Safe'
  BY <1>4 DEF Layout, KindOK, ExistsOK, CreateOK, DrawnOK, PutOK, CleanOK, CacheOK, WaitOK
<1>5. ASSUME Rename
      PROVE  Safe'
  BY <1>5 DEF Rename, loadPipeline, Note, KindOK, ExistsOK, CreateOK, DrawnOK, PutOK, CleanOK,
     CacheOK, WaitOK
<1>6. ASSUME ServerReads
      PROVE  Safe'
  BY <1>6 DEF ServerReads, KindOK, ExistsOK, CreateOK, DrawnOK, PutOK, CleanOK, CacheOK, WaitOK
<1>7. ASSUME FetchAnswered
      PROVE  Safe'
  BY <1>7 DEF FetchAnswered, loadPipeline, KindOK, ExistsOK, CreateOK, DrawnOK, PutOK, CleanOK,
     CacheOK, WaitOK
<1>8. ASSUME Refetch
      PROVE  Safe'
  BY <1>8 DEF Refetch, KindOK, ExistsOK, CreateOK, DrawnOK, PutOK, CleanOK, CacheOK, WaitOK
<1>9. ASSUME FetchFails
      PROVE  Safe'
  BY <1>9 DEF FetchFails, Note, KindOK, ExistsOK, CreateOK, DrawnOK, PutOK, CleanOK, CacheOK,
     WaitOK
<1>10. ASSUME CacheExpires
      PROVE  Safe'
  BY <1>10 DEF CacheExpires, KindOK, ExistsOK, CreateOK, DrawnOK, PutOK, CleanOK, CacheOK, WaitOK
<1>11. ASSUME NEW e \in Edits, Edit(e)
      PROVE  Safe'
  BY <1>11 DEF Edit, Note, KindOK, ExistsOK, CreateOK, DrawnOK, PutOK, CleanOK, CacheOK, WaitOK
<1>12. ASSUME NEW s \in Slots, ClickSave(s)
      PROVE  Safe'
  BY <1>12 DEF ClickSave, Save, SendPut, Note, KindOK, ExistsOK, CreateOK, DrawnOK, PutOK,
     CleanOK, CacheOK, WaitOK
<1>13. ASSUME NEW s \in Slots, ClickValidate(s)
      PROVE  Safe'
  BY <1>13 DEF ClickValidate, Save, SendPut, Note, KindOK, ExistsOK, CreateOK, DrawnOK, PutOK,
     CleanOK, CacheOK, WaitOK
<1>14. ASSUME NEW s \in Slots, ClickRun(s)
      PROVE  Safe'
  BY <1>14 DEF ClickRun, Save, SendPut, Note, KindOK, ExistsOK, CreateOK, DrawnOK, PutOK,
     CleanOK, CacheOK, WaitOK
<1>15. ASSUME NEW s \in Slots, ClickCreate(s)
      PROVE  Safe'
  BY <1>15 DEF ClickCreate, Creating, KindOK, ExistsOK, CreateOK, DrawnOK, PutOK, CleanOK,
     CacheOK, WaitOK
<1>16. ASSUME NEW s \in Slots, AutoSave(s)
      PROVE  Safe'
  BY <1>16 DEF AutoSave, Save, SendPut, Note, KindOK, ExistsOK, CreateOK, DrawnOK, PutOK,
     CleanOK, CacheOK, WaitOK
<1>17. ASSUME NEW s \in Slots, ServerCreates(s)
      PROVE  Safe'
  BY <1>17 DEF ServerCreates, Advance, KindOK, ExistsOK, CreateOK, DrawnOK, PutOK, CleanOK,
     CacheOK, WaitOK
<1>18. ASSUME NEW s \in Slots, ServerSaves(s)
      PROVE  Safe'
  <2>1. KindOK'
    BY <1>18 DEF ServerSaves, Advance, KindOK
  <2>2. ExistsOK'
    BY <1>18 DEF ServerSaves, Advance, KindOK, ExistsOK, CreateOK, DrawnOK, PutOK, CleanOK,
       CacheOK, WaitOK
  <2>3. CreateOK'
    BY <1>18 DEF ServerSaves, Advance, KindOK, ExistsOK, CreateOK, DrawnOK, PutOK, CleanOK,
       CacheOK, WaitOK
  <2>4. DrawnOK'
    BY <1>18 DEF ServerSaves, Advance, KindOK, ExistsOK, CreateOK, DrawnOK, PutOK, CleanOK,
       CacheOK, WaitOK
  <2>5. PutOK'
    BY <1>18 DEF ServerSaves, Advance, KindOK, ExistsOK, CreateOK, DrawnOK, PutOK, CleanOK,
       CacheOK, WaitOK
  <2>6. CleanOK'
    BY <1>18 DEF ServerSaves, Advance, KindOK, ExistsOK, CreateOK, DrawnOK, PutOK, CleanOK,
       CacheOK, WaitOK
  <2>7. CacheOK'
    BY <1>18 DEF ServerSaves, Advance, KindOK, ExistsOK, CreateOK, DrawnOK, PutOK, CleanOK,
       CacheOK, WaitOK
  <2>8. WaitOK'
    BY <1>18 DEF ServerSaves, Advance, KindOK, ExistsOK, CreateOK, DrawnOK, PutOK, CleanOK,
       CacheOK, WaitOK
  <2>9. (~misran)'
    BY <1>18 DEF ServerSaves, Advance, KindOK, ExistsOK, CreateOK, DrawnOK, PutOK, CleanOK,
       CacheOK, WaitOK
  <2>. QED
    BY <2>1, <2>2, <2>3, <2>4, <2>5, <2>6, <2>7, <2>8, <2>9
<1>19. ASSUME NEW s \in Slots, ServerStartsRun(s)
      PROVE  Safe'
  BY <1>19 DEF ServerStartsRun, Advance, KindOK, ExistsOK, CreateOK, DrawnOK, PutOK, CleanOK,
     CacheOK, WaitOK
<1>20. ASSUME NEW s \in Slots, CreateAnswered(s)
      PROVE  Safe'
  <2>1. KindOK'
    BY <1>20 DEF CreateAnswered, loadPipeline, Note, KindOK
  <2>2. ExistsOK'
    BY <1>20 DEF CreateAnswered, loadPipeline, Note, KindOK, ExistsOK, CreateOK, DrawnOK, PutOK,
       CleanOK, CacheOK, WaitOK
  <2>3. CreateOK'
    BY <1>20 DEF CreateAnswered, loadPipeline, Note, KindOK, ExistsOK, CreateOK, DrawnOK, PutOK,
       CleanOK, CacheOK, WaitOK
  <2>4. DrawnOK'
    BY <1>20 DEF CreateAnswered, loadPipeline, Note, KindOK, ExistsOK, CreateOK, DrawnOK, PutOK,
       CleanOK, CacheOK, WaitOK
  <2>5. PutOK'
    BY <1>20 DEF CreateAnswered, loadPipeline, Note, KindOK, ExistsOK, CreateOK, DrawnOK, PutOK,
       CleanOK, CacheOK, WaitOK
  <2>6. CleanOK'
    BY <1>20 DEF CreateAnswered, loadPipeline, Note, KindOK, ExistsOK, CreateOK, DrawnOK, PutOK,
       CleanOK, CacheOK, WaitOK
  <2>7. CacheOK'
    BY <1>20 DEF CreateAnswered, loadPipeline, Note, KindOK, ExistsOK, CreateOK, DrawnOK, PutOK,
       CleanOK, CacheOK, WaitOK
  <2>8. WaitOK'
    BY <1>20 DEF CreateAnswered, loadPipeline, Note, KindOK, ExistsOK, CreateOK, DrawnOK, PutOK,
       CleanOK, CacheOK, WaitOK
  <2>9. (~misran)'
    BY <1>20 DEF CreateAnswered, loadPipeline, Note, KindOK, ExistsOK, CreateOK, DrawnOK, PutOK,
       CleanOK, CacheOK, WaitOK
  <2>. QED
    BY <2>1, <2>2, <2>3, <2>4, <2>5, <2>6, <2>7, <2>8, <2>9
<1>21. ASSUME NEW s \in Slots, AutoSaveAnswered(s)
      PROVE  Safe'
  BY <1>21 DEF AutoSaveAnswered, Invalidate, FetchesAgain, Answered, Free, KindOK, ExistsOK,
     CreateOK, DrawnOK, PutOK, CleanOK, CacheOK, WaitOK
<1>22. ASSUME NEW s \in Slots, SaveAnswered(s)
      PROVE  Safe'
  <2>1. KindOK'
    BY <1>22 DEF SaveAnswered, markClean, Invalidate, FetchesAgain, Answered, Free, KindOK
  <2>2. ExistsOK'
    BY <1>22 DEF SaveAnswered, markClean, Invalidate, FetchesAgain, Answered, Free, KindOK,
       ExistsOK, CreateOK, DrawnOK, PutOK, CleanOK, CacheOK, WaitOK
  <2>3. CreateOK'
    BY <1>22 DEF SaveAnswered, markClean, Invalidate, FetchesAgain, Answered, Free, KindOK,
       ExistsOK, CreateOK, DrawnOK, PutOK, CleanOK, CacheOK, WaitOK
  <2>4. DrawnOK'
    BY <1>22 DEF SaveAnswered, markClean, Invalidate, FetchesAgain, Answered, Free, KindOK,
       ExistsOK, CreateOK, DrawnOK, PutOK, CleanOK, CacheOK, WaitOK
  <2>5. PutOK'
    BY <1>22 DEF SaveAnswered, markClean, Invalidate, FetchesAgain, Answered, Free, KindOK,
       ExistsOK, CreateOK, DrawnOK, PutOK, CleanOK, CacheOK, WaitOK
  <2>6. CleanOK'
    <3>1. stored' = made' \/ \E t \in Slots : At(t, {"put"})' /\ request'[t].content = made'
      BY <1>22, AnswerKeepsClean DEF SaveAnswered
    <3>. QED
      BY <1>22, <3>1 DEF SaveAnswered, markClean, CleanOK
  <2>7. CacheOK'
    BY <1>22 DEF SaveAnswered, markClean, Invalidate, FetchesAgain, Answered, Free, KindOK,
       ExistsOK, CreateOK, DrawnOK, PutOK, CleanOK, CacheOK, WaitOK
  <2>8. WaitOK'
    BY <1>22 DEF SaveAnswered, markClean, Invalidate, FetchesAgain, Answered, Free, KindOK,
       ExistsOK, CreateOK, DrawnOK, PutOK, CleanOK, CacheOK, WaitOK
  <2>9. (~misran)'
    BY <1>22 DEF SaveAnswered, markClean, Invalidate, FetchesAgain, Answered, Free, KindOK,
       ExistsOK, CreateOK, DrawnOK, PutOK, CleanOK, CacheOK, WaitOK
  <2>. QED
    BY <2>1, <2>2, <2>3, <2>4, <2>5, <2>6, <2>7, <2>8, <2>9
<1>23. ASSUME NEW s \in Slots, RunSaveAnswered(s)
      PROVE  Safe'
  <2>1. KindOK'
    BY <1>23 DEF RunSaveAnswered, markClean, Advance, Invalidate, FetchesAgain, Answered, KindOK
  <2>2. ExistsOK'
    BY <1>23 DEF RunSaveAnswered, markClean, Advance, Invalidate, FetchesAgain, Answered, KindOK,
       ExistsOK, CreateOK, DrawnOK, PutOK, CleanOK, CacheOK, WaitOK
  <2>3. CreateOK'
    BY <1>23 DEF RunSaveAnswered, markClean, Advance, Invalidate, FetchesAgain, Answered, KindOK,
       ExistsOK, CreateOK, DrawnOK, PutOK, CleanOK, CacheOK, WaitOK
  <2>4. DrawnOK'
    BY <1>23 DEF RunSaveAnswered, markClean, Advance, Invalidate, FetchesAgain, Answered, KindOK,
       ExistsOK, CreateOK, DrawnOK, PutOK, CleanOK, CacheOK, WaitOK
  <2>5. PutOK'
    BY <1>23 DEF RunSaveAnswered, markClean, Advance, Invalidate, FetchesAgain, Answered, KindOK,
       ExistsOK, CreateOK, DrawnOK, PutOK, CleanOK, CacheOK, WaitOK
  <2>6. CleanOK'
    <3>1. stored' = made' \/ \E t \in Slots : At(t, {"put"})' /\ request'[t].content = made'
      BY <1>23, AnswerKeepsClean DEF RunSaveAnswered, Advance
    <3>. QED
      BY <1>23, <3>1 DEF RunSaveAnswered, markClean, CleanOK
  <2>7. CacheOK'
    BY <1>23 DEF RunSaveAnswered, markClean, Advance, Invalidate, FetchesAgain, Answered, KindOK,
       ExistsOK, CreateOK, DrawnOK, PutOK, CleanOK, CacheOK, WaitOK
  <2>8. WaitOK'
    BY <1>23 DEF RunSaveAnswered, markClean, Advance, Invalidate, FetchesAgain, Answered, KindOK,
       ExistsOK, CreateOK, DrawnOK, PutOK, CleanOK, CacheOK, WaitOK
  <2>9. (~misran)'
    BY <1>23 DEF RunSaveAnswered, markClean, Advance, Invalidate, FetchesAgain, Answered, KindOK,
       ExistsOK, CreateOK, DrawnOK, PutOK, CleanOK, CacheOK, WaitOK
  <2>. QED
    BY <2>1, <2>2, <2>3, <2>4, <2>5, <2>6, <2>7, <2>8, <2>9
<1>24. ASSUME NEW s \in Slots, CreateSaveAnswered(s)
      PROVE  Safe'
  <2>1. KindOK'
    BY <1>24 DEF CreateSaveAnswered, markClean, Answered, FetchesAgain, Free, KindOK
  <2>2. ExistsOK'
    BY <1>24 DEF CreateSaveAnswered, markClean, Answered, FetchesAgain, Free, KindOK, ExistsOK,
       CreateOK, DrawnOK, PutOK, CleanOK, CacheOK, WaitOK
  <2>3. CreateOK'
    BY <1>24 DEF CreateSaveAnswered, markClean, Answered, FetchesAgain, Free, KindOK, ExistsOK,
       CreateOK, DrawnOK, PutOK, CleanOK, CacheOK, WaitOK
  <2>4. DrawnOK'
    BY <1>24 DEF CreateSaveAnswered, markClean, Answered, FetchesAgain, Free, KindOK, ExistsOK,
       CreateOK, DrawnOK, PutOK, CleanOK, CacheOK, WaitOK
  <2>5. PutOK'
    BY <1>24 DEF CreateSaveAnswered, markClean, Answered, FetchesAgain, Free, KindOK, ExistsOK,
       CreateOK, DrawnOK, PutOK, CleanOK, CacheOK, WaitOK
  <2>6. CleanOK'
    <3>1. stored' = made' \/ \E t \in Slots : At(t, {"put"})' /\ request'[t].content = made'
      BY <1>24, AnswerKeepsClean DEF CreateSaveAnswered
    <3>. QED
      BY <1>24, <3>1 DEF CreateSaveAnswered, markClean, CleanOK
  <2>7. CacheOK'
    BY <1>24 DEF CreateSaveAnswered, markClean, Answered, FetchesAgain, Free, KindOK, ExistsOK,
       CreateOK, DrawnOK, PutOK, CleanOK, CacheOK, WaitOK
  <2>8. WaitOK'
    BY <1>24 DEF CreateSaveAnswered, markClean, Answered, FetchesAgain, Free, KindOK, ExistsOK,
       CreateOK, DrawnOK, PutOK, CleanOK, CacheOK, WaitOK
  <2>9. (~misran)'
    BY <1>24 DEF CreateSaveAnswered, markClean, Answered, FetchesAgain, Free, KindOK, ExistsOK,
       CreateOK, DrawnOK, PutOK, CleanOK, CacheOK, WaitOK
  <2>. QED
    BY <2>1, <2>2, <2>3, <2>4, <2>5, <2>6, <2>7, <2>8, <2>9
<1>25. ASSUME NEW s \in Slots, RunAnswered(s)
      PROVE  Safe'
  BY <1>25 DEF RunAnswered, Invalidate, FetchesAgain, Free, KindOK, ExistsOK, CreateOK, DrawnOK,
     PutOK, CleanOK, CacheOK, WaitOK
<1>26. ASSUME NEW s \in Slots, RequestFails(s)
      PROVE  Safe'
  BY <1>26 DEF RequestFails, Note, Free, KindOK, ExistsOK, CreateOK, DrawnOK, PutOK, CleanOK,
     CacheOK, WaitOK
<1>. QED
  BY <1>1, <1>2, <1>3, <1>4, <1>5, <1>6, <1>7, <1>8, <1>9, <1>10, <1>11, <1>12, <1>13, <1>14,
     <1>15, <1>16, <1>17, <1>18, <1>19, <1>20, <1>21, <1>22, <1>23, <1>24, <1>25, <1>26
     DEF Next, UserStep, QueryStep, RequestStep

LEMMA Invariance == Spec => [](TypeOK /\ IInv)
<1>1. Init => IInv
  BY DEF Init, IInv, Safe, KindOK, ExistsOK, CreateOK, DrawnOK, PutOK, CleanOK, CacheOK, WaitOK,
         Free, At
<1>2. TypeOK /\ IInv /\ [Next]_vars => IInv'
  <2>. SUFFICES ASSUME TypeOK, IInv, [Next]_vars, hazards' = {}
                PROVE  Safe'
    BY DEF IInv
  <2>1. Safe
    BY HazardsStay DEF IInv
  <2>2. CASE Next
    BY <2>1, <2>2, SafeStep
  <2>3. CASE UNCHANGED vars
    BY <2>1, <2>3
    DEF vars, pageVars, storeVars, queryVars, serverVars, historyVars, Safe, KindOK, ExistsOK,
        CreateOK, DrawnOK, PutOK, CleanOK, CacheOK, WaitOK, At
  <2>. QED
    BY <2>2, <2>3
<1>. QED
  BY <1>1, <1>2, TypeCorrect, PTL DEF Spec

(* No edit is lost before a hazard: what is not stored or under way is drawn   *)
(* and marked unsaved.                                                         *)
THEOREM NothingIsForgotten == Spec => []NothingForgotten
<1>1. TypeOK /\ IInv => NothingForgotten
  <2>. SUFFICES ASSUME TypeOK, Safe
                PROVE  made \subseteq Held
    BY DEF IInv, NothingForgotten
  <2>1. CASE isDirty
    <3>1. content = made
      BY DEF Safe, DrawnOK
    <3>2. (IF isDirty THEN content ELSE {}) = content
      BY <2>1
    <3>. QED
      BY <3>1, <3>2 DEF Held
  <2>2. CASE stored = made
    BY <2>2 DEF Held
  <2>3. ASSUME NEW s \in Slots, At(s, {"put"}), request[s].content = made
        PROVE  made \subseteq Held
    BY <2>3 DEF Held
  <2>. QED
    BY <2>1, <2>2, <2>3 DEF Safe, CleanOK
<1>. QED
  BY <1>1, Invariance, PTL

(* The page shows all that is stored, before a hazard.                         *)
THEOREM ScreenStaysCurrent == Spec => []ScreenIsCurrent
<1>1. IInv => ScreenIsCurrent
  BY DEF IInv, Safe, DrawnOK, ScreenIsCurrent
<1>. QED
  BY <1>1, Invariance, PTL

(* A run executes at least what was drawn at its click, before a hazard.       *)
THEOREM RunsSeeTheirClick == Spec => []RunSeesClick
<1>1. IInv => RunSeesClick
  BY DEF IInv, Safe, RunSeesClick
<1>. QED
  BY <1>1, Invariance, PTL
=============================================================================
