--------------------------- MODULE PipelineEditor ---------------------------
(***************************************************************************)
(* The editor page of one pipeline: the store that holds the drawing, the  *)
(* debounced autosave, the Save, Validate and Run buttons, the query cache *)
(* the page loads from, and the API that stores the definition.  A drawing *)
(* is the set of edits it contains; every request is handled by the server *)
(* at some time after it is sent, in any order, and answered later still.  *)
(*                                                                         *)
(* Bounds: one pipeline, one tab, at most as many requests at a time as    *)
(* there are Slots; the user stays on the page while it creates the        *)
(* pipeline, and does not create a second one.                             *)
(***************************************************************************)
EXTENDS FiniteSets

CONSTANTS
  Edits,     (* the changes the user may make to the drawing                  *)
  Slots,     (* bound: the requests that can be in flight together            *)
  NoSlot     (* no request                                                    *)

ASSUME SlotAssumption == NoSlot \notin Slots

VARIABLES
  (* PipelineEditorPage *)
  page,         (* "closed", "new" or "open" (with the pipeline's id)         *)
  initialized,  (* initialized.current                                        *)
  latestSave,   (* the request saveMutation of this mount observes            *)
  latestRun,    (* the request runMutation of this mount observes             *)
  (* usePipelineStore, which outlives the page *)
  identified,   (* pipelineId is not null                                     *)
  content,      (* nodes, edges                                               *)
  isDirty,
  (* the query ["pipelines", id] *)
  cached,       (* it has data                                                *)
  cache,        (* the definition in that data                                *)
  invalidated,
  fetch,        (* "none", "sent" or "read" (by the server)                   *)
  answer,       (* what the server read                                       *)
  (* requests and server *)
  request,      (* the requests in flight                                     *)
  exists,       (* the pipeline's row exists                                  *)
  stored,       (* its definition                                             *)
  (* history *)
  made,         (* the edits the user has made                                *)
  hazards,      (* what has happened that may cost an edit                    *)
  misran        (* a run was started without an edit the user saw             *)

pageVars == <<page, initialized, latestSave, latestRun>>
storeVars == <<identified, content, isDirty>>
queryVars == <<cached, cache, invalidated, fetch, answer>>
serverVars == <<exists, stored>>
historyVars == <<made, hazards, misran>>
vars == <<pageVars, storeVars, queryVars, request, serverVars, historyVars>>

Free == [kind |-> "none", stage |-> "free", content |-> {}, here |-> FALSE]

(* An autosave, a click on Save or Validate, one on Run, one on Save for a     *)
(* drawing that has no pipeline yet.                                           *)
Kinds == {"none", "auto", "save", "run", "create"}

(* "create", "put" and "post" are under way to the server, the stages after    *)
(* them under way back.                                                        *)
Stages == {"free", "create", "created", "put", "saved", "post", "started"}

Hazards == {"renamed", "swept", "concurrent", "failed", "left", "discarded", "early", "hasty",
            "crossed"}

TypeOK ==
  /\ page \in {"closed", "new", "open"} /\ initialized \in BOOLEAN
  /\ latestSave \in Slots \cup {NoSlot} /\ latestRun \in Slots \cup {NoSlot}
  /\ identified \in BOOLEAN /\ content \subseteq Edits /\ isDirty \in BOOLEAN
  /\ cached \in BOOLEAN /\ cache \subseteq Edits /\ invalidated \in BOOLEAN
  /\ fetch \in {"none", "sent", "read"} /\ answer \subseteq Edits
  /\ request \in [Slots -> [kind : Kinds, stage : Stages, content : SUBSET Edits, here : BOOLEAN]]
  /\ exists \in BOOLEAN /\ stored \subseteq Edits
  /\ made \subseteq Edits /\ hazards \subseteq Hazards /\ misran \in BOOLEAN

Init ==
  /\ page = "closed" /\ initialized = FALSE /\ latestSave = NoSlot /\ latestRun = NoSlot
  /\ identified = FALSE /\ content = {} /\ isDirty = FALSE
  /\ cached = FALSE /\ cache = {} /\ invalidated = FALSE /\ fetch = "none" /\ answer = {}
  /\ request = [s \in Slots |-> Free]
  /\ exists = FALSE /\ stored = {}
  /\ made = {} /\ hazards = {} /\ misran = FALSE

At(s, stages) == request[s].stage \in stages
Saving == {"put", "saved"}
Creating == \E s \in Slots : request[s].kind = "create"
InFlight == \E s \in Slots : ~At(s, {"free"})

(* saveMutation.isPending, runMutation.isPending: of the latest request only.  *)
SavePending == latestSave # NoSlot /\ At(latestSave, Saving)
RunPending == latestRun # NoSlot /\ At(latestRun, {"post", "started"})

(* Records h if it happens in this step.                                       *)
Note(h, happens) == hazards' = hazards \cup {x \in {h} : happens}

----------------------------------------------------------------------------
(* The store.                                                                  *)

(* Variant: without the defaults of absent nodes and edges.                    *)
loadPipelineAsIs(definition) ==
  /\ identified' = TRUE /\ isDirty' = FALSE
  /\ content' = IF definition = {} THEN {"undefined"} ELSE definition

loadPipeline(definition) == identified' = TRUE /\ content' = definition /\ isDirty' = FALSE

markClean == isDirty' = FALSE /\ UNCHANGED <<identified, content>>

(* Every change of nodes, edges or node data.                                  *)
Edit(e) ==
  /\ page # "closed" /\ e \notin made
  /\ content' = content \cup {e} /\ isDirty' = TRUE
  /\ made' = made \cup {e}
  /\ Note("early", ~initialized)
  /\ UNCHANGED <<identified, pageVars, queryVars, request, serverVars, misran>>

(* React Flow reports measured sizes and selections through onNodesChange too. *)
Layout ==
  /\ page # "closed" /\ content # {}
  /\ isDirty' = TRUE
  /\ UNCHANGED <<identified, content, pageVars, queryVars, request, serverVars, historyVars>>

(* The name field calls loadPipeline with what is drawn.                       *)
Rename ==
  /\ page # "closed" /\ identified
  /\ loadPipeline(content)
  /\ Note("renamed", isDirty)
  /\ UNCHANGED <<pageVars, queryVars, request, serverVars, made, misran>>

----------------------------------------------------------------------------
(* Opening and leaving the page.                                               *)

OpenNew ==
  /\ page = "closed" /\ ~exists
  /\ page' = "new" /\ initialized' = TRUE
  /\ identified' = FALSE /\ content' = {} /\ isDirty' = FALSE
  /\ UNCHANGED <<latestSave, latestRun, queryVars, request, serverVars, historyVars>>

(* Data in the cache is loaded at once and the answer of a refetch is not; the *)
(* refetch is made if the data is invalidated or older than its stale time.    *)
OpenPage ==
  /\ page = "closed" /\ exists
  /\ page' = "open" /\ initialized' = cached
  /\ IF cached THEN loadPipeline(cache) ELSE UNCHANGED storeVars
  /\ \/ fetch = "none" /\ fetch' = "sent"
     \/ (fetch # "none" \/ (cached /\ ~invalidated)) /\ UNCHANGED fetch
  /\ Note("hasty", invalidated \/ fetch # "none" \/ InFlight)
  /\ UNCHANGED <<latestSave, latestRun, cached, cache, invalidated, answer, request, serverVars,
                 made, misran>>

(* The effects' cleanups: the timer of the autosave is cleared.                *)
Leave ==
  /\ page # "closed" /\ ~Creating
  /\ page' = "closed" /\ initialized' = FALSE
  /\ latestSave' = NoSlot /\ latestRun' = NoSlot
  /\ request' = [s \in Slots |-> [request[s] EXCEPT !.here = FALSE]]
  /\ Note("left", isDirty)
  /\ UNCHANGED <<storeVars, queryVars, serverVars, made, misran>>

----------------------------------------------------------------------------
(* Saving.                                                                     *)

(* saveMutation sends what the store holds.                                    *)
SendPut(s, kind, definition) ==
  /\ request' = [request EXCEPT ![s] = [kind |-> kind, stage |-> "put",
                                        content |-> definition, here |-> TRUE]]
  /\ latestSave' = s
  /\ Note("concurrent", \E t \in Slots \ {s} : At(t, {"put"}))

Save(s, kind) ==
  /\ page # "closed" /\ identified /\ At(s, {"free"})
  /\ SendPut(s, kind, content)
  /\ UNCHANGED <<page, initialized, latestRun, identified, content, queryVars, serverVars,
                 made, misran>>

(* Variant: the timer is set once per visit.                                   *)
AutoSaveOnce(s) == isDirty /\ latestSave = NoSlot /\ Save(s, "auto") /\ isDirty' = FALSE

(* Three seconds after the page last rendered with unsaved changes.            *)
AutoSave(s) == isDirty /\ Save(s, "auto") /\ isDirty' = FALSE

ClickSave(s) == ~SavePending /\ Save(s, "save") /\ UNCHANGED isDirty

(* handleValidate saves first; what the validation says only enables Run.      *)
ClickValidate(s) == Save(s, "save") /\ UNCHANGED isDirty

(* Variant: the run does not wait for the save.                                *)
ClickRunAtOnce(s) ==
  /\ page # "closed" /\ identified /\ ~RunPending /\ At(s, {"free"})
  /\ request' = [request EXCEPT ![s] = [kind |-> "run", stage |-> "post",
                                        content |-> content, here |-> TRUE]]
  /\ latestRun' = s
  /\ UNCHANGED <<page, initialized, latestSave, storeVars, queryVars, serverVars, historyVars>>

(* The button is disabled only from the answer of the save on.                 *)
ClickRun(s) == ~RunPending /\ Save(s, "run") /\ UNCHANGED isDirty

(* handleSave without an id.                                                   *)
ClickCreate(s) ==
  /\ page # "closed" /\ ~identified /\ ~Creating /\ ~exists /\ At(s, {"free"})
  /\ request' = [request EXCEPT ![s] = [kind |-> "create", stage |-> "create",
                                        content |-> {}, here |-> TRUE]]
  /\ UNCHANGED <<pageVars, storeVars, queryVars, serverVars, historyVars>>

Advance(s, stage) == request' = [request EXCEPT ![s].stage = stage]

ServerCreates(s) ==
  /\ At(s, {"create"})
  /\ Advance(s, "created")
  /\ exists' = TRUE /\ stored' = {}
  /\ UNCHANGED <<pageVars, storeVars, queryVars, historyVars>>

ServerSaves(s) ==
  /\ At(s, {"put"})
  /\ Advance(s, "saved")
  /\ stored' = request[s].content
  /\ UNCHANGED <<pageVars, storeVars, queryVars, exists, historyVars>>

(* start_run takes the definition as stored; the task carries it.              *)
ServerStartsRun(s) ==
  /\ At(s, {"post"})
  /\ Advance(s, "started")
  /\ misran' = (misran \/ ~(request[s].content \subseteq stored))
  /\ UNCHANGED <<pageVars, storeVars, queryVars, serverVars, made, hazards>>

----------------------------------------------------------------------------
(* Answers.  The code after an await runs whether or not the page is open.     *)

(* Variant: a save leaves the query alone.                                     *)
InvalidateNothing == UNCHANGED queryVars

(* invalidateQueries: a query that the page shows is fetched again, in place   *)
(* of a fetch under way unless that is its first.                              *)
FetchesAgain == page = "open" /\ (cached \/ fetch = "none")

Invalidate ==
  /\ invalidated' = cached
  /\ fetch' = IF FetchesAgain THEN "sent" ELSE fetch
  /\ UNCHANGED <<cached, cache, answer>>

(* The new pipeline is loaded, empty as it is, and then saved.                 *)
CreateAnswered(s) ==
  /\ At(s, {"created"})
  /\ loadPipeline({})
  /\ request' = [request EXCEPT ![s].stage = "put"]
  /\ latestSave' = s
  /\ Note("discarded", content # {})
  /\ UNCHANGED <<page, initialized, latestRun, queryVars, serverVars, made, misran>>

(* What the answer of a save costs: markClean although there are further       *)
(* changes; an invalidation that the fetch under way takes back.               *)
Answered(s) ==
  hazards' = hazards
    \cup {h \in {"swept"} : request[s].kind # "auto" /\ isDirty /\ content # request[s].content}
    \cup {h \in {"crossed"} : fetch # "none" /\ ~FetchesAgain}

AutoSaveAnswered(s) ==
  /\ At(s, {"saved"}) /\ request[s].kind = "auto"
  /\ request' = [request EXCEPT ![s] = Free]
  /\ Invalidate /\ Answered(s)
  /\ UNCHANGED <<pageVars, storeVars, serverVars, made, misran>>

SaveAnswered(s) ==
  /\ At(s, {"saved"}) /\ request[s].kind = "save"
  /\ markClean
  /\ request' = [request EXCEPT ![s] = Free]
  /\ Invalidate /\ Answered(s)
  /\ UNCHANGED <<pageVars, serverVars, made, misran>>

RunSaveAnswered(s) ==
  /\ At(s, {"saved"}) /\ request[s].kind = "run"
  /\ markClean
  /\ Advance(s, "post")
  /\ latestRun' = IF request[s].here THEN s ELSE latestRun
  /\ Invalidate /\ Answered(s)
  /\ UNCHANGED <<page, initialized, latestSave, serverVars, made, misran>>

(* navigate shows the page of the new pipeline, which is not mounted anew; its *)
(* query starts.                                                               *)
CreateSaveAnswered(s) ==
  /\ At(s, {"saved"}) /\ request[s].kind = "create"
  /\ markClean
  /\ page' = "open" /\ fetch' = "sent"
  /\ request' = [request EXCEPT ![s] = Free]
  /\ Answered(s)
  /\ UNCHANGED <<initialized, latestSave, latestRun, cached, cache, invalidated, answer,
                 serverVars, made, misran>>

RunAnswered(s) ==
  /\ At(s, {"started"})
  /\ request' = [request EXCEPT ![s] = Free]
  /\ Invalidate
  /\ UNCHANGED <<pageVars, storeVars, serverVars, historyVars>>

(* A request or its answer is lost, or the server refuses: the awaiting code   *)
(* ends there.                                                                 *)
RequestFails(s) ==
  /\ ~At(s, {"free"})
  /\ request' = [request EXCEPT ![s] = Free]
  /\ Note("failed", TRUE)
  /\ UNCHANGED <<pageVars, storeVars, queryVars, serverVars, made, misran>>

----------------------------------------------------------------------------
(* The query.                                                                  *)

(* The window regains the focus after the stale time.                          *)
Refetch ==
  /\ page = "open" /\ fetch = "none"
  /\ fetch' = "sent"
  /\ UNCHANGED <<pageVars, storeVars, cached, cache, invalidated, answer, request, serverVars,
                 historyVars>>

ServerReads ==
  /\ fetch = "sent"
  /\ fetch' = "read" /\ answer' = stored
  /\ UNCHANGED <<pageVars, storeVars, cached, cache, invalidated, request, serverVars, historyVars>>

(* Variant: each answer is loaded, also when the page has been initialized.    *)
FetchAnsweredAlways ==
  /\ fetch = "read"
  /\ fetch' = "none" /\ answer' = {}
  /\ cached' = TRUE /\ cache' = answer /\ invalidated' = FALSE
  /\ IF page = "open"
       THEN loadPipeline(answer) /\ initialized' = TRUE
       ELSE UNCHANGED <<storeVars, initialized>>
  /\ UNCHANGED <<page, latestSave, latestRun, request, serverVars, historyVars>>

FetchAnswered ==
  /\ fetch = "read"
  /\ fetch' = "none" /\ answer' = {}
  /\ cached' = TRUE /\ cache' = answer /\ invalidated' = FALSE
  /\ IF page = "open" /\ ~initialized
       THEN loadPipeline(answer) /\ initialized' = TRUE
       ELSE UNCHANGED <<storeVars, initialized>>
  /\ UNCHANGED <<page, latestSave, latestRun, request, serverVars, historyVars>>

FetchFails ==
  /\ fetch # "none"
  /\ fetch' = "none" /\ answer' = {}
  /\ Note("failed", TRUE)
  /\ UNCHANGED <<pageVars, storeVars, cached, cache, invalidated, request, serverVars, made,
                 misran>>

(* The data of a query nothing uses is dropped after a while.                  *)
CacheExpires ==
  /\ page = "closed" /\ fetch = "none" /\ cached
  /\ cached' = FALSE /\ cache' = {} /\ invalidated' = FALSE
  /\ UNCHANGED <<pageVars, storeVars, fetch, answer, request, serverVars, historyVars>>

----------------------------------------------------------------------------
UserStep ==
  \/ OpenNew \/ OpenPage \/ Leave \/ Layout \/ Rename
  \/ \E e \in Edits : Edit(e)
  \/ \E s \in Slots : ClickSave(s) \/ ClickValidate(s) \/ ClickRun(s) \/ ClickCreate(s)

(* A request is handled, or its answer. *)
RequestStep(s) ==
  \/ ServerCreates(s) \/ ServerSaves(s) \/ ServerStartsRun(s)
  \/ CreateAnswered(s) \/ AutoSaveAnswered(s) \/ SaveAnswered(s) \/ RunSaveAnswered(s)
  \/ CreateSaveAnswered(s) \/ RunAnswered(s)

QueryStep == ServerReads \/ FetchAnswered

Next ==
  \/ UserStep \/ QueryStep \/ Refetch \/ FetchFails \/ CacheExpires
  \/ \E s \in Slots : AutoSave(s) \/ RequestStep(s) \/ RequestFails(s)

(* The browser sends and receives, the server answers, and the timer expires.  *)
Fairness ==
  /\ WF_vars(\E s \in Slots : AutoSave(s))
  /\ \A s \in Slots : WF_vars(RequestStep(s))

Spec == Init /\ [][Next]_vars
FairSpec == Spec /\ Fairness

----------------------------------------------------------------------------
(* Properties.                                                                 *)

(* What the page, a request under way and the database hold of the user's      *)
(* edits.                                                                      *)
Held ==
  stored
    \cup (UNION {request[s].content : s \in {t \in Slots : At(t, {"put"})}})
    \cup (IF isDirty THEN content ELSE {})

(* No edit is lost unless one of the known hazards has occurred: the pipeline  *)
(* was renamed with unsaved changes, a save was answered after further changes *)
(* or sent beside another, a request failed, the page was left with unsaved    *)
(* changes, opened again before the former visit's requests had settled, or    *)
(* changed before it was loaded, or a new drawing was saved.                   *)
NothingForgotten == hazards = {} => made \subseteq Held

(* Under the same condition the page shows all that is stored, so that saving  *)
(* it takes nothing away.                                                      *)
ScreenIsCurrent ==
  hazards = {} /\ page # "closed" /\ initialized /\ identified => stored \subseteq content

(* Run executes at least what was drawn when it was clicked.                   *)
RunSeesClick == hazards = {} => ~misran

(* Without a hazard, every edit of a pipeline that exists is stored in the end *)
EditsAreStored ==
  \A e \in Edits : []<>(e \in made => e \in stored \/ hazards # {} \/ ~identified)
=============================================================================
