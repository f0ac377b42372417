-------------------------- MODULE ExecutionEngine ---------------------------
(***************************************************************************)
(* What happens to one pipeline definition: the structural checks of       *)
(* pipeline_service.validate_pipeline and the execution by                 *)
(* PipelineExecutor.execute (execution_engine.py).  Both first visit the   *)
(* graph with the same queue of nodes without unvisited predecessors; the  *)
(* executor then runs the nodes in that order.  Rows are abstracted to     *)
(* whether a node has an output and how much of a destination is written.  *)
(***************************************************************************)
EXTENDS Naturals, Sequences, FiniteSets

CONSTANTS
  Nodes,      (* ids of the definition's nodes                               *)
  Strangers,  (* other ids that an edge may name: the API accepts any edges  *)
  NumEdges,   (* bound: length of the definition's list of edges             *)
  KindChoices (* the types the nodes may have, see TypesAssumption           *)

Kinds == {"source", "step", "join", "destination", "unknown"}

ASSUME NodesAssumption == IsFiniteSet(Nodes) /\ IsFiniteSet(Strangers)
ASSUME StrangersAssumption == Nodes \cap Strangers = {}
ASSUME NumEdgesAssumption == NumEdges \in Nat
ASSUME TypesAssumption == KindChoices \subseteq [Nodes -> Kinds]

VARIABLES
  kind,      (* definition: type of each node; filter, transform, aggregate
                are "step"                                                  *)
  tail,      (* definition: source of each edge                              *)
  head,      (* definition: target of each edge                              *)
  task,      (* what is going on: a validation or the execution              *)
  inDegree,  (* local in_degree of the visit                                 *)
  queue,     (* local queue of the visit                                     *)
  order,     (* the nodes visited so far, then execution_order               *)
  position,  (* the node of execution_order that runs next                   *)
  outputs,   (* keys of _node_outputs                                        *)
  results,   (* node_results                                                 *)
  written,   (* how much of its rows each destination has written            *)
  outcome,   (* what execute returned or raised                              *)
  misfit,    (* history: the node that failed lacked an input                *)
  verdict    (* pipelines.status as the last validation set it               *)

definitionVars == <<kind, tail, head>>
visitVars == <<inDegree, queue, order>>
runVars == <<position, outputs, results, written, outcome, misfit>>
vars == <<definitionVars, task, visitVars, runVars, verdict>>

Edges == 1..NumEdges
Ids == Nodes \cup Strangers

TypeOK ==
  /\ kind \in [Nodes -> Kinds]
  /\ tail \in [Edges -> Ids] /\ head \in [Edges -> Ids]
  /\ task \in {"idle", "validate", "sort", "run", "done"}
  /\ inDegree \in [Ids -> 0..NumEdges]
  /\ queue \in SUBSET Ids
  /\ order \in Seq(Ids)
  /\ position \in Nat
  /\ outputs \in SUBSET Nodes
  /\ results \in [Nodes -> {"none", "completed", "failed"}]
  /\ written \in [Nodes -> {"nothing", "part", "all"}]
  /\ outcome \in {"none", "success", "failed", "raised"}
  /\ misfit \in BOOLEAN
  /\ verdict \in {"none", "valid", "invalid"}

Init ==
  /\ kind \in KindChoices
  /\ tail \in [Edges -> Ids] /\ head \in [Edges -> Ids]
  /\ task = "idle"
  /\ inDegree = [i \in Ids |-> 0] /\ queue = {} /\ order = <<>>
  /\ position = 0 /\ outputs = {}
  /\ results = [n \in Nodes |-> "none"]
  /\ written = [n \in Nodes |-> "nothing"]
  /\ outcome = "none" /\ misfit = FALSE /\ verdict = "none"

EdgesInto(i) == {e \in Edges : head[e] = i}
EdgesFromTo(i, j) == {e \in Edges : tail[e] = i /\ head[e] = j}

-----------------------------------------------------------------------------
(* The visit of the graph, in validate_pipeline as in _topological_sort. *)

(* Variant: in_degree counts the predecessors, not the edges. *)
StartByPredecessors ==
  /\ inDegree' = [i \in Ids |-> Cardinality({tail[e] : e \in EdgesInto(i)})]
  /\ queue' = {n \in Nodes : EdgesInto(n) = {}}
  /\ order' = <<>>

(* in_degree has an entry for every node and every target. *)
StartVisit ==
  /\ inDegree' = [i \in Ids |-> Cardinality(EdgesInto(i))]
  /\ queue' = {n \in Nodes : EdgesInto(n) = {}}
  /\ order' = <<>>

(* in_degree reaches zero. *)
Ready(i, before, after) == before > 0 /\ after = 0

(* One iteration of the loop; which element of the queue comes first makes no
   difference to what is stated below.                                     *)
Visit(i) ==
  /\ task \in {"validate", "sort"} /\ i \in queue
  /\ order' = Append(order, i)
  /\ inDegree' = [j \in Ids |-> inDegree[j] - Cardinality(EdgesFromTo(i, j))]
  /\ queue' = (queue \ {i}) \cup {j \in Ids : Ready(j, inDegree[j], inDegree'[j])}
  /\ UNCHANGED <<definitionVars, task, runVars, verdict>>

(* Variant: only a graph none of whose nodes is ready has a cycle. *)
SomeVisited == order # <<>>

AllVisited == Len(order) = Cardinality(Nodes)

-----------------------------------------------------------------------------
(* validate_pipeline *)

BeginValidate ==
  /\ task = "idle"
  /\ task' = "validate"
  /\ StartVisit
  /\ UNCHANGED <<definitionVars, runVars, verdict>>

(* Variant: a join is accepted with one input. *)
JoinsAtLeastOne(n) == Cardinality(EdgesInto(n)) \in 1..2

JoinInputs(n) == Cardinality(EdgesInto(n)) = 2

SoundStructure ==
  /\ \E n \in Nodes : kind[n] = "source"
  /\ \E n \in Nodes : kind[n] = "destination"
  /\ AllVisited
  /\ \A n \in Nodes : kind[n] = "join" => JoinInputs(n)

(* The configuration of the source nodes is checked as well. *)
Judge ==
  /\ task = "validate" /\ queue = {}
  /\ task' = "idle"
  /\ verdict' \in IF SoundStructure THEN {"valid", "invalid"} ELSE {"invalid"}
  /\ UNCHANGED <<definitionVars, visitVars, runVars>>

-----------------------------------------------------------------------------
(* PipelineExecutor.execute *)

BeginExecute ==
  /\ task = "idle"
  /\ task' = "sort"
  /\ StartVisit
  /\ UNCHANGED <<definitionVars, runVars, verdict>>

(* Variant: an execution with a cycle hangs unless no node is ready. *)
RaiseCycleAtOnce ==
  /\ task = "sort" /\ queue = {} /\ order = <<>>
  /\ task' = "done"
  /\ outcome' = "raised"
  /\ UNCHANGED <<definitionVars, visitVars, position, outputs, results, written,
                 misfit, verdict>>

(* "Pipeline contains a cycle" is raised out of execute. *)
RaiseCycle ==
  /\ task = "sort" /\ queue = {} /\ ~AllVisited
  /\ task' = "done"
  /\ outcome' = "raised"
  /\ UNCHANGED <<definitionVars, visitVars, position, outputs, results, written,
                 misfit, verdict>>

BeginNodes ==
  /\ task = "sort" /\ queue = {} /\ AllVisited
  /\ task' = "run"
  /\ position' = 1
  /\ UNCHANGED <<definitionVars, visitVars, outputs, results, written, outcome,
                 misfit, verdict>>

AtNode(n) == task = "run" /\ position \in 1..Len(order) /\ order[position] = n

(* The inputs the node's handler reads exist: _get_input reads the first one, a
   join both, a source none.                                               *)
HasInputs(n) ==
  CASE kind[n] = "source" -> TRUE
    [] kind[n] \in {"step", "destination"} ->
         \E e \in EdgesInto(n) :
           (\A d \in EdgesInto(n) : e <= d) /\ tail[e] \in outputs
    [] kind[n] = "join" ->
         /\ Cardinality(EdgesInto(n)) = 2
         /\ \A e \in EdgesInto(n) : tail[e] \in outputs
    [] OTHER -> FALSE

(* Variant: a write that stops part of the way counts as completed. *)
NodeCompletesPartly(n) ==
  /\ AtNode(n) /\ HasInputs(n)
  /\ outputs' = outputs \cup {n}
  /\ results' = [results EXCEPT ![n] = "completed"]
  /\ \E extent \in {"part", "all"} :
       written' = IF kind[n] = "destination"
                    THEN [written EXCEPT ![n] = extent] ELSE written
  /\ position' = position + 1
  /\ UNCHANGED <<definitionVars, task, visitVars, outcome, misfit, verdict>>

NodeCompletes(n) ==
  /\ AtNode(n) /\ HasInputs(n)
  /\ outputs' = outputs \cup {n}
  /\ results' = [results EXCEPT ![n] = "completed"]
  /\ written' = IF kind[n] = "destination"
                  THEN [written EXCEPT ![n] = "all"] ELSE written
  /\ position' = position + 1
  /\ UNCHANGED <<definitionVars, task, visitVars, outcome, misfit, verdict>>

(* Variant: the loop goes on with the next node. *)
NodeFailsAndGoesOn(n) ==
  /\ AtNode(n)
  /\ results' = [results EXCEPT ![n] = "failed"]
  /\ position' = position + 1
  /\ UNCHANGED <<definitionVars, task, visitVars, outputs, written, outcome, misfit,
                 verdict>>

(* A missing input, an unknown type, or a configuration, a query or a write that
   fails: execute returns.  A destination without transactions (Databricks)
   keeps the rows written so far, and the answer to a commit may be lost.  *)
NodeFails(n) ==
  /\ AtNode(n)
  /\ results' = [results EXCEPT ![n] = "failed"]
  /\ \/ UNCHANGED written
     \/ /\ kind[n] = "destination" /\ HasInputs(n)
        /\ \E extent \in {"part", "all"} :
             written' = [written EXCEPT ![n] = extent]
  /\ misfit' = ~HasInputs(n)
  /\ outcome' = "failed"
  /\ task' = "done"
  /\ UNCHANGED <<definitionVars, visitVars, position, outputs, verdict>>

(* node_map has no such id: the KeyError is raised out of execute. *)
RaiseStranger ==
  /\ \E i \in Strangers : AtNode(i)
  /\ outcome' = "raised"
  /\ task' = "done"
  /\ UNCHANGED <<definitionVars, visitVars, position, outputs, results, written,
                 misfit, verdict>>

Finish ==
  /\ task = "run" /\ position > Len(order)
  /\ outcome' = "success"
  /\ task' = "done"
  /\ UNCHANGED <<definitionVars, visitVars, position, outputs, results, written,
                 misfit, verdict>>

-----------------------------------------------------------------------------
ExecuteStep ==
  \/ \E i \in Ids : task = "sort" /\ Visit(i)
  \/ RaiseCycle \/ BeginNodes \/ RaiseStranger \/ Finish
  \/ \E n \in Nodes : NodeCompletes(n) \/ NodeFails(n)

Next ==
  \/ BeginValidate \/ Judge \/ BeginExecute
  \/ \E i \in Ids : Visit(i)
  \/ RaiseCycle \/ BeginNodes \/ RaiseStranger \/ Finish
  \/ \E n \in Nodes : NodeCompletes(n) \/ NodeFails(n)

Spec == Init /\ [][Next]_vars

(* The worker executes its code. *)
FairSpec == Spec /\ WF_vars(ExecuteStep)

-----------------------------------------------------------------------------
(* Properties. *)

(* A graph has a cycle when some of its nodes all have a predecessor among
   themselves.                                                             *)
Cyclic ==
  \E S \in (SUBSET Nodes) \ {{}} :
    \A n \in S : \E e \in Edges : tail[e] \in S /\ head[e] = n

(* Every edge joins two nodes of the definition. *)
Closed == \A e \in Edges : tail[e] \in Nodes /\ head[e] \in Nodes

(* A node only runs when all its inputs have run, however many edges lead to it
   from the same node, and in whatever order the definition lists them: nothing
   is ever computed, or written to a destination, from a missing input.    *)
InputsFirst ==
  \A e \in Edges : head[e] \in outputs => tail[e] \in outputs

(* The count of visited nodes tells exactly the graphs with a cycle: they are
   refused before any node runs, and no other graph is.                    *)
CyclesRefused ==
  Closed => /\ task \in {"run", "done"} /\ outcome # "raised" => ~Cyclic
            /\ outcome = "raised" => Cyclic /\ outputs = {}
            /\ verdict = "valid" => ~Cyclic

(* A definition that validated executes: it is not refused, and no join fails
   for want of its two inputs.                                             *)
ValidatedExecutes ==
  Closed /\ verdict = "valid" =>
    /\ outcome # "raised"
    /\ misfit => \A n \in Nodes : results[n] = "failed" => kind[n] # "join"

(* A run is only successful when each node completed and each destination was
   written in full; a failed one stopped at its only failed node.          *)
OutcomeTellsAll ==
  /\ outcome = "success" =>
       \A n \in Nodes : /\ results[n] = "completed"
                        /\ kind[n] = "destination" => written[n] = "all"
  /\ outcome = "failed" =>
       \E f \in Nodes : /\ results[f] = "failed"
                        /\ \A n \in Nodes \ {f} : results[n] # "failed"
                        /\ \A e \in Edges : tail[e] = f => head[e] \notin outputs

(* An execution ends: with a result, or by raising. *)
ExecutionEnds == task = "sort" ~> outcome # "none"
=============================================================================
