----------------------- MODULE ExecutionEngineProofs ------------------------
(***************************************************************************)
(* The order of execution is right for every graph: whatever its nodes and *)
(* edges, nodes run after their inputs and exactly the cyclic graphs are   *)
(* refused.  The invariant counts, for each node, the edges from nodes not *)
(* yet visited.  What the executor then reports is what the nodes did.     *)
(***************************************************************************)
EXTENDS ExecutionEngine, FiniteSetTheorems, TLAPS

Visited == {order[k] : k \in 1..Len(order)}
Unvisited(i) == {e \in EdgesInto(i) : tail[e] \notin Visited}

(* in_degree is the number of edges from unvisited ids, the queue holds ids that
   have none left, and every other unvisited node still waits for one.      *)
VisitOK ==
  task \in {"validate", "sort"} =>
    /\ \A i \in Ids : inDegree[i] = Cardinality(Unvisited(i))
    /\ queue \cap Visited = {}
    /\ \A i \in queue : Unvisited(i) = {}
    /\ \A n \in Nodes \ (queue \cup Visited) : Unvisited(n) # {}
    /\ \A i \in queue : i \in Nodes \/ EdgesInto(i) # {}

(* Each edge comes from an id that is earlier in the order than its target. *)
OrderOK ==
  \A k \in 1..Len(order) :
    /\ order[k] \in Nodes \/ \E e \in Edges : head[e] = order[k]
    /\ \A e \in Edges : head[e] = order[k] => \E l \in 1..(k - 1) : tail[e] = order[l]

(* No id is twice in the order. *)
CountOK == IsFiniteSet(Visited) /\ Cardinality(Visited) = Len(order)

(* What has run is what stands before the position in the order. *)
RunOK ==
  /\ task \notin {"run", "done"} => position = 0
  /\ position <= Len(order) + 1
  /\ outputs = {order[k] : k \in 1..(position - 1)}

IInv == TypeOK /\ VisitOK /\ OrderOK /\ CountOK /\ RunOK

-----------------------------------------------------------------------------
(* Sets of edges are finite and at most as large as the list of edges. *)
LEMMA EdgeSets ==
  ASSUME NEW S \in SUBSET Edges
  PROVE  /\ IsFiniteSet(S) /\ Cardinality(S) \in 0..NumEdges
         /\ Cardinality(S) = 0 <=> S = {}
<1>1. IsFiniteSet(Edges) /\ Cardinality(Edges) = NumEdges
  BY FS_Interval, NumEdgesAssumption DEF Edges
<1>2. IsFiniteSet(S) /\ Cardinality(S) <= NumEdges /\ Cardinality(S) \in Nat
  BY <1>1, FS_Subset, FS_CardinalityType
<1>. QED  BY <1>2, FS_EmptySet, NumEdgesAssumption

(* Taking edges away takes their number away. *)
LEMMA EdgeDifference ==
  ASSUME NEW A \in SUBSET Edges, NEW B \in SUBSET A
  PROVE  /\ Cardinality(A) \in 0..NumEdges /\ Cardinality(A \ B) \in 0..NumEdges
         /\ Cardinality(A \ B) = Cardinality(A) - Cardinality(B)
<1>1. /\ IsFiniteSet(A \ B) /\ Cardinality(A \ B) \in 0..NumEdges
      /\ IsFiniteSet(B) /\ Cardinality(B) \in 0..NumEdges
      /\ Cardinality(A) \in 0..NumEdges
  <2>1. A \ B \in SUBSET Edges /\ B \in SUBSET Edges
    OBVIOUS
  <2>. QED  BY <2>1, EdgeSets
<1>2. Cardinality((A \ B) \cup B) =
        Cardinality(A \ B) + Cardinality(B) - Cardinality((A \ B) \cap B)
  BY <1>1, FS_Union
<1>3. (A \ B) \cup B = A /\ (A \ B) \cap B = {}
  OBVIOUS
<1>4. Cardinality(A) = Cardinality(A \ B) + Cardinality(B) - 0
  BY <1>2, <1>3, FS_EmptySet
<1>. QED  BY <1>1, <1>4, NumEdgesAssumption

(* A visit starts with every edge to come. *)
LEMMA StartStep ==
  ASSUME TypeOK, StartVisit, UNCHANGED definitionVars
  PROVE  /\ inDegree' \in [Ids -> 0..NumEdges] /\ queue' \in SUBSET Ids
         /\ order' \in Seq(Ids) /\ VisitOK' /\ OrderOK' /\ CountOK'
<1>1. order' = <<>> /\ Len(order') = 0 /\ Visited' = {}
  BY DEF StartVisit, Visited
<1>2. \A i : EdgesInto(i)' = EdgesInto(i) /\ Unvisited(i)' = EdgesInto(i)
  BY <1>1 DEF EdgesInto, Unvisited, definitionVars
<1>3. \A i : EdgesInto(i) \in SUBSET Edges
  BY DEF EdgesInto
<1>4. \A i \in Ids : Cardinality(EdgesInto(i)) \in 0..NumEdges
  BY <1>3, EdgeSets
<1>5. inDegree' \in [Ids -> 0..NumEdges] /\ queue' \in SUBSET Ids /\ order' \in Seq(Ids)
  BY <1>1, <1>4 DEF StartVisit, Ids
<1>6. VisitOK'
  BY <1>1, <1>2 DEF StartVisit, VisitOK, Ids
<1>7. OrderOK' /\ CountOK'
  BY <1>1, FS_EmptySet DEF OrderOK, CountOK
<1>. QED  BY <1>5, <1>6, <1>7

(* Taking an id from the queue: the edges from it are no longer to come. *)
LEMMA VisitStep ==
  ASSUME TypeOK, VisitOK, OrderOK, CountOK, NEW i, Visit(i)
  PROVE  /\ inDegree' \in [Ids -> 0..NumEdges] /\ queue' \in SUBSET Ids
         /\ order' \in Seq(Ids) /\ VisitOK' /\ OrderOK' /\ CountOK'
<1>1. /\ i \in Ids /\ i \in queue /\ i \notin Visited /\ Unvisited(i) = {}
      /\ i \in Nodes \/ EdgesInto(i) # {}
      /\ order \in Seq(Ids) /\ queue \in SUBSET Ids
      /\ inDegree \in [Ids -> 0..NumEdges]
      /\ \A j \in Ids : inDegree[j] = Cardinality(Unvisited(j))
  BY DEF TypeOK, VisitOK, Visit
<1>2. /\ order' \in Seq(Ids) /\ Len(order') = Len(order) + 1
      /\ order'[Len(order) + 1] = i
      /\ \A k \in 1..Len(order) : order'[k] = order[k]
      /\ Len(order) \in Nat
  BY <1>1 DEF Visit
<1>3. Visited' = Visited \cup {i}
  BY <1>2 DEF Visited
<1>4. \A j : EdgesInto(j)' = EdgesInto(j) /\ Unvisited(j)' = Unvisited(j) \ EdgesFromTo(i, j)
  BY <1>3 DEF EdgesInto, EdgesFromTo, Unvisited, Visit, definitionVars
<1>5. \A j : EdgesFromTo(i, j) \in SUBSET Unvisited(j) /\ Unvisited(j) \in SUBSET Edges
  BY <1>1 DEF EdgesInto, EdgesFromTo, Unvisited
<1>6. ASSUME NEW j \in Ids
      PROVE  inDegree'[j] = Cardinality(Unvisited(j)') /\ inDegree'[j] \in 0..NumEdges
  <2>1. /\ Cardinality(Unvisited(j)) \in 0..NumEdges
        /\ Cardinality(Unvisited(j) \ EdgesFromTo(i, j)) \in 0..NumEdges
        /\ Cardinality(Unvisited(j) \ EdgesFromTo(i, j)) =
             Cardinality(Unvisited(j)) - Cardinality(EdgesFromTo(i, j))
    BY <1>5, EdgeDifference
  <2>2. inDegree'[j] = inDegree[j] - Cardinality(EdgesFromTo(i, j))
    BY DEF Visit
  <2>3. inDegree[j] = Cardinality(Unvisited(j))
    BY <1>1
  <2>4. Unvisited(j)' = Unvisited(j) \ EdgesFromTo(i, j)
    BY <1>4
  <2>. QED  BY <2>1, <2>2, <2>3, <2>4
<1>7. inDegree' \in [Ids -> 0..NumEdges]
  <2>1. inDegree' = [j \in Ids |-> inDegree[j] - Cardinality(EdgesFromTo(i, j))]
    BY DEF Visit
  <2>. QED  BY <1>6, <2>1
<1>8. \A j \in Ids : Cardinality(Unvisited(j)) = 0 <=> Unvisited(j) = {}
  BY <1>5, EdgeSets
<1>9. \A j \in Ids : Cardinality(Unvisited(j)') = 0 <=> Unvisited(j)' = {}
  <2>1. \A j \in Ids : Unvisited(j)' \in SUBSET Edges
    BY <1>4, <1>5
  <2>. QED  BY <2>1, EdgeSets
<1>10. ASSUME NEW j \in Ids
       PROVE  Ready(j, inDegree[j], inDegree'[j]) <=> Unvisited(j) # {} /\ Unvisited(j)' = {}
  BY <1>1, <1>6, <1>8, <1>9, NumEdgesAssumption DEF Ready
<1>11. queue' = (queue \ {i}) \cup {j \in Ids : Unvisited(j) # {} /\ Unvisited(j)' = {}}
  <2>1. queue' = (queue \ {i}) \cup {j \in Ids : Ready(j, inDegree[j], inDegree'[j])}
    BY DEF Visit
  <2>. QED  BY <1>10, <2>1
<1>12. \A j \in Visited : Unvisited(j) = {}
  BY <1>2 DEF OrderOK, Visited, Unvisited, EdgesInto
<1>13. VisitOK'
  <2>1. \A j \in Ids : inDegree'[j] = Cardinality(Unvisited(j)')
    BY <1>6
  <2>2. queue' \cap Visited' = {}
    BY <1>1, <1>3, <1>11, <1>12 DEF VisitOK, Visit
  <2>3. \A j \in queue' : Unvisited(j)' = {}
    BY <1>4, <1>11 DEF VisitOK, Visit
  <2>4. \A n \in Nodes \ (queue' \cup Visited') : Unvisited(n)' # {}
    BY <1>1, <1>3, <1>11 DEF VisitOK, Visit, Ids
  <2>5. \A j \in queue' : j \in Nodes \/ EdgesInto(j)' # {}
    BY <1>4, <1>11 DEF VisitOK, Visit, Unvisited
  <2>. QED  BY <2>1, <2>2, <2>3, <2>4, <2>5 DEF VisitOK
<1>14. OrderOK'
  <2>1. \A e \in EdgesInto(i) : \E l \in 1..Len(order) : tail[e] = order[l]
    BY <1>1 DEF Unvisited, Visited
  <2>2. tail' = tail
    BY DEF Visit, definitionVars
  <2>3. head' = head
    BY DEF Visit, definitionVars
  <2>4. ASSUME NEW k \in 1..Len(order')
        PROVE  /\ order'[k] \in Nodes \/ \E e \in Edges : head[e] = order'[k]
               /\ \A e \in Edges : head[e] = order'[k] =>
                    \E l \in 1..(k - 1) : tail[e] = order'[l]
    <3>1. CASE k = Len(order) + 1
      BY <1>1, <1>2, <2>1, <3>1 DEF EdgesInto
    <3>2. CASE k \in 1..Len(order)
      <4>1. order'[k] = order[k] /\ \A l \in 1..(k - 1) : order'[l] = order[l]
        BY <1>2, <3>2
      <4>. QED  BY <4>1, <3>2 DEF OrderOK
    <3>. QED  BY <1>2, <3>1, <3>2
  <2>. QED  BY <2>2, <2>3, <2>4 DEF OrderOK, Edges
<1>15. CountOK'
  <2>1. /\ IsFiniteSet(Visited \cup {i})
        /\ Cardinality(Visited \cup {i}) = Cardinality(Visited) + 1
    BY <1>1, FS_AddElement DEF CountOK
  <2>2. Cardinality(Visited \cup {i}) = Len(order')
    BY <2>1, <1>2 DEF CountOK
  <2>. QED  BY <2>1, <2>2, <1>3 DEF CountOK
<1>. QED  BY <1>2, <1>7, <1>11, <1>1, <1>13, <1>14, <1>15

(* The initial states satisfy the invariant. *)
LEMMA InvInit ==
  ASSUME Init
  PROVE  IInv
<1>1. order = <<>> /\ Len(order) = 0 /\ Visited = {}
  BY DEF Init, Visited
<1>2. TypeOK
  <2>1. /\ kind \in [Nodes -> Kinds]
        /\ tail \in [Edges -> Ids] /\ head \in [Edges -> Ids]
    BY TypesAssumption DEF Init
  <2>2. inDegree \in [Ids -> 0..NumEdges] /\ order \in Seq(Ids)
    BY NumEdgesAssumption DEF Init
  <2>3. /\ results \in [Nodes -> {"none", "completed", "failed"}]
        /\ written \in [Nodes -> {"nothing", "part", "all"}]
    BY DEF Init
  <2>. QED  BY <2>1, <2>2, <2>3 DEF Init, TypeOK
<1>3. VisitOK /\ OrderOK /\ CountOK
  BY <1>1, FS_EmptySet DEF Init, VisitOK, OrderOK, CountOK
<1>4. RunOK
  BY <1>1 DEF Init, RunOK
<1>. QED  BY <1>2, <1>3, <1>4 DEF IInv

(* What a visit is about does not change once the nodes run. *)
LEMMA GraphKept ==
  ASSUME TypeOK, VisitOK, OrderOK, CountOK,
         UNCHANGED <<definitionVars, visitVars>>,
         task' \in {"validate", "sort"} => task \in {"validate", "sort"}
  PROVE  /\ VisitOK' /\ OrderOK' /\ CountOK'
         /\ inDegree' \in [Ids -> 0..NumEdges] /\ queue' \in SUBSET Ids
         /\ order' \in Seq(Ids)
<1>1. /\ kind' = kind /\ tail' = tail /\ head' = head
      /\ inDegree' = inDegree /\ queue' = queue /\ order' = order
  BY DEF definitionVars, visitVars
<1>2. Visited' = Visited
  BY <1>1 DEF Visited
<1>3. \A i : EdgesInto(i)' = EdgesInto(i) /\ Unvisited(i)' = Unvisited(i)
  BY <1>1, <1>2 DEF EdgesInto, Unvisited
<1>4. VisitOK'
  BY <1>1, <1>2, <1>3 DEF VisitOK
<1>5. OrderOK'
  BY <1>1 DEF OrderOK, Edges
<1>6. CountOK'
  BY <1>1, <1>2 DEF CountOK
<1>. QED  BY <1>1, <1>4, <1>5, <1>6 DEF TypeOK

(* Every step keeps the invariant. *)
LEMMA InvStep ==
  ASSUME IInv, [Next]_vars
  PROVE  IInv'
<1>. USE DEF IInv
<1>1. CASE BeginValidate \/ BeginExecute
  <2>1. StartVisit /\ UNCHANGED definitionVars
    BY <1>1 DEF BeginValidate, BeginExecute
  <2>2. /\ inDegree' \in [Ids -> 0..NumEdges] /\ queue' \in SUBSET Ids
        /\ order' \in Seq(Ids) /\ VisitOK' /\ OrderOK' /\ CountOK'
    BY <2>1, StartStep
  <2>3. TypeOK'
    BY <1>1, <2>2 DEF BeginValidate, BeginExecute, TypeOK, definitionVars, runVars
  <2>4. RunOK'
    BY <1>1, <2>2 DEF BeginValidate, BeginExecute, RunOK, TypeOK, runVars
  <2>. QED  BY <2>2, <2>3, <2>4
<1>2. ASSUME NEW i \in Ids, Visit(i)
      PROVE  IInv'
  <2>1. /\ inDegree' \in [Ids -> 0..NumEdges] /\ queue' \in SUBSET Ids
        /\ order' \in Seq(Ids) /\ VisitOK' /\ OrderOK' /\ CountOK'
    BY <1>2, VisitStep
  <2>2. TypeOK'
    BY <1>2, <2>1 DEF Visit, TypeOK, definitionVars, runVars
  <2>3. RunOK'
    BY <1>2, <2>1 DEF Visit, RunOK, TypeOK, runVars
  <2>. QED  BY <2>1, <2>2, <2>3
<1>3. CASE Judge \/ RaiseCycle \/ BeginNodes \/ RaiseStranger \/ Finish
  <2>1. /\ UNCHANGED <<definitionVars, visitVars>>
        /\ task' \notin {"validate", "sort"}
    BY <1>3 DEF Judge, RaiseCycle, BeginNodes, RaiseStranger, Finish
  <2>2. /\ VisitOK' /\ OrderOK' /\ CountOK'
        /\ inDegree' \in [Ids -> 0..NumEdges] /\ queue' \in SUBSET Ids
        /\ order' \in Seq(Ids)
    BY <2>1, GraphKept
  <2>3. TypeOK'
    BY <1>3, <2>1, <2>2 DEF Judge, RaiseCycle, BeginNodes, RaiseStranger, Finish,
         TypeOK, definitionVars, runVars
  <2>4. RunOK'
    BY <1>3, <2>1, <2>2 DEF Judge, RaiseCycle, BeginNodes, RaiseStranger, Finish,
         RunOK, TypeOK, visitVars, runVars
  <2>. QED  BY <2>2, <2>3, <2>4
<1>4. ASSUME NEW n \in Nodes, NodeCompletes(n) \/ NodeFails(n)
      PROVE  IInv'
  <2>1. /\ UNCHANGED <<definitionVars, visitVars>>
        /\ task' \notin {"validate", "sort"}
    BY <1>4 DEF NodeCompletes, NodeFails, AtNode
  <2>2. /\ VisitOK' /\ OrderOK' /\ CountOK'
        /\ inDegree' \in [Ids -> 0..NumEdges] /\ queue' \in SUBSET Ids
        /\ order' \in Seq(Ids)
    BY <2>1, GraphKept
  <2>3. TypeOK'
    <3>1. CASE NodeCompletes(n)
      BY <3>1, <2>2 DEF NodeCompletes, AtNode, TypeOK, definitionVars
    <3>2. CASE NodeFails(n)
      <4>1. misfit' \in BOOLEAN
        BY <3>2 DEF NodeFails, HasInputs
      <4>. QED  BY <3>2, <4>1, <2>2 DEF NodeFails, TypeOK, definitionVars
    <3>. QED  BY <1>4, <3>1, <3>2
  <2>4. RunOK'
    <3>1. CASE NodeCompletes(n)
      <4>1. /\ position' = position + 1 /\ outputs' = outputs \cup {n} /\ order' = order
            /\ task = "run" /\ task' = "run"
            /\ position \in 1..Len(order) /\ order[position] = n
        BY <3>1 DEF NodeCompletes, AtNode, visitVars
      <4>2. Len(order) \in Nat
        BY DEF TypeOK
      <4>. QED  BY <4>1, <4>2 DEF RunOK
    <3>2. CASE NodeFails(n)
      BY <3>2 DEF NodeFails, RunOK, visitVars
    <3>. QED  BY <1>4, <3>1, <3>2
  <2>. QED  BY <2>2, <2>3, <2>4
<1>5. CASE UNCHANGED vars
  <2>1. /\ UNCHANGED <<definitionVars, visitVars, runVars, task, verdict>>
    BY <1>5 DEF vars
  <2>2. VisitOK' /\ OrderOK' /\ CountOK'
    BY <2>1, GraphKept
  <2>3. TypeOK' /\ RunOK'
    BY <2>1 DEF definitionVars, visitVars, runVars, TypeOK, RunOK
  <2>. QED  BY <2>2, <2>3
<1>. QED  BY <1>1, <1>2, <1>3, <1>4, <1>5 DEF Next

-----------------------------------------------------------------------------
(* Every variable of the engine keeps its type: in_degree never falls below zero,
   even where several edges join the same two nodes.                       *)
THEOREM TypeCorrect == Spec => []TypeOK
<1>1. Init => IInv
  BY InvInit
<1>2. IInv /\ [Next]_vars => IInv'
  BY InvStep
<1>3. IInv => TypeOK
  BY DEF IInv
<1>. QED  BY <1>1, <1>2, <1>3, PTL DEF Spec

(* No node of any graph runs before the nodes it reads from. *)
THEOREM InputsRunFirst == Spec => []InputsFirst
<1>1. Init => IInv
  BY InvInit
<1>2. IInv /\ [Next]_vars => IInv'
  BY InvStep
<1>3. IInv => InputsFirst
  <2>. SUFFICES ASSUME IInv, NEW e \in Edges, head[e] \in outputs
                PROVE  tail[e] \in outputs
    BY DEF InputsFirst
  <2>1. PICK k \in 1..(position - 1) : head[e] = order[k]
    BY DEF IInv, RunOK
  <2>2. k \in 1..Len(order) /\ position \in Nat /\ Len(order) \in Nat
    BY <2>1 DEF IInv, RunOK, TypeOK
  <2>3. PICK l \in 1..(k - 1) : tail[e] = order[l]
    BY <2>1, <2>2 DEF IInv, OrderOK
  <2>4. l \in 1..(position - 1)
    BY <2>1, <2>2, <2>3
  <2>. QED  BY <2>3, <2>4 DEF IInv, RunOK
<1>. QED  BY <1>1, <1>2, <1>3, PTL DEF Spec

-----------------------------------------------------------------------------
(* Cycles. *)

(* Each node of S has a predecessor in S. *)
Loop(S) == \A n \in S : \E e \in Edges : tail[e] \in S /\ head[e] = n

(* The visit never gets into a loop. *)
LoopsOut == \A S \in SUBSET Nodes : Loop(S) => S \cap Visited = {}

(* Only an execution that has ended has an outcome. *)
StageOK == task # "done" => outcome = "none"

CInv == IInv /\ LoopsOut /\ StageOK /\ CyclesRefused

(* In a closed graph only nodes are visited. *)
LEMMA VisitedNodes ==
  ASSUME IInv, Closed
  PROVE  Visited \in SUBSET Nodes
BY DEF IInv, OrderOK, Visited, Closed

(* A visit that reaches every node leaves no room for a loop. *)
LEMMA AllVisitedAcyclic ==
  ASSUME IInv, LoopsOut, Closed, AllVisited
  PROVE  ~Cyclic
<1>1. IsFiniteSet(Nodes) /\ Visited \in SUBSET Nodes
  BY NodesAssumption, VisitedNodes
<1>2. Cardinality(Visited) = Cardinality(Nodes)
  BY DEF IInv, CountOK, AllVisited
<1>3. Visited = Nodes
  BY <1>1, <1>2, FS_Subset
<1>. SUFFICES ASSUME NEW S \in (SUBSET Nodes) \ {{}},
                     \A n \in S : \E e \in Edges : tail[e] \in S /\ head[e] = n
              PROVE  FALSE
  BY DEF Cyclic
<1>4. S \cap Visited = {}
  BY DEF LoopsOut, Loop
<1>. QED  BY <1>3, <1>4

(* A visit that ends before leaves one: the nodes it did not reach. *)
LEMMA StuckCyclic ==
  ASSUME IInv, Closed, task \in {"validate", "sort"}, queue = {}, ~AllVisited
  PROVE  Cyclic
<1>. DEFINE S == Nodes \ Visited
<1>1. Visited \in SUBSET Nodes
  BY VisitedNodes
<1>2. S # {}
  <2>1. Cardinality(Visited) # Cardinality(Nodes)
    BY DEF IInv, CountOK, AllVisited
  <2>. QED  BY <1>1, <2>1
<1>3. \A n \in S : Unvisited(n) # {}
  BY DEF IInv, VisitOK
<1>4. \A n \in S : \E e \in Edges : tail[e] \in S /\ head[e] = n
  BY <1>3 DEF Unvisited, EdgesInto, Closed
<1>5. S \in (SUBSET Nodes) \ {{}}
  BY <1>2
<1>. SUFFICES \E T \in (SUBSET Nodes) \ {{}} :
                \A n \in T : \E e \in Edges : tail[e] \in T /\ head[e] = n
  BY DEF Cyclic
<1>. WITNESS S \in (SUBSET Nodes) \ {{}}
<1>. QED  BY <1>4

(* The definition stays, and with it what is said of its graph. *)
LEMMA GraphFixed ==
  ASSUME UNCHANGED definitionVars
  PROVE  /\ (Closed' <=> Closed) /\ (Cyclic' <=> Cyclic)
         /\ \A S : Loop(S)' <=> Loop(S)
BY DEF definitionVars, Closed, Cyclic, Loop, Edges

(* Every step keeps loops out of the visit. *)
LEMMA LoopsStep ==
  ASSUME IInv, LoopsOut, [Next]_vars
  PROVE  LoopsOut'
<1>1. UNCHANGED definitionVars
  BY DEF Next, vars, BeginValidate, Judge, BeginExecute, Visit, RaiseCycle, BeginNodes,
         RaiseStranger, Finish, NodeCompletes, NodeFails
<1>2. \A S : Loop(S)' <=> Loop(S)
  BY <1>1, GraphFixed
<1>3. CASE BeginValidate \/ BeginExecute
  <2>1. order' = <<>> /\ Visited' = {}
    BY <1>3 DEF BeginValidate, BeginExecute, StartVisit, Visited
  <2>. QED  BY <2>1 DEF LoopsOut
<1>4. ASSUME NEW i \in Ids, Visit(i)
      PROVE  LoopsOut'
  <2>1. Visited' \in SUBSET (Visited \cup {i})
    <3>1. /\ Len(order') = Len(order) + 1 /\ Len(order) \in Nat
          /\ order'[Len(order) + 1] = i
          /\ \A k \in 1..Len(order) : order'[k] = order[k]
      BY <1>4 DEF Visit, IInv, TypeOK
    <3>. QED  BY <3>1 DEF Visited
  <2>2. \A e \in Edges : head[e] = i => tail[e] \in Visited
    BY <1>4 DEF IInv, VisitOK, Visit, Unvisited, EdgesInto
  <2>3. ASSUME NEW S \in SUBSET Nodes, Loop(S)
        PROVE  S \cap Visited' = {}
    <3>1. S \cap Visited = {}
      BY <2>3 DEF LoopsOut
    <3>2. i \notin S
      BY <2>2, <2>3, <3>1 DEF Loop
    <3>. QED  BY <2>1, <3>1, <3>2
  <2>. QED  BY <1>2, <2>3 DEF LoopsOut
<1>5. CASE UNCHANGED order
  <2>1. Visited' = Visited
    BY <1>5 DEF Visited
  <2>. QED  BY <1>2, <2>1 DEF LoopsOut
<1>. QED
  BY <1>3, <1>4, <1>5 DEF Next, vars, visitVars, Judge, RaiseCycle, BeginNodes,
     RaiseStranger, Finish, NodeCompletes, NodeFails

(* Every step keeps the judgements on cycles right. *)
LEMMA CyclesStep ==
  ASSUME CInv, [Next]_vars
  PROVE  StageOK' /\ CyclesRefused'
<1>. USE DEF CInv
<1>1. UNCHANGED definitionVars
  BY DEF Next, vars, BeginValidate, Judge, BeginExecute, Visit, RaiseCycle, BeginNodes,
         RaiseStranger, Finish, NodeCompletes, NodeFails
<1>2. (Closed' <=> Closed) /\ (Cyclic' <=> Cyclic)
  BY <1>1, GraphFixed
<1>3. StageOK'
  BY DEF StageOK, Next, vars, runVars, BeginValidate, Judge, BeginExecute, Visit,
     RaiseCycle, BeginNodes, RaiseStranger, Finish, NodeCompletes, NodeFails, AtNode
<1>4. CASE ~Closed
  BY <1>2, <1>3, <1>4 DEF CyclesRefused
<1>5. CASE Closed
  <2>1. CASE Judge
    <3>1. verdict' = "valid" => ~Cyclic
      BY <1>5, <2>1, AllVisitedAcyclic DEF Judge, SoundStructure
    <3>. QED  BY <1>2, <1>3, <1>5, <2>1, <3>1 DEF Judge, CyclesRefused, runVars
  <2>2. CASE RaiseCycle
    <3>1. Cyclic
      BY <1>5, <2>2, StuckCyclic DEF RaiseCycle
    <3>2. outputs = {}
      BY <2>2 DEF RaiseCycle, IInv, RunOK
    <3>. QED  BY <1>2, <1>3, <1>5, <2>2, <3>1, <3>2 DEF RaiseCycle, CyclesRefused
  <2>3. CASE BeginNodes
    <3>1. ~Cyclic
      BY <1>5, <2>3, AllVisitedAcyclic DEF BeginNodes
    <3>. QED  BY <1>2, <1>3, <1>5, <2>3, <3>1 DEF BeginNodes, CyclesRefused, StageOK
  <2>4. CASE RaiseStranger
    <3>1. PICK i \in Strangers : AtNode(i)
      BY <2>4 DEF RaiseStranger
    <3>2. i \in Nodes
      BY <1>5, <3>1, VisitedNodes DEF AtNode, Visited
    <3>. QED  BY <3>2, StrangersAssumption
  <2>5. CASE Finish \/ \E n \in Nodes : NodeCompletes(n) \/ NodeFails(n)
    <3>1. task = "run" /\ outcome = "none" /\ verdict' = verdict
      BY <2>5 DEF Finish, NodeCompletes, NodeFails, AtNode, StageOK
    <3>2. outcome' # "raised"
      BY <2>5, <3>1 DEF Finish, NodeCompletes, NodeFails
    <3>. QED  BY <1>2, <1>3, <1>5, <3>1, <3>2 DEF CyclesRefused
  <2>6. CASE \/ BeginValidate \/ BeginExecute \/ UNCHANGED vars
             \/ \E i \in Ids : Visit(i)
    <3>1. /\ outcome' = outcome /\ verdict' = verdict /\ outputs' = outputs
          /\ task' \in {"run", "done"} => task' = task
      BY <2>6 DEF BeginValidate, BeginExecute, Visit, vars, runVars
    <3>. QED  BY <1>2, <1>3, <1>5, <3>1 DEF CyclesRefused
  <2>. QED  BY <2>1, <2>2, <2>3, <2>4, <2>5, <2>6 DEF Next
<1>. QED  BY <1>4, <1>5

(* In every graph without unknown ids, exactly the cycles are refused: before any
   node runs, and by validation as by execution.                           *)
THEOREM ExactlyCyclesRefused == Spec => []CyclesRefused
<1>1. Init => CInv
  <2>. SUFFICES ASSUME Init
                PROVE  CInv
    OBVIOUS
  <2>1. order = <<>> /\ Visited = {}
    BY DEF Init, Visited
  <2>. QED  BY <2>1, InvInit DEF Init, CInv, LoopsOut, StageOK, CyclesRefused
<1>2. CInv /\ [Next]_vars => CInv'
  BY InvStep, LoopsStep, CyclesStep DEF CInv
<1>3. CInv => CyclesRefused
  BY DEF CInv
<1>. QED  BY <1>1, <1>2, <1>3, PTL DEF Spec
-----------------------------------------------------------------------------
(* Outcomes. *)

(* No id stands twice in the order. *)
NoRepeat == \A k \in 1..Len(order), l \in 1..Len(order) : order[k] = order[l] => k = l

(* Exactly the nodes that ran have a result, until one fails. *)
ResultsOK ==
  /\ \A n \in outputs : /\ results[n] = "completed"
                        /\ kind[n] = "destination" => written[n] = "all"
  /\ task # "done" => misfit = FALSE /\ \A n \in Nodes \ outputs : results[n] = "none"
  /\ task = "run" => AllVisited

(* What a validation found of the joins. *)
JoinsOK == verdict = "valid" => \A n \in Nodes : kind[n] = "join" => JoinInputs(n)

(* When a join of a closed graph fails, its two inputs were there. *)
MisfitOK ==
  Closed /\ verdict = "valid" /\ misfit =>
    \A n \in Nodes : results[n] = "failed" => kind[n] # "join"

OInv == CInv /\ NoRepeat /\ ResultsOK /\ JoinsOK /\ MisfitOK /\ OutcomeTellsAll

(* The order that has been executed is what stands in outputs. *)
LEMMA NodeIsNew ==
  ASSUME OInv, NEW n \in Nodes, AtNode(n)
  PROVE  /\ n \notin outputs
         /\ \A e \in Edges : head[e] = n => tail[e] \in outputs
         /\ \A e \in Edges : tail[e] = n => head[e] \notin outputs
<1>. USE DEF OInv, CInv, IInv
<1>1. /\ position \in 1..Len(order) /\ order[position] = n /\ Len(order) \in Nat
      /\ outputs = {order[k] : k \in 1..(position - 1)}
  BY DEF AtNode, RunOK, TypeOK
<1>2. n \notin outputs
  <2>. SUFFICES ASSUME NEW k \in 1..(position - 1), order[k] = n
                PROVE  FALSE
    BY <1>1
  <2>1. k \in 1..Len(order) /\ k # position
    BY <1>1
  <2>. QED  BY <1>1, <2>1 DEF NoRepeat
<1>3. \A e \in Edges : head[e] = n => tail[e] \in outputs
  BY <1>1 DEF OrderOK
<1>4. ASSUME NEW e \in Edges, head[e] \in outputs
      PROVE  tail[e] \in outputs
  <2>1. PICK k \in 1..(position - 1) : head[e] = order[k]
    BY <1>1, <1>4
  <2>2. k \in 1..Len(order)
    BY <1>1, <2>1
  <2>3. PICK l \in 1..(k - 1) : tail[e] = order[l]
    BY <2>1, <2>2 DEF OrderOK
  <2>4. l \in 1..(position - 1)
    BY <1>1, <2>1, <2>3
  <2>. QED  BY <1>1, <2>3, <2>4
<1>. QED  BY <1>2, <1>3, <1>4

(* A run that has gone through the order has gone through all nodes. *)
LEMMA AllHaveRun ==
  ASSUME OInv, task = "run", position > Len(order)
  PROVE  outputs = Nodes
<1>. USE DEF OInv, CInv, IInv
<1>1. outputs = Visited
  <2>1. position = Len(order) + 1 /\ Len(order) \in Nat
    BY DEF RunOK, TypeOK
  <2>2. position - 1 = Len(order)
    BY <2>1
  <2>. QED  BY <2>2 DEF RunOK, Visited
<1>2. Visited \in SUBSET Nodes
  BY <1>1 DEF TypeOK
<1>3. Cardinality(Visited) = Cardinality(Nodes)
  BY DEF CountOK, ResultsOK, AllVisited
<1>. QED  BY <1>1, <1>2, <1>3, NodesAssumption, FS_Subset

(* Only a visit makes the order longer, and by an id it does not hold. *)
LEMMA NoRepeatStep ==
  ASSUME OInv, [Next]_vars
  PROVE  NoRepeat'
<1>. USE DEF OInv, CInv, IInv
<1>1. CASE BeginValidate \/ BeginExecute
  <2>1. order' = <<>> /\ Len(order') = 0
    BY <1>1 DEF BeginValidate, BeginExecute, StartVisit
  <2>. QED  BY <2>1 DEF NoRepeat
<1>2. ASSUME NEW i \in Ids, Visit(i)
      PROVE  NoRepeat'
  <2>1. /\ Len(order') = Len(order) + 1 /\ Len(order) \in Nat
        /\ order'[Len(order) + 1] = i
        /\ \A k \in 1..Len(order) : order'[k] = order[k]
    BY <1>2 DEF Visit, TypeOK
  <2>2. \A k \in 1..Len(order) : order[k] # i
    BY <1>2 DEF Visit, VisitOK, Visited
  <2>. QED  BY <2>1, <2>2 DEF NoRepeat
<1>3. CASE UNCHANGED order
  BY <1>3 DEF NoRepeat
<1>. QED
  BY <1>1, <1>2, <1>3 DEF Next, vars, visitVars, Judge, RaiseCycle, BeginNodes,
     RaiseStranger, Finish, NodeCompletes, NodeFails

(* Every step keeps results and outcome in agreement. *)
LEMMA OutcomeStep ==
  ASSUME OInv, [Next]_vars
  PROVE  ResultsOK' /\ JoinsOK' /\ MisfitOK' /\ OutcomeTellsAll'
<1>. USE DEF OInv, CInv, IInv
<1>1. kind' = kind /\ tail' = tail /\ head' = head /\ (Closed' <=> Closed)
  <2>1. UNCHANGED definitionVars
    BY DEF Next, vars, BeginValidate, Judge, BeginExecute, Visit, RaiseCycle, BeginNodes,
           RaiseStranger, Finish, NodeCompletes, NodeFails
  <2>. QED  BY <2>1, GraphFixed DEF definitionVars
<1>2. \A n : JoinInputs(n)' <=> JoinInputs(n)
  BY <1>1 DEF JoinInputs, EdgesInto, Edges
<1>3. CASE Judge
  <2>1. UNCHANGED runVars /\ task' # "done" /\ task' # "run" /\ task # "done"
    BY <1>3 DEF Judge
  <2>2. verdict' = "valid" => \A n \in Nodes : kind[n] = "join" => JoinInputs(n)
    BY <1>3 DEF Judge, SoundStructure
  <2>. QED
    BY <1>1, <1>2, <2>1, <2>2 DEF runVars, ResultsOK, JoinsOK, MisfitOK,
       OutcomeTellsAll, Edges
<1>4. CASE \/ BeginValidate \/ BeginExecute \/ RaiseCycle \/ UNCHANGED vars
           \/ \E i \in Ids : Visit(i)
  <2>1. /\ UNCHANGED <<position, outputs, results, written, misfit, verdict>>
        /\ outcome' \in {outcome, "raised"}
        /\ task' = "done" \/ (task # "done" /\ task' # "run") \/ UNCHANGED vars
    BY <1>4 DEF BeginValidate, BeginExecute, RaiseCycle, Visit, vars, runVars
  <2>2. ResultsOK'
    BY <1>1, <2>1 DEF ResultsOK, AllVisited, vars, visitVars
  <2>. QED
    BY <1>1, <1>2, <2>1, <2>2 DEF JoinsOK, MisfitOK, OutcomeTellsAll, Edges
<1>5. CASE BeginNodes
  <2>1. /\ UNCHANGED <<outputs, results, written, outcome, misfit, verdict, order>>
        /\ task # "done" /\ AllVisited
    BY <1>5 DEF BeginNodes, visitVars
  <2>. QED
    BY <1>1, <1>2, <2>1 DEF ResultsOK, AllVisited, JoinsOK, MisfitOK, OutcomeTellsAll,
       Edges
<1>6. CASE RaiseStranger
  BY <1>1, <1>2, <1>6 DEF RaiseStranger, ResultsOK, JoinsOK, MisfitOK, OutcomeTellsAll
<1>7. CASE Finish
  <2>1. outputs = Nodes
    BY <1>7, AllHaveRun DEF Finish
  <2>2. /\ UNCHANGED <<outputs, results, written, misfit, verdict>>
        /\ outcome' = "success" /\ task' = "done"
    BY <1>7 DEF Finish
  <2>. QED
    BY <1>1, <1>2, <2>1, <2>2 DEF ResultsOK, JoinsOK, MisfitOK, OutcomeTellsAll
<1>8. ASSUME NEW n \in Nodes, NodeCompletes(n)
      PROVE  ResultsOK' /\ JoinsOK' /\ MisfitOK' /\ OutcomeTellsAll'
  <2>1. /\ task = "run" /\ task' = "run" /\ order' = order
        /\ outputs' = outputs \cup {n}
        /\ results' = [results EXCEPT ![n] = "completed"]
        /\ outcome' = outcome /\ misfit' = misfit /\ verdict' = verdict
        /\ outcome = "none"
        /\ n \notin outputs
    BY <1>8, NodeIsNew DEF NodeCompletes, AtNode, visitVars, StageOK
  <2>2. /\ kind[n] = "destination" => written'[n] = "all"
        /\ \A m \in Nodes \ {n} : written'[m] = written[m]
    BY <1>8 DEF NodeCompletes, TypeOK
  <2>3. /\ results'[n] = "completed"
        /\ \A m \in Nodes \ {n} : results'[m] = results[m]
    BY <2>1 DEF TypeOK
  <2>4. outputs \in SUBSET Nodes
    BY DEF TypeOK
  <2>5. ResultsOK'
    BY <1>1, <2>1, <2>2, <2>3, <2>4 DEF ResultsOK, AllVisited
  <2>. QED  BY <1>1, <1>2, <2>1, <2>5 DEF ResultsOK, JoinsOK, MisfitOK, OutcomeTellsAll
<1>9. ASSUME NEW n \in Nodes, NodeFails(n)
      PROVE  ResultsOK' /\ JoinsOK' /\ MisfitOK' /\ OutcomeTellsAll'
  <2>1. /\ task = "run" /\ task' = "done" /\ outputs' = outputs /\ verdict' = verdict
        /\ results' = [results EXCEPT ![n] = "failed"]
        /\ outcome' = "failed" /\ misfit' = ~HasInputs(n)
    BY <1>9 DEF NodeFails, AtNode
  <2>2. /\ n \notin outputs
        /\ \A e \in Edges : head[e] = n => tail[e] \in outputs
        /\ \A e \in Edges : tail[e] = n => head[e] \notin outputs
    BY <1>9, NodeIsNew DEF NodeFails
  <2>3. \A m \in Nodes \ {n} : written'[m] = written[m]
    BY <1>9 DEF NodeFails, TypeOK
  <2>4. /\ results'[n] = "failed"
        /\ \A m \in Nodes \ {n} : results'[m] = results[m] /\ results[m] # "failed"
    BY <2>1 DEF TypeOK, ResultsOK
  <2>5. outputs \in SUBSET Nodes \ {n}
    BY <2>2 DEF TypeOK
  <2>6. ResultsOK'
    BY <1>1, <2>1, <2>3, <2>4, <2>5 DEF ResultsOK
  <2>7. JoinsOK'
    BY <1>1, <1>2, <2>1 DEF JoinsOK
  <2>8. MisfitOK'
    <3>1. verdict = "valid" /\ kind[n] = "join" => HasInputs(n)
      BY <2>2 DEF JoinsOK, JoinInputs, HasInputs, EdgesInto
    <3>. QED  BY <1>1, <2>1, <2>4, <3>1 DEF MisfitOK
  <2>9. OutcomeTellsAll'
    BY <1>1, <2>1, <2>2, <2>4 DEF OutcomeTellsAll, Edges
  <2>. QED  BY <2>6, <2>7, <2>8, <2>9
<1>. QED  BY <1>3, <1>4, <1>5, <1>6, <1>7, <1>8, <1>9 DEF Next

(* The invariant holds at first and is kept. *)
LEMMA OutcomeInv ==
  /\ Init => OInv
  /\ OInv /\ [Next]_vars => OInv'
<1>1. ASSUME Init
      PROVE  OInv
  <2>1. order = <<>> /\ Len(order) = 0 /\ Visited = {}
    BY <1>1 DEF Init, Visited
  <2>2. CInv
    BY <1>1, <2>1, InvInit DEF Init, CInv, LoopsOut, StageOK, CyclesRefused
  <2>. QED
    BY <1>1, <2>1, <2>2 DEF Init, OInv, NoRepeat, ResultsOK, JoinsOK, MisfitOK,
       OutcomeTellsAll
<1>2. ASSUME OInv, [Next]_vars
      PROVE  OInv'
  BY <1>2, InvStep, LoopsStep, CyclesStep, NoRepeatStep, OutcomeStep DEF OInv, CInv
<1>. QED  BY <1>1, <1>2

(* A definition that validated is never refused, and none of its joins fails for
   want of an input, whatever the graph.                                   *)
THEOREM ValidatedRuns == Spec => []ValidatedExecutes
<1>1. OInv => ValidatedExecutes
  BY DEF OInv, CInv, CyclesRefused, MisfitOK, ValidatedExecutes
<1>. QED  BY OutcomeInv, <1>1, PTL DEF Spec

(* A success has every node completed and every destination written in full, a
   failure one failed node and nothing computed from it, whatever the graph. *)
THEOREM OutcomesAreTrue == Spec => []OutcomeTellsAll
<1>1. OInv => OutcomeTellsAll
  BY DEF OInv
<1>. QED  BY OutcomeInv, <1>1, PTL DEF Spec
=============================================================================
