------------------------- MODULE MCExecutionEngine --------------------------
(* TLC instance of ExecutionEngine: a node that reads nothing or something, one
   of any type, and a destination.                                         *)
EXTENDS ExecutionEngine

CONSTANTS a, b, d

MCKinds ==
  {[n \in Nodes |-> CASE n = a -> k [] n = b -> l [] OTHER -> "destination"] :
     k \in {"source", "step"}, l \in Kinds \ {"source"}}
=============================================================================
