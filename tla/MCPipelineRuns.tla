--------------------------- MODULE MCPipelineRuns ---------------------------
(* TLC instance of PipelineRuns: identical workers. *)
EXTENDS PipelineRuns, TLC

Symmetry == Permutations(Workers)
=============================================================================
