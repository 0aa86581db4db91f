------------------------ MODULE MCWorkflowExecution ------------------------
(***************************************************************************)
(* Small instances of WorkflowExecution.                                   *)
(***************************************************************************)
EXTENDS WorkflowExecution, TLC

Symmetry == Permutations(Jobs) \cup Permutations(Workflows) \cup Permutations(Tenants)
=============================================================================
