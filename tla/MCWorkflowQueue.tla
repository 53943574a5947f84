-------------------------- MODULE MCWorkflowQueue --------------------------
(* Small instances of WorkflowQueue.                                        *)
EXTENDS WorkflowQueue, TLC

Symmetry == Permutations(Deliveries) \cup Permutations(Workers)
=============================================================================
