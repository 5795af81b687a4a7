----------------------------- MODULE MCWorkflow -----------------------------
(* Workflow for TLC: a serial stage, then a stage with a quorum of two.    *)
EXTENDS Workflow, TLC

MCMode == 1 :> "SERIAL" @@ 2 :> "PARALLEL"
MCQuorum == 1 :> 1 @@ 2 :> 2

Symmetry == Permutations(Callers)

=============================================================================
