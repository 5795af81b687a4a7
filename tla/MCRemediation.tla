---------------------------- MODULE MCRemediation ---------------------------
(* Remediation for TLC.                                                    *)
EXTENDS Remediation, TLC

Symmetry == Permutations(Callers)

=============================================================================
