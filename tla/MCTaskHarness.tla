--------------------------- MODULE MCTaskHarness ---------------------------
(* TaskHarness for TLC: the workers are interchangeable.                   *)
EXTENDS TaskHarness, TLC

WorkerSymmetry == Permutations(Workers)

=============================================================================
