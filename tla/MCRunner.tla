------------------------------ MODULE MCRunner ------------------------------
(* Bounds for model-checking PipelineRunner. *)
EXTENDS PipelineRunner, TLC

CONSTANTS l1, s1, s2

OneRun == {l1}
OneSession == {s1}
TwoSessions == {s1, s2}

Symmetry == Permutations(Sessions) \cup Permutations(Runs)
=============================================================================
