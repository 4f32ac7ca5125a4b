------------------------------ MODULE MCSchedule ------------------------------
(* Bounds for model-checking ScheduledPipeline. *)
EXTENDS ScheduledPipeline

CONSTANTS l1, s1, s2

OneRun == {l1}
TwoSessions == {s1, s2}
=============================================================================
