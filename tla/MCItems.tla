------------------------------- MODULE MCItems -------------------------------
(* Bounds for model-checking OrderItems. *)
EXTENDS OrderItems, MCIngestion
=============================================================================
