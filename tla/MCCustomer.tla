------------------------------ MODULE MCCustomer ------------------------------
(* Bounds for model-checking CustomerDimension. *)
EXTENDS CustomerDimension

CONSTANTS c1

OneCustomer == {c1}
TwoSegments == {"STANDARD", "VIP"}
TwoCities == {"Kochi", "Mumbai"}
=============================================================================
