---------------------------- MODULE MCAnalytics ----------------------------
(* Bounds for model-checking AnalyticsBuild. *)
EXTENDS AnalyticsBuild, TLC

CONSTANTS a1, a2

TwoBuilders == {a1, a2}

\* The second order is two days before the first, the third a day after it.
SomeDates == <<3, 1, 4>>
TwoDates == <<3, 1>>

Symmetry == Permutations(Builders)
=============================================================================
