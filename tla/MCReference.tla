----------------------------- MODULE MCReference -----------------------------
(* Bounds for model-checking ReferenceData. *)
EXTENDS ReferenceData

CONSTANTS s1, s2

TwoSessions == {s1, s2}

\* The second session is configured for one store more, and for one category
\* more than there is to generate: it is never ready.
Growing ==
    [s \in TwoSessions |->
        [t \in Tables |-> IF t \in {"categories", "stores"} /\ s = s2 THEN 2 ELSE 1]]
=============================================================================
