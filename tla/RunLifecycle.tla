---------------------------- MODULE RunLifecycle ----------------------------
(***************************************************************************)
(* What the pipeline promises about a logical run, as the rows other       *)
(* processes can see: it is stored as RUNNING when a stage commits, ends   *)
(* FAILED or SUCCESS, only a FAILED run is taken up again, analytics comes *)
(* after ingestion, and SUCCESS means both and is final.                   *)
(***************************************************************************)
CONSTANT Runs

VARIABLES status, ingested, analysed

lifecycleVars == <<status, ingested, analysed>>

Init ==
    /\ status = [l \in Runs |-> "ABSENT"]
    /\ ingested = [l \in Runs |-> FALSE]
    /\ analysed = [l \in Runs |-> FALSE]

Ended(l) == status[l] = "SUCCESS"
Becomes(l, value) == status' = [status EXCEPT ![l] = value]

\* A commit on the way: the run shows as RUNNING, and ingestion may be done.
Progress(l) ==
    /\ ~Ended(l)
    /\ Becomes(l, "RUNNING")
    /\ \E done \in {ingested[l], TRUE} : ingested' = [ingested EXCEPT ![l] = done]
    /\ UNCHANGED analysed

Analyse(l) ==
    /\ ~Ended(l)
    /\ ingested[l]
    /\ Becomes(l, "RUNNING")
    /\ analysed' = [analysed EXCEPT ![l] = TRUE]
    /\ UNCHANGED ingested

Fail(l) ==
    /\ ~Ended(l)
    /\ Becomes(l, "FAILED")
    /\ UNCHANGED <<ingested, analysed>>

Succeed(l) ==
    /\ status[l] = "RUNNING"
    /\ analysed[l]
    /\ Becomes(l, "SUCCESS")
    /\ UNCHANGED <<ingested, analysed>>

Next == \E l \in Runs : Progress(l) \/ Analyse(l) \/ Fail(l) \/ Succeed(l)

Spec == Init /\ [][Next]_lifecycleVars
=============================================================================
