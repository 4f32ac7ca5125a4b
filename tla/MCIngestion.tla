---------------------------- MODULE MCIngestion ----------------------------
(* Bounds for model-checking TransactionIngestion. *)
EXTENDS TransactionIngestion, TLC

CONSTANTS b1, b2, s1, s2

OneBatch == {b1}
TwoBatches == {b1, b2}
TwoSessions == {s1, s2}
OneSession == {s1}
AnyCaller == BOOLEAN
IdleCaller == {FALSE}
TxCaller == {TRUE}

\* Orders have one or two items.
ItemCount(i) == 1 + (i % 2)

Symmetry == Permutations(Sessions) \cup Permutations(Batches)
=============================================================================
