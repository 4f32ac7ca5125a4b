--------------------- MODULE TransactionIngestionProofs ---------------------
(***************************************************************************)
(* TLAPS proofs about TransactionIngestion, for every number of sessions,  *)
(* batches, orders and parts.                                              *)
(*                                                                         *)
(* The argument.  Committed ids are 1..n.  A session whose planned ids do  *)
(* not start at n + 1 cannot load: they collide.  So whoever loads extends *)
(* 1..n by the next range, and a session that works with a stale smaller   *)
(* start_order_id (its batch was loaded by another session meanwhile) only *)
(* ever collides; it can plan too little, never too much.                  *)
(***************************************************************************)
EXTENDS TransactionIngestion, TLAPS

\* Id i is 0 or committed.
Reached(i) == i = 0 \/ i \in CommittedOrders

\* The labels at which the session has its start_order_id and may still load.
Planned == {"resume", "part", "insert", "reclaim", "load", "complete", "heartbeat",
            "failPart", "quality", "finish"}
Claiming == {"claim", "inspect", "retry"}
BeforeLoad == {"part", "insert", "reclaim", "load"}
HoldsOrders == {"complete", "failPart", "rollback"}
HoldsParts == {"load", "complete", "failPart", "rollback"}
OnPart == {"insert", "reclaim", "load", "complete", "heartbeat", "failPart"}

\* Committed order ids are 1..n.
Contiguous == \E n \in Nat : CommittedOrders = 1..n

\* Nothing is pending outside a transaction; a session in the function has a batch.
SessionInv(s) ==
    /\ ~open[s] => /\ pendBatch[s] = NoWrite
                   /\ pendPart[s] = NoPartWrites
                   /\ pendOrders[s] = {}
                   /\ pendQuality[s] = {}
    /\ pc[s] # "out" => job[s] \in Batches
    /\ pc[s] \in {"out", "claim", "inspect", "retry", "start", "allocate", "resume"} => part[s] = 1
    /\ pc[s] \in {"allocate", "resume", "quality"} => open[s]
    /\ pc[s] \in {"out", "failBatch"} => ~open[s]
    /\ pc[s] \in BeforeLoad /\ ~open[s] => part[s] # 1
    /\ pc[s] \in OnPart => part[s] \in Parts

\* The calls are those of the pipeline runner, whose connection is in a transaction.
RunnerCalls == CallerInTx \subseteq {TRUE}

\* Until part 1 is registered whoever works on the batch holds its row, and no
\* two sessions do.
ClaimInv(s) ==
    /\ pc[s] \in Claiming => open[s]
    /\ pc[s] \in {"start", "allocate"} \cup Planned /\ parts[job[s]][1].status = "ABSENT" =>
          pendBatch[s] # NoWrite
    /\ pc[s] = "allocate" => parts[job[s]][1].status = "ABSENT"
    /\ \A t \in Sessions \ {s} : job[t] = job[s] =>
          pendBatch[s] = NoWrite \/ pendBatch[t] = NoWrite

\* The part a session works on is registered, and only that part is pending.
PartInv(s) ==
    /\ \A k \in Parts : pendPart[s][k] # NoWrite =>
          /\ pc[s] \in HoldsParts
          /\ k = part[s]
          /\ pendPart[s][k].status # "ABSENT"
    /\ pc[s] \in {"load", "complete", "heartbeat", "failPart"} =>
          SeenPart(s, part[s]).status # "ABSENT"

\* Pending orders are the ids of the part the session works on, and nobody
\* else has them.
PendingInv(s) ==
    /\ pendOrders[s] # {} =>
          /\ pc[s] \in HoldsOrders
          /\ part[s] \in Parts
          /\ pendOrders[s] = PartIds(s, part[s])
    /\ pendOrders[s] \cap CommittedOrders = {}
    /\ \A t \in Sessions \ {s} : pendOrders[s] \cap pendOrders[t] = {}

\* start_order_id follows a committed id and is no larger than any order of
\* the batch.
StartInv(s) ==
    pc[s] \in Planned =>
        /\ start[s] >= 1
        /\ Reached(start[s] - 1)
        /\ \A i \in orders[job[s]] : start[s] <= i

\* The same of the start that a pending or committed part-1 row pins.
PinOK(row, b) ==
    row.status # "ABSENT" =>
        /\ row.start >= 1
        /\ Reached(row.start - 1)
        /\ \A i \in orders[b] : row.start <= i
PinInv(b) == PinOK(parts[b][1], b)
PendingPinInv(s) == pendPart[s][1] # NoWrite => PinOK(pendPart[s][1], job[s])

\* At a part k > 1 the orders before part k, counted from some order of the
\* batch, are committed.
PrecedingInv(s) ==
    pc[s] \in BeforeLoad \cup {"complete"} /\ part[s] \in Parts \ {1} =>
        \E e \in orders[job[s]] : e + Offset(part[s]) - 1 \in CommittedOrders

\* After the load, the part's ids are the session's, and so is start_order_id.
LoadedInv(s) ==
    pc[s] \in {"complete", "heartbeat"} =>
        PartIds(s, part[s]) \cup {start[s]} \subseteq orders[job[s]] \cup pendOrders[s]

\* A COMPLETED part ends at a committed id, counted from some order of the batch.
CompletedInv(b) ==
    \A k \in Parts : parts[b][k].status = "COMPLETED" =>
        \E e \in orders[b] : e + Offset(k) + Size(k) - 1 \in CommittedOrders

IInv ==
    /\ RunnerCalls
    /\ TypeOK
    /\ Contiguous
    /\ \A s \in Sessions :
          SessionInv(s) /\ ClaimInv(s) /\ PartInv(s) /\ PendingInv(s) /\ StartInv(s)
          /\ PendingPinInv(s) /\ PrecedingInv(s) /\ LoadedInv(s)
    /\ \A b \in Batches : PinInv(b) /\ CompletedInv(b)
    /\ PinnedWithData
    /\ NeverLoadedTwice

-----------------------------------------------------------------------------
(* The parts: they are consecutive ranges of at least one order that stay  *)
(* within config.orders.                                                   *)

LEMMA PartsFacts ==
    /\ NumParts \in Nat \ {0}
    /\ (NumParts - 1) * BatchSize < Orders
<1>. DEFINE O == Orders
            B == BatchSize
<1>1. O \in Nat \ {0} /\ B \in Nat \ {0}
  BY ConfigAssumption
<1>2. O + B - 1 \in Nat /\ O + B - 1 >= B
  BY <1>1
<1>. QED BY <1>1, <1>2, SMTT(30) DEF NumParts

LEMMA RangeFacts ==
    /\ 1 \in Parts /\ Parts \subseteq Nat
    /\ Offset(1) = 0
    /\ \A k \in Parts : /\ Offset(k) \in Nat
                        /\ Size(k) \in Nat \ {0}
                        /\ Offset(k) + Size(k) <= Orders
                        /\ k + 1 \in Parts => Offset(k + 1) = Offset(k) + Size(k)
<1>1. 1 \in Parts /\ Parts \subseteq Nat
  BY PartsFacts DEF Parts
<1>2. Offset(1) = 0
  BY ConfigAssumption DEF Offset
<1>3. ASSUME NEW k \in Parts
      PROVE  Offset(k) \in Nat /\ Offset(k) < Orders
  <2>1. k \in Nat \ {0} /\ k - 1 \in Nat /\ k - 1 <= NumParts - 1 /\ NumParts - 1 \in Nat
    BY PartsFacts DEF Parts
  <2>2. \A i, j, m \in Nat : i <= j => i * m <= j * m /\ i * m \in Nat
    OBVIOUS
  <2>. QED BY <2>1, <2>2, PartsFacts, ConfigAssumption DEF Offset
<1>4. ASSUME NEW k \in Parts
      PROVE  Size(k) \in Nat \ {0} /\ Offset(k) + Size(k) <= Orders
  BY <1>3, ConfigAssumption DEF Size
<1>5. ASSUME NEW k \in Parts, k + 1 \in Parts
      PROVE  Offset(k + 1) = Offset(k) + Size(k)
  <2>1. Offset(k + 1) = Offset(k) + BatchSize
    BY <1>1, ConfigAssumption, SMTT(30) DEF Offset
  <2>2. Offset(k + 1) < Orders
    BY <1>3, <1>5
  <2>. QED BY <2>1, <2>2, <1>3, ConfigAssumption DEF Size
<1>. QED BY <1>1, <1>2, <1>3, <1>4, <1>5

-----------------------------------------------------------------------------
(* One session moves at a time.                                            *)

SessionNext(s) ==
    \/ \E b \in Batches, inTx \in CallerInTx : Call(s, b, inTx)
    \/ Step(s)
    \/ Fault(s)
    \/ Crash(s)

\* t's connection and local variables are as they were.
Same(t) ==
    /\ open'[t] = open[t]
    /\ pendBatch'[t] = pendBatch[t]
    /\ pendPart'[t] = pendPart[t]
    /\ pendOrders'[t] = pendOrders[t]
    /\ pendQuality'[t] = pendQuality[t]
    /\ pc'[t] = pc[t]
    /\ job'[t] = job[t]
    /\ start'[t] = start[t]
    /\ part'[t] = part[t]

LEMMA OthersStay ==
    ASSUME TypeOK, NEW s \in Sessions, SessionNext(s), NEW t \in Sessions \ {s}
    PROVE  Same(t)
<1>. USE DEF TypeOK, Same, Goto, OpenTransaction
<1>1. ASSUME NEW b \in Batches, NEW inTx \in CallerInTx, Call(s, b, inTx)
      PROVE  Same(t)
  BY <1>1 DEF Call, pendVars
<1>2. CASE StartBatch(s)
  BY <1>2 DEF StartBatch, WriteBatch
<1>3. CASE InspectBatch(s)
  BY <1>3 DEF InspectBatch, EndTransaction, Leave, pendVars
<1>4. CASE RetryFailedBatch(s)
  BY <1>4 DEF RetryFailedBatch, WriteBatch, EndTransaction, Leave
<1>5. CASE ReadStartIds(s)
  BY <1>5 DEF ReadStartIds, pendVars
<1>5a. CASE AllocateStartId(s)
  BY <1>5a DEF AllocateStartId, pendVars
<1>6. CASE ReadCompletedParts(s)
  BY <1>6 DEF ReadCompletedParts, pendVars
<1>7. CASE SelectPart(s)
  BY <1>7 DEF SelectPart, pendVars
<1>8. CASE InsertPart(s)
  BY <1>8 DEF InsertPart, WritePart
<1>9. CASE ReclaimPart(s)
  BY <1>9 DEF ReclaimPart, WritePart
<1>10. CASE LoadPart(s)
  BY <1>10 DEF LoadPart, WriteOrders
<1>11. CASE CompletePart(s)
  BY <1>11 DEF CompletePart, CommitWith, EndTransaction, pendVars
<1>12. CASE HeartbeatBatch(s)
  BY <1>12 DEF HeartbeatBatch, pendVars
<1>13. CASE FailPart(s)
  BY <1>13 DEF FailPart, WritePart
<1>14. CASE Reconcile(s)
  BY <1>14 DEF Reconcile, pendVars
<1>15. CASE CheckQuality(s)
  BY <1>15 DEF CheckQuality
<1>16. CASE CompleteBatch(s)
  BY <1>16 DEF CompleteBatch, WriteBatch
<1>17. CASE Return(s)
  BY <1>17 DEF Return, CommitWith, EndTransaction, Leave
<1>18. CASE Rollback(s)
  BY <1>18 DEF Rollback, EndTransaction
<1>19. CASE FailBatch(s)
  BY <1>19 DEF FailBatch, WriteBatch, Leave
<1>20. CASE Fault(s)
  BY <1>20 DEF Fault, pendVars
<1>21. CASE Crash(s)
  BY <1>21 DEF Crash, EndTransaction, Leave
<1>. QED BY <1>1, <1>2, <1>3, <1>4, <1>5, <1>5a, <1>6, <1>7, <1>8, <1>9, <1>10, <1>11,
            <1>12, <1>13, <1>14, <1>15, <1>16, <1>17, <1>18, <1>19, <1>20, <1>21
         DEF SessionNext, Step

-----------------------------------------------------------------------------
(* Type correctness of a step.                                             *)

LEMMA MaxOfRange == \A n \in Nat : NextOrderId(1..n) = n + 1
<1>. TAKE n \in Nat
<1>1. CASE n = 0
  BY <1>1 DEF NextOrderId
<1>2. CASE n # 0
  <2>1. 1..n # {} /\ n \in 1..n /\ \A x \in 1..n : n >= x
    BY <1>2
  <2>2. \A x \in 1..n : (\A y \in 1..n : x >= y) => x = n
    BY <2>1
  <2>3. Max(1..n) = n
    BY <2>1, <2>2 DEF Max
  <2>. QED BY <2>1, <2>3 DEF NextOrderId
<1>. QED BY <1>1, <1>2

\* What a session sees has the type of the table.
LEMMA SeenTyped ==
    ASSUME TypeOK, NEW s \in Sessions, job[s] \in Batches
    PROVE  /\ SeenBatch(s) \in BatchRow
           /\ \A k \in Parts : SeenPart(s, k) \in PartRow
BY DEF TypeOK, SeenBatch, SeenPart, Seen

\* A session that allocates its start id sees committed orders only.
LEMMA StartTyped ==
    ASSUME TypeOK, Contiguous, NEW s \in Sessions, PendingInv(s), pc[s] = "allocate"
    PROVE  FreshOrderId(s) \in Nat \ {0} /\ Reached(FreshOrderId(s) - 1)
<1>1. pendOrders[s] = {}
  BY DEF PendingInv, HoldsOrders
<1>2. PICK n \in Nat : CommittedOrders = 1..n
  BY DEF Contiguous
<1>3. NextOrderId(SeenOrders(s)) = n + 1
  BY <1>1, <1>2, MaxOfRange DEF SeenOrders
<1>4. Reached(n)
  BY <1>2 DEF Reached
<1>. QED BY <1>3, <1>4 DEF FreshOrderId

\* A write of a typed row leaves tables and pending writes typed.
LEMMA WritesTyped ==
    ASSUME TypeOK, NEW s \in Sessions, job[s] \in Batches
    PROVE  /\ \A row \in BatchRow : WriteBatch(s, row) =>
                 /\ batches' \in [Batches -> BatchRow]
                 /\ pendBatch' \in [Sessions -> BatchRow \cup {NoWrite}]
           /\ \A k \in Parts, row \in PartRow : WritePart(s, k, row) =>
                 /\ parts' \in [Batches -> [Parts -> PartRow]]
                 /\ pendPart' \in [Sessions -> [Parts -> PartRow \cup {NoWrite}]]
           /\ \A ids \in SUBSET Nat : WriteOrders(s, ids) =>
                 /\ orders' \in [Batches -> SUBSET Nat]
                 /\ pendOrders' \in [Sessions -> SUBSET Nat]
<1>. USE DEF TypeOK
<1>1. ASSUME NEW row \in BatchRow, WriteBatch(s, row)
      PROVE  /\ batches' \in [Batches -> BatchRow]
             /\ pendBatch' \in [Sessions -> BatchRow \cup {NoWrite}]
  BY <1>1 DEF WriteBatch
<1>2. ASSUME NEW k \in Parts, NEW row \in PartRow, WritePart(s, k, row)
      PROVE  /\ parts' \in [Batches -> [Parts -> PartRow]]
             /\ pendPart' \in [Sessions -> [Parts -> PartRow \cup {NoWrite}]]
  <2>1. [parts[job[s]] EXCEPT ![k] = row] \in [Parts -> PartRow]
    OBVIOUS
  <2>2. [pendPart[s] EXCEPT ![k] = row] \in [Parts -> PartRow \cup {NoWrite}]
    OBVIOUS
  <2>. QED BY <1>2, <2>1, <2>2 DEF WritePart
<1>3. ASSUME NEW ids \in SUBSET Nat, WriteOrders(s, ids)
      PROVE  /\ orders' \in [Batches -> SUBSET Nat]
             /\ pendOrders' \in [Sessions -> SUBSET Nat]
  <2>1. orders[job[s]] \cup ids \in SUBSET Nat /\ pendOrders[s] \cup ids \in SUBSET Nat
    OBVIOUS
  <2>2. CASE open[s]
    BY <1>3, <2>1, <2>2 DEF WriteOrders
  <2>3. CASE ~open[s]
    BY <1>3, <2>1, <2>3 DEF WriteOrders
  <2>. QED BY <2>2, <2>3
<1>. QED BY <1>1, <1>2, <1>3

\* So do the end of a transaction and the end of the function.
LEMMA EndTyped ==
    ASSUME TypeOK, NEW s \in Sessions
    PROVE  /\ EndTransaction(s) =>
                 /\ open' \in [Sessions -> BOOLEAN]
                 /\ pendBatch' \in [Sessions -> BatchRow \cup {NoWrite}]
                 /\ pendPart' \in [Sessions -> [Parts -> PartRow \cup {NoWrite}]]
                 /\ pendOrders' \in [Sessions -> SUBSET Nat]
                 /\ pendQuality' \in [Sessions -> SUBSET BOOLEAN]
           /\ Leave(s) =>
                 /\ pc' \in [Sessions -> Labels]
                 /\ job' \in [Sessions -> Batches \cup {NoBatch}]
                 /\ start' \in [Sessions -> Nat]
                 /\ part' \in [Sessions -> 1..(NumParts + 1)]
                 /\ counted' \in [Sessions -> [Parts -> Nat]]
<1>. USE DEF TypeOK
<1>1. ASSUME EndTransaction(s)
      PROVE  /\ open' \in [Sessions -> BOOLEAN]
             /\ pendBatch' \in [Sessions -> BatchRow \cup {NoWrite}]
             /\ pendPart' \in [Sessions -> [Parts -> PartRow \cup {NoWrite}]]
             /\ pendOrders' \in [Sessions -> SUBSET Nat]
             /\ pendQuality' \in [Sessions -> SUBSET BOOLEAN]
  <2>1. NoPartWrites \in [Parts -> PartRow \cup {NoWrite}]
    BY DEF NoPartWrites
  <2>. QED BY <1>1, <2>1 DEF EndTransaction
<1>2. ASSUME Leave(s)
      PROVE  /\ pc' \in [Sessions -> Labels]
             /\ job' \in [Sessions -> Batches \cup {NoBatch}]
             /\ start' \in [Sessions -> Nat]
             /\ part' \in [Sessions -> 1..(NumParts + 1)]
             /\ counted' \in [Sessions -> [Parts -> Nat]]
  <2>1. NothingCounted \in [Parts -> Nat] /\ 1 \in 1..(NumParts + 1)
    BY PartsFacts DEF NothingCounted
  <2>. QED BY <1>2, <2>1 DEF Leave, Goto, Labels
<1>. QED BY <1>1, <1>2

LEMMA TypeStep ==
    ASSUME IInv, NEW s \in Sessions, SessionNext(s)
    PROVE  TypeOK'
<1>. SUFFICES ASSUME TypeOK PROVE TypeOK'
  BY DEF IInv
<1>. DEFINE J == job[s]
<1>a. pc[s] # "out" => job[s] \in Batches
  BY DEF IInv, SessionInv
<1>b. job[s] \in Batches => SeenBatch(s) \in BatchRow /\ \A k \in Parts : SeenPart(s, k) \in PartRow
  BY SeenTyped
<1>c. \A k \in Parts : PartIds(s, k) \subseteq Nat /\ start[s] + Offset(k) \in Nat
  BY RangeFacts DEF PartIds, TypeOK
<1>e. NumParts \in Nat \ {0} /\ Parts = 1..NumParts
  BY PartsFacts DEF Parts
<1>f. pc[s] \in OnPart => part[s] \in Parts
  BY DEF IInv, SessionInv
<1>. USE DEF TypeOK, Goto, OpenTransaction
<1>1. ASSUME NEW b \in Batches, NEW inTx \in CallerInTx, Call(s, b, inTx)
      PROVE  TypeOK'
  BY <1>1, ConfigAssumption DEF Call, pendVars, dbVars, Labels
<1>2. CASE StartBatch(s)
  <2>1. [status |-> "STARTED", attempts |-> 1] \in BatchRow
    BY ConfigAssumption DEF BatchRow, BatchStatus
  <2>2. CASE SeenBatch(s).status = "ABSENT"
    BY <1>2, <2>2, <1>a, <2>1, WritesTyped DEF StartBatch, Labels
  <2>3. CASE SeenBatch(s).status # "ABSENT"
    BY <1>2, <2>3 DEF StartBatch, Labels
  <2>. QED BY <2>2, <2>3
<1>3. CASE InspectBatch(s)
  <2>1. CASE SeenBatch(s).status = "STARTED"
    BY <1>3, <2>1, EndTyped DEF InspectBatch, dbVars
  <2>2. CASE SeenBatch(s).status # "STARTED"
    BY <1>3, <2>2 DEF InspectBatch, pendVars, dbVars, Labels
  <2>. QED BY <2>1, <2>2
<1>4. CASE RetryFailedBatch(s)
  <2>1. MayRetry(SeenBatch(s)) =>
          [status |-> "STARTED", attempts |-> SeenBatch(s).attempts + 1] \in BatchRow
    BY <1>4, <1>a, <1>b, ConfigAssumption DEF RetryFailedBatch, MayRetry, BatchRow, BatchStatus
  <2>2. CASE MayRetry(SeenBatch(s))
    BY <1>4, <2>2, <1>a, <2>1, WritesTyped DEF RetryFailedBatch, Labels
  <2>3. CASE ~MayRetry(SeenBatch(s))
    BY <1>4, <2>3, EndTyped DEF RetryFailedBatch, dbVars
  <2>. QED BY <2>2, <2>3
<1>5. CASE ReadStartIds(s)
  <2>1. SeenPart(s, 1).start \in Nat
    BY <1>5, <1>a, <1>b, RangeFacts DEF ReadStartIds, PartRow
  <2>. QED BY <1>5, <2>1 DEF ReadStartIds, dbVars, pendVars, Labels
<1>5a. CASE AllocateStartId(s)
  <2>1. FreshOrderId(s) \in Nat
    BY <1>5a, StartTyped DEF IInv, AllocateStartId
  <2>. QED BY <1>5a, <2>1 DEF AllocateStartId, dbVars, pendVars, Labels
<1>6. CASE ReadCompletedParts(s)
  BY <1>6 DEF ReadCompletedParts, dbVars, pendVars, Labels
<1>7. CASE SelectPart(s)
  <2>1. part' \in [Sessions -> 1..(NumParts + 1)]
    <3>1. part[s] \in Parts => part[s] + 1 \in 1..(NumParts + 1)
      BY <1>e
    <3>. QED BY <1>7, <3>1 DEF SelectPart, NextPart
  <2>2. pc' \in [Sessions -> Labels]
    BY <1>7 DEF SelectPart, Labels
  <2>. QED BY <1>7, <2>1, <2>2 DEF SelectPart, dbVars, pendVars
<1>p. pc[s] \in OnPart => StartedPart(s) \in PartRow
  BY <1>c, <1>f DEF StartedPart, PartRow, BatchStatus
<1>8. CASE InsertPart(s)
  BY <1>8, <1>p, <1>a, <1>f, WritesTyped DEF InsertPart, Labels, OnPart
<1>9. CASE ReclaimPart(s)
  BY <1>9, <1>p, <1>a, <1>f, WritesTyped DEF ReclaimPart, Labels, OnPart
<1>10. CASE LoadPart(s)
  <2>1. PartIds(s, part[s]) \in SUBSET Nat
    BY <1>10, <1>c, <1>f DEF LoadPart, OnPart
  <2>2. orders' \in [Batches -> SUBSET Nat] /\ pendOrders' \in [Sessions -> SUBSET Nat]
    BY <1>10, <2>1, <1>a, WritesTyped DEF LoadPart
  <2>. QED BY <1>10, <2>2 DEF LoadPart, Labels
<1>11. CASE CompletePart(s)
  <2>1. CASE SeenPart(s, part[s]).status = "STARTED"
    <3>. DEFINE row == [SeenPart(s, part[s]) EXCEPT !.status = "COMPLETED"]
                writes == [pendPart[s] EXCEPT ![part[s]] = row]
    <3>1. /\ pc[s] = "complete" /\ job[s] \in Batches /\ part[s] \in Parts
          /\ CommitWith(s, writes)
          /\ counted' = [counted EXCEPT ![s][part[s]] = @ + 1]
          /\ pc' = [pc EXCEPT ![s] = "heartbeat"]
          /\ UNCHANGED <<job, start, part>>
      BY <1>11, <2>1, <1>a, <1>f DEF CompletePart, OnPart
    <3>2. row \in PartRow
      BY <3>1, <1>b DEF PartRow, BatchStatus
    <3>3. writes \in [Parts -> PartRow \cup {NoWrite}]
      BY <3>1, <3>2
    <3>4. Merged(writes, parts[job[s]]) \in [Parts -> PartRow]
      BY <3>1, <3>3 DEF Merged, Seen
    <3>. HIDE DEF writes
    <3>5. parts' \in [Batches -> [Parts -> PartRow]]
      BY <3>1, <3>4 DEF CommitWith
    <3>6. counted' \in [Sessions -> [Parts -> Nat]]
      BY <3>1
    <3>7. /\ batches' \in [Batches -> BatchRow]
          /\ orders' \in [Batches -> SUBSET Nat]
          /\ quality' \in [Batches -> SUBSET BOOLEAN]
      BY <3>1, <1>b DEF CommitWith
    <3>. QED BY <3>1, <3>5, <3>6, <3>7, EndTyped DEF CommitWith, Labels
  <2>2. CASE SeenPart(s, part[s]).status # "STARTED"
    BY <1>11, <2>2 DEF CompletePart, dbVars, pendVars, Labels
  <2>. QED BY <2>1, <2>2
<1>12. CASE HeartbeatBatch(s)
  <2>1. part' \in [Sessions -> 1..(NumParts + 1)]
    <3>1. part[s] \in Parts => part[s] + 1 \in 1..(NumParts + 1)
      BY <1>e
    <3>. QED BY <1>12, <3>1, <1>f DEF HeartbeatBatch, NextPart, OnPart
  <2>2. pc' \in [Sessions -> Labels]
    BY <1>12 DEF HeartbeatBatch, Labels
  <2>. QED BY <1>12, <2>1, <2>2 DEF HeartbeatBatch, dbVars, pendVars
<1>13. CASE FailPart(s)
  <2>1. [SeenPart(s, part[s]) EXCEPT !.status = "FAILED"] \in PartRow
    BY <1>13, <1>a, <1>b, <1>f DEF FailPart, PartRow, BatchStatus, OnPart
  <2>. QED BY <1>13, <2>1, <1>a, <1>f, WritesTyped DEF FailPart, Labels, OnPart
<1>14. CASE Reconcile(s)
  BY <1>14 DEF Reconcile, dbVars, pendVars, Labels
<1>15. CASE CheckQuality(s)
  <2>1. QualityPassed(s) \in BOOLEAN
    BY DEF QualityPassed
  <2>. QED BY <1>15, <2>1 DEF CheckQuality, dbVars, Labels
<1>16. CASE CompleteBatch(s)
  <2>1. [SeenBatch(s) EXCEPT !.status = "COMPLETED"] \in BatchRow
    BY <1>16, <1>a, <1>b DEF CompleteBatch, BatchRow, BatchStatus
  <2>. QED BY <1>16, <2>1, <1>a, WritesTyped DEF CompleteBatch, Labels
<1>17. CASE Return(s)
  <2>1. /\ job[s] \in Batches
        /\ Merged(pendPart[s], parts[job[s]]) \in [Parts -> PartRow]
    BY <1>17, <1>a DEF Return, Merged, Seen
  <2>2. parts' \in [Batches -> [Parts -> PartRow]]
    BY <1>17, <2>1 DEF Return, CommitWith
  <2>3. /\ batches' \in [Batches -> BatchRow]
        /\ orders' \in [Batches -> SUBSET Nat]
        /\ quality' \in [Batches -> SUBSET BOOLEAN]
    BY <1>17, <2>1, <1>b DEF Return, CommitWith
  <2>. QED BY <1>17, <2>2, <2>3, EndTyped DEF Return, CommitWith
<1>18. CASE Rollback(s)
  BY <1>18, EndTyped DEF Rollback, dbVars, Labels
<1>19. CASE FailBatch(s)
  <2>1. [SeenBatch(s) EXCEPT !.status = "FAILED"] \in BatchRow
    BY <1>19, <1>a, <1>b DEF FailBatch, BatchRow, BatchStatus
  <2>2. batches' \in [Batches -> BatchRow] /\ pendBatch' \in [Sessions -> BatchRow \cup {NoWrite}]
    BY <1>19, <2>1, <1>a, WritesTyped DEF FailBatch
  <2>. QED BY <1>19, <2>2, EndTyped DEF FailBatch
<1>20. CASE Fault(s)
  BY <1>20 DEF Fault, dbVars, pendVars, Labels
<1>21. CASE Crash(s)
  BY <1>21, EndTyped DEF Crash, dbVars
<1>. QED BY <1>1, <1>2, <1>3, <1>4, <1>5, <1>5a, <1>6, <1>7, <1>8, <1>9, <1>10, <1>11,
            <1>12, <1>13, <1>14, <1>15, <1>16, <1>17, <1>18, <1>19, <1>20, <1>21
         DEF SessionNext, Step

-----------------------------------------------------------------------------
(* The connection and the control state.                                   *)

LEMMA SessionStep ==
    ASSUME IInv, NEW s \in Sessions, SessionNext(s)
    PROVE  SessionInv(s)'
<1>a. TypeOK /\ SessionInv(s)
  BY DEF IInv
<1>b. \A k \in Parts : k \in Nat /\ k + 1 # 1
  BY RangeFacts, PartsFacts DEF Parts
<1>. USE DEF TypeOK, SessionInv, Goto, OpenTransaction, BeforeLoad, OnPart
<1>1. ASSUME NEW b \in Batches, NEW inTx \in CallerInTx, Call(s, b, inTx)
      PROVE  SessionInv(s)'
  BY <1>1, <1>a, <1>b DEF Call, pendVars
<1>2. CASE StartBatch(s)
  BY <1>2, <1>a, <1>b DEF StartBatch, WriteBatch
<1>3. CASE InspectBatch(s)
  BY <1>3, <1>a, <1>b DEF InspectBatch, EndTransaction, Leave, pendVars
<1>4. CASE RetryFailedBatch(s)
  BY <1>4, <1>a, <1>b DEF RetryFailedBatch, WriteBatch, EndTransaction, Leave
<1>5. CASE ReadStartIds(s)
  BY <1>5, <1>a, <1>b DEF ReadStartIds, pendVars
<1>5a. CASE AllocateStartId(s)
  BY <1>5a, <1>a, <1>b DEF AllocateStartId, pendVars
<1>6. CASE ReadCompletedParts(s)
  BY <1>6, <1>a, <1>b DEF ReadCompletedParts, pendVars
<1>7. CASE SelectPart(s)
  BY <1>7, <1>a, <1>b DEF SelectPart, NextPart, pendVars
<1>8. CASE InsertPart(s)
  BY <1>8, <1>a, <1>b DEF InsertPart, WritePart
<1>9. CASE ReclaimPart(s)
  BY <1>9, <1>a, <1>b DEF ReclaimPart, WritePart
<1>10. CASE LoadPart(s)
  BY <1>10, <1>a, <1>b DEF LoadPart, WriteOrders
<1>11. CASE CompletePart(s)
  BY <1>11, <1>a, <1>b DEF CompletePart, CommitWith, EndTransaction, pendVars
<1>12. CASE HeartbeatBatch(s)
  BY <1>12, <1>a, <1>b DEF HeartbeatBatch, NextPart, pendVars
<1>13. CASE FailPart(s)
  BY <1>13, <1>a, <1>b DEF FailPart, WritePart
<1>14. CASE Reconcile(s)
  BY <1>14, <1>a, <1>b DEF Reconcile, pendVars
<1>15. CASE CheckQuality(s)
  BY <1>15, <1>a, <1>b DEF CheckQuality
<1>16. CASE CompleteBatch(s)
  BY <1>16, <1>a, <1>b DEF CompleteBatch, WriteBatch
<1>17. CASE Return(s)
  BY <1>17, <1>a, <1>b DEF Return, CommitWith, EndTransaction, Leave
<1>18. CASE Rollback(s)
  BY <1>18, <1>a, <1>b DEF Rollback, EndTransaction
<1>19. CASE FailBatch(s)
  BY <1>19, <1>a, <1>b DEF FailBatch, WriteBatch, Leave
<1>20. CASE Fault(s)
  BY <1>20, <1>a, <1>b DEF Fault, pendVars
<1>21. CASE Crash(s)
  BY <1>21, <1>a, <1>b DEF Crash, EndTransaction, Leave
<1>. QED BY <1>1, <1>2, <1>3, <1>4, <1>5, <1>5a, <1>6, <1>7, <1>8, <1>9, <1>10, <1>11,
            <1>12, <1>13, <1>14, <1>15, <1>16, <1>17, <1>18, <1>19, <1>20, <1>21
         DEF SessionNext, Step

-----------------------------------------------------------------------------
(* What one step does to the committed tables.                             *)

\* A step leaves a part's row alone, or it is the session's own part: started
\* or failed outside a transaction, or completed.
RowChange(s, b, k) ==
    \/ parts'[b][k] = parts[b][k]
    \/ /\ b = job[s] /\ k = part[s]
       /\ pc[s] \in {"insert", "reclaim"} /\ ~open[s]
       /\ parts'[b][k] = StartedPart(s)
    \/ /\ b = job[s] /\ k = part[s]
       /\ pc[s] = "failPart" /\ ~open[s]
       /\ parts'[b][k] = [parts[b][k] EXCEPT !.status = "FAILED"]
    \/ /\ b = job[s] /\ k = part[s]
       /\ pc[s] = "complete" /\ pc'[s] = "heartbeat"
       /\ parts'[b][k] = [SeenPart(s, k) EXCEPT !.status = "COMPLETED"]

LEMMA RowsStep ==
    ASSUME IInv, NEW s \in Sessions, SessionNext(s), NEW b \in Batches, NEW k \in Parts
    PROVE  RowChange(s, b, k)
<1>a. TypeOK /\ SessionInv(s) /\ PartInv(s)
  BY DEF IInv
<1>b. parts' = parts => RowChange(s, b, k)
  BY DEF RowChange
<1>w. ASSUME NEW row, WritePart(s, part[s], row), pc[s] # "out", part[s] \in Parts
      PROVE  \/ parts'[b][k] = parts[b][k]
             \/ b = job[s] /\ k = part[s] /\ ~open[s] /\ parts'[b][k] = row
  BY <1>a, <1>w DEF WritePart, SessionInv, TypeOK
<1>1. ASSUME NEW c \in Batches, NEW inTx \in CallerInTx, Call(s, c, inTx)
      PROVE  RowChange(s, b, k)
  BY <1>1, <1>b DEF Call, dbVars
<1>2. CASE StartBatch(s)
  BY <1>2, <1>b DEF StartBatch
<1>3. CASE InspectBatch(s)
  BY <1>3, <1>b DEF InspectBatch, dbVars
<1>4. CASE RetryFailedBatch(s)
  BY <1>4, <1>b DEF RetryFailedBatch, dbVars
<1>5. CASE ReadStartIds(s)
  BY <1>5, <1>b DEF ReadStartIds, dbVars
<1>5a. CASE AllocateStartId(s)
  BY <1>5a, <1>b DEF AllocateStartId, dbVars
<1>6. CASE ReadCompletedParts(s)
  BY <1>6, <1>b DEF ReadCompletedParts, dbVars
<1>7. CASE SelectPart(s)
  BY <1>7, <1>b DEF SelectPart, dbVars
<1>8. CASE InsertPart(s)
  <2>1. part[s] \in Parts
    BY <1>8, <1>a DEF InsertPart, SessionInv, OnPart
  <2>. QED BY <1>8, <1>w, <1>b, <2>1 DEF InsertPart, RowChange
<1>9. CASE ReclaimPart(s)
  <2>1. part[s] \in Parts
    BY <1>9, <1>a DEF ReclaimPart, SessionInv, OnPart
  <2>. QED BY <1>9, <1>w, <2>1 DEF ReclaimPart, RowChange
<1>10. CASE LoadPart(s)
  BY <1>10, <1>b DEF LoadPart
<1>11. CASE CompletePart(s)
  <2>1. part[s] \in Parts /\ job[s] \in Batches /\ pc[s] = "complete"
    BY <1>11, <1>a DEF CompletePart, SessionInv, OnPart
  <2>2. CASE SeenPart(s, part[s]).status = "STARTED"
    <3>. DEFINE row == [SeenPart(s, part[s]) EXCEPT !.status = "COMPLETED"]
                writes == [pendPart[s] EXCEPT ![part[s]] = row]
    <3>1. row \in PartRow
      BY <1>a, <2>1, SeenTyped DEF PartRow, BatchStatus
    <3>2. row # NoWrite
      BY <3>1, NoWriteAssumption
    <3>3. /\ parts' = [parts EXCEPT ![job[s]] = Merged(writes, @)]
          /\ pc'[s] = "heartbeat"
      BY <1>11, <2>2, <1>a DEF CompletePart, CommitWith, Goto, TypeOK
    <3>4. DOMAIN parts[job[s]] = Parts
      BY <1>a, <2>1 DEF TypeOK
    <3>5. Merged(writes, parts[job[s]])[k] = IF k = part[s] THEN row ELSE parts[job[s]][k]
      <4>1. CASE k = part[s]
        <5>1. writes[k] = row
          BY <4>1, <1>a, <2>1 DEF TypeOK
        <5>. QED BY <4>1, <5>1, <3>2, <3>4 DEF Merged, Seen
      <4>2. CASE k # part[s]
        <5>1. writes[k] = pendPart[s][k] /\ pendPart[s][k] = NoWrite
          BY <4>2, <1>a, <2>1 DEF TypeOK, PartInv
        <5>. QED BY <4>2, <5>1, <3>4 DEF Merged, Seen
      <4>. QED BY <4>1, <4>2
    <3>. HIDE DEF writes, row
    <3>6. parts'[b][k] = IF b = job[s] /\ k = part[s] THEN row ELSE parts[b][k]
      BY <3>3, <3>5, <1>a, <2>1 DEF TypeOK
    <3>. QED BY <3>6, <3>3, <2>1 DEF RowChange, row
  <2>3. CASE SeenPart(s, part[s]).status # "STARTED"
    BY <1>11, <2>3, <1>b DEF CompletePart, dbVars
  <2>. QED BY <2>2, <2>3
<1>12. CASE HeartbeatBatch(s)
  BY <1>12, <1>b DEF HeartbeatBatch, dbVars
<1>13. CASE FailPart(s)
  <2>1. part[s] \in Parts /\ job[s] \in Batches
    BY <1>13, <1>a DEF FailPart, SessionInv, OnPart
  <2>2. ~open[s] => SeenPart(s, part[s]) = parts[job[s]][part[s]]
    BY <1>a, <2>1 DEF SessionInv, SeenPart, Seen, NoPartWrites
  <2>. QED BY <1>13, <1>w, <2>1, <2>2 DEF FailPart, RowChange
<1>14. CASE Reconcile(s)
  BY <1>14, <1>b DEF Reconcile, dbVars
<1>15. CASE CheckQuality(s)
  BY <1>15, <1>b DEF CheckQuality, dbVars
<1>16. CASE CompleteBatch(s)
  BY <1>16, <1>b DEF CompleteBatch
<1>17. CASE Return(s)
  <2>1. \A j \in Parts : pendPart[s][j] = NoWrite
    BY <1>17, <1>a DEF Return, PartInv, HoldsParts
  <2>2. job[s] \in Batches /\ DOMAIN parts[job[s]] = Parts
    BY <1>17, <1>a DEF Return, SessionInv, TypeOK
  <2>3. Merged(pendPart[s], parts[job[s]])[k] = parts[job[s]][k]
    BY <2>1, <2>2 DEF Merged, Seen
  <2>. QED BY <1>17, <2>2, <2>3, <1>a DEF Return, CommitWith, RowChange, TypeOK
<1>18. CASE Rollback(s)
  BY <1>18, <1>b DEF Rollback, dbVars
<1>19. CASE FailBatch(s)
  BY <1>19, <1>b DEF FailBatch
<1>20. CASE Fault(s)
  BY <1>20, <1>b DEF Fault, dbVars
<1>21. CASE Crash(s)
  BY <1>21, <1>b DEF Crash, dbVars
<1>. QED BY <1>1, <1>2, <1>3, <1>4, <1>5, <1>5a, <1>6, <1>7, <1>8, <1>9, <1>10, <1>11,
            <1>12, <1>13, <1>14, <1>15, <1>16, <1>17, <1>18, <1>19, <1>20, <1>21
         DEF SessionNext, Step

\* A step that commits orders commits the ids of the session's part, all of
\* them new.
Extends(s) ==
    /\ pc[s] \in {"load", "complete"}
    /\ part[s] \in Parts /\ job[s] \in Batches
    /\ PartIds(s, part[s]) \cap CommittedOrders = {}
    /\ \A t \in Sessions \ {s} : pendOrders[t] \cap PartIds(s, part[s]) = {}
    /\ orders' = [orders EXCEPT ![job[s]] = @ \cup PartIds(s, part[s])]
    /\ pc[s] = "load" => ~open[s]
    /\ pc[s] = "complete" => pc'[s] = "heartbeat" /\ pendOrders[s] = PartIds(s, part[s])

LEMMA OrdersStep ==
    ASSUME IInv, NEW s \in Sessions, SessionNext(s)
    PROVE  orders' = orders \/ Extends(s)
<1>a. TypeOK /\ SessionInv(s) /\ PendingInv(s)
  BY DEF IInv
<1>1. ASSUME NEW b \in Batches, NEW inTx \in CallerInTx, Call(s, b, inTx)
      PROVE  orders' = orders
  BY <1>1 DEF Call, dbVars
<1>2. CASE StartBatch(s)
  BY <1>2 DEF StartBatch
<1>3. CASE InspectBatch(s)
  BY <1>3 DEF InspectBatch, dbVars
<1>4. CASE RetryFailedBatch(s)
  BY <1>4 DEF RetryFailedBatch, dbVars
<1>5. CASE ReadStartIds(s)
  BY <1>5 DEF ReadStartIds, dbVars
<1>5a. CASE AllocateStartId(s)
  BY <1>5a DEF AllocateStartId, dbVars
<1>6. CASE ReadCompletedParts(s)
  BY <1>6 DEF ReadCompletedParts, dbVars
<1>7. CASE SelectPart(s)
  BY <1>7 DEF SelectPart, dbVars
<1>8. CASE InsertPart(s)
  BY <1>8 DEF InsertPart
<1>9. CASE ReclaimPart(s)
  BY <1>9 DEF ReclaimPart
<1>10. CASE LoadPart(s)
  <2>1. part[s] \in Parts /\ job[s] \in Batches /\ pc[s] = "load"
    BY <1>10, <1>a DEF LoadPart, SessionInv, OnPart
  <2>2. CASE orders' = orders
    BY <2>2
  <2>3. CASE orders' # orders
    <3>1. /\ PartIds(s, part[s]) \cap (SeenOrders(s) \cup PendingOrders(s)) = {}
          /\ WriteOrders(s, PartIds(s, part[s]))
      BY <1>10, <2>3 DEF LoadPart
    <3>2. ~open[s] /\ orders' = [orders EXCEPT ![job[s]] = @ \cup PartIds(s, part[s])]
      BY <3>1, <2>3 DEF WriteOrders
    <3>. QED BY <2>1, <3>1, <3>2 DEF Extends, SeenOrders, PendingOrders
  <2>. QED BY <2>2, <2>3
<1>11. CASE CompletePart(s)
  <2>1. part[s] \in Parts /\ job[s] \in Batches /\ pc[s] = "complete"
    BY <1>11, <1>a DEF CompletePart, SessionInv, OnPart
  <2>2. CASE SeenPart(s, part[s]).status = "STARTED"
    <3>1. /\ orders' = [orders EXCEPT ![job[s]] = @ \cup pendOrders[s]]
          /\ pc'[s] = "heartbeat"
      BY <1>11, <2>2, <1>a DEF CompletePart, CommitWith, Goto, TypeOK
    <3>2. CASE pendOrders[s] = {}
      BY <3>1, <3>2, <1>a, <2>1 DEF TypeOK
    <3>3. CASE pendOrders[s] # {}
      BY <3>1, <3>3, <1>a, <2>1 DEF Extends, PendingInv
    <3>. QED BY <3>2, <3>3
  <2>3. CASE SeenPart(s, part[s]).status # "STARTED"
    BY <1>11, <2>3 DEF CompletePart, dbVars
  <2>. QED BY <2>2, <2>3
<1>12. CASE HeartbeatBatch(s)
  BY <1>12 DEF HeartbeatBatch, dbVars
<1>13. CASE FailPart(s)
  BY <1>13 DEF FailPart
<1>14. CASE Reconcile(s)
  BY <1>14 DEF Reconcile, dbVars
<1>15. CASE CheckQuality(s)
  BY <1>15 DEF CheckQuality, dbVars
<1>16. CASE CompleteBatch(s)
  BY <1>16 DEF CompleteBatch
<1>17. CASE Return(s)
  <2>1. pendOrders[s] = {} /\ job[s] \in Batches
    BY <1>17, <1>a DEF Return, PendingInv, HoldsOrders, SessionInv
  <2>. QED BY <1>17, <2>1, <1>a DEF Return, CommitWith, TypeOK
<1>18. CASE Rollback(s)
  BY <1>18 DEF Rollback, dbVars
<1>19. CASE FailBatch(s)
  BY <1>19 DEF FailBatch
<1>20. CASE Fault(s)
  BY <1>20 DEF Fault, dbVars
<1>21. CASE Crash(s)
  BY <1>21 DEF Crash, dbVars
<1>. QED BY <1>1, <1>2, <1>3, <1>4, <1>5, <1>5a, <1>6, <1>7, <1>8, <1>9, <1>10, <1>11,
            <1>12, <1>13, <1>14, <1>15, <1>16, <1>17, <1>18, <1>19, <1>20, <1>21
         DEF SessionNext, Step

\* Whoever can load extends 1..n: a start_order_id that is not n + 1 minus the
\* part's offset collides.
LEMMA Extension ==
    ASSUME IInv, NEW s \in Sessions, pc[s] \in {"load", "complete"},
           part[s] \in Parts, job[s] \in Batches,
           PartIds(s, part[s]) \cap CommittedOrders = {}
    PROVE  \E n \in Nat :
              /\ CommittedOrders = 1..n
              /\ start[s] + Offset(part[s]) = n + 1
              /\ PartIds(s, part[s]) = (n + 1)..(n + Size(part[s]))
              /\ part[s] = 1 => orders[job[s]] = {}
              /\ part[s] # 1 => start[s] \in orders[job[s]]
<1>. DEFINE k == part[s]
            first == start[s] + Offset(k)
<1>1. /\ TypeOK /\ StartInv(s) /\ PrecedingInv(s)
      /\ k \in Parts /\ job[s] \in Batches /\ pc[s] \in {"load", "complete"}
      /\ PartIds(s, k) \cap CommittedOrders = {}
  BY DEF IInv
<1>2. PICK n \in Nat : CommittedOrders = 1..n
  BY DEF IInv, Contiguous
<1>3. /\ start[s] \in Nat \ {0} /\ Reached(start[s] - 1)
      /\ \A i \in orders[job[s]] : start[s] <= i
  BY <1>1 DEF TypeOK, StartInv, Planned
<1>4. Offset(k) \in Nat /\ Size(k) \in Nat \ {0} /\ Offset(1) = 0
  BY <1>1, RangeFacts
<1>5. first \in Nat \ {0} /\ PartIds(s, k) = first .. (first + Size(k) - 1) /\ first \in PartIds(s, k)
  BY <1>3, <1>4 DEF PartIds
<1>6. first > n
  BY <1>1, <1>2, <1>5
<1>7. orders[job[s]] \subseteq 1..n
  BY <1>1, <1>2 DEF CommittedOrders
<1>8. CASE k = 1
  <2>1. start[s] - 1 <= n
    BY <1>2, <1>3 DEF Reached
  <2>2. first = n + 1
    BY <2>1, <1>3, <1>4, <1>6, <1>8
  <2>3. orders[job[s]] = {}
    BY <2>2, <1>3, <1>4, <1>7, <1>8
  <2>. QED BY <1>2, <1>4, <1>5, <2>2, <2>3, <1>8
<1>9. CASE k # 1
  <2>1. PICK e \in orders[job[s]] : e + Offset(k) - 1 \in CommittedOrders
    BY <1>1, <1>9 DEF PrecedingInv, BeforeLoad
  <2>2. e \in Nat /\ e + Offset(k) - 1 <= n /\ start[s] <= e
    BY <2>1, <1>2, <1>3, <1>7
  <2>3. first = n + 1 /\ start[s] = e
    BY <2>2, <1>3, <1>4, <1>6
  <2>. QED BY <1>2, <1>4, <1>5, <2>1, <2>3, <1>9
<1>. QED BY <1>8, <1>9

\* Orders are only added, and every new id is larger than every committed one.
LEMMA OrdersGrow ==
    ASSUME IInv, NEW s \in Sessions, SessionNext(s)
    PROVE  /\ Contiguous'
           /\ CommittedOrders \subseteq CommittedOrders'
           /\ \A i : Reached(i) => Reached(i)'
           /\ \A b \in Batches : orders[b] \subseteq orders'[b]
           /\ \A b \in Batches : \A i \in orders'[b] \ orders[b] :
                 i \in Nat /\ \A j : Reached(j) => j < i
           /\ \A i \in CommittedOrders' \ CommittedOrders : \A j \in CommittedOrders : j < i
<1>a. TypeOK /\ Contiguous
  BY DEF IInv
<1>1. CASE orders' = orders
  <2>1. CommittedOrders' = CommittedOrders
    BY <1>1 DEF CommittedOrders
  <2>. QED BY <1>1, <2>1, <1>a DEF Contiguous, Reached
<1>2. CASE Extends(s)
  <2>1. PICK n \in Nat :
           /\ CommittedOrders = 1..n
           /\ PartIds(s, part[s]) = (n + 1)..(n + Size(part[s]))
    BY <1>2, Extension DEF Extends
  <2>. DEFINE new == PartIds(s, part[s])
  <2>2. Size(part[s]) \in Nat \ {0} /\ job[s] \in Batches
    BY <1>2, RangeFacts DEF Extends
  <2>3. orders' = [orders EXCEPT ![job[s]] = @ \cup new]
    BY <1>2 DEF Extends
  <2>4. CommittedOrders' = CommittedOrders \cup new
    BY <2>2, <2>3, <1>a DEF CommittedOrders, TypeOK
  <2>5. CommittedOrders' = 1..(n + Size(part[s]))
    BY <2>1, <2>2, <2>4
  <2>6. Contiguous'
    BY <2>2, <2>5 DEF Contiguous
  <2>7. \A i : Reached(i) => Reached(i)'
    BY <2>4 DEF Reached
  <2>8. \A i \in new : i \in Nat /\ \A j : Reached(j) => j < i
    BY <2>1, <2>2 DEF Reached
  <2>9. \A b \in Batches : orders[b] \subseteq orders'[b] /\ orders'[b] \ orders[b] \subseteq new
    BY <2>2, <2>3, <1>a DEF TypeOK
  <2>10. \A i \in CommittedOrders' \ CommittedOrders : \A j \in CommittedOrders : j < i
    BY <2>4, <2>8 DEF Reached
  <2>. HIDE DEF new
  <2>. QED BY <2>4, <2>6, <2>7, <2>8, <2>9, <2>10
<1>. QED BY <1>1, <1>2, OrdersStep

-----------------------------------------------------------------------------
(* The part being worked on.                                               *)

\* A registered part stays registered.
LEMMA RegisteredStays ==
    ASSUME IInv, NEW s \in Sessions, SessionNext(s), NEW b \in Batches, NEW k \in Parts,
           parts[b][k].status # "ABSENT"
    PROVE  parts'[b][k].status # "ABSENT"
<1>1. TypeOK /\ parts[b][k] \in PartRow
  BY DEF IInv, TypeOK
<1>2. pc[s] = "complete" => job[s] \in Batches /\ part[s] \in Parts
  BY DEF IInv, SessionInv, OnPart
<1>3. pc[s] = "complete" => SeenPart(s, part[s]) \in PartRow
  BY <1>1, <1>2, SeenTyped
<1>4. RowChange(s, b, k)
  BY RowsStep
<1>5. CASE parts'[b][k] = parts[b][k]
  BY <1>5
<1>6. CASE pc[s] = "complete" /\ k = part[s]
           /\ parts'[b][k] = [SeenPart(s, k) EXCEPT !.status = "COMPLETED"]
  BY <1>3, <1>6 DEF PartRow
<1>7. CASE parts'[b][k] = [parts[b][k] EXCEPT !.status = "FAILED"]
  BY <1>1, <1>7 DEF PartRow
<1>8. CASE parts'[b][k] = StartedPart(s)
  BY <1>8 DEF StartedPart
<1>. QED BY <1>4, <1>5, <1>6, <1>7, <1>8 DEF RowChange

\* The row of the part a session works on, before and after its own step.
LEMMA PartStep ==
    ASSUME IInv, NEW s \in Sessions, SessionNext(s)
    PROVE  PartInv(s)'
<1>a. TypeOK /\ TypeOK' /\ SessionInv(s) /\ SessionInv(s)' /\ PartInv(s)
  BY TypeStep, SessionStep DEF IInv
<1>b. \A k \in Parts : pendPart[s][k] # NoWrite => k = part[s] /\ pc[s] \in HoldsParts
  BY <1>a DEF PartInv
<1>c. \A b \in Batches, k \in Parts :
         parts[b][k].status # "ABSENT" => parts'[b][k].status # "ABSENT"
  BY RegisteredStays
<1>d. pc[s] # "out" => job[s] \in Batches
  BY <1>a DEF SessionInv
<1>e. pc[s] \in OnPart => part[s] \in Parts
  BY <1>a DEF SessionInv
\* A session that keeps its place and its pending writes keeps PartInv.
<1>f. ASSUME pc[s] # "out", pendPart'[s] = pendPart[s], part'[s] = part[s], job'[s] = job[s],
             pc[s] \in {"load", "complete", "heartbeat", "failPart"}, part[s] \in Parts
      PROVE  SeenPart(s, part[s])'.status # "ABSENT"
  BY <1>a, <1>c, <1>d, <1>f DEF PartInv, SeenPart, Seen
\* Nothing pending and none of the labels that name a registered part.
<1>g. ASSUME \A k \in Parts : pendPart'[s][k] = NoWrite,
             pc'[s] \notin {"load", "complete", "heartbeat", "failPart"}
      PROVE  PartInv(s)'
  BY <1>g DEF PartInv
\* A write to the part.
<1>w. ASSUME NEW row \in PartRow, row.status # "ABSENT", WritePart(s, part[s], row),
             part[s] \in Parts, pc[s] # "out",
             part'[s] = part[s], job'[s] = job[s], pc'[s] \in {"load", "rollback"}
      PROVE  PartInv(s)'
  <2>1. CASE open[s]
    <3>1. /\ pendPart' = [pendPart EXCEPT ![s][part[s]] = row]
          /\ parts' = parts
      BY <1>w, <2>1 DEF WritePart
    <3>2. \A k \in Parts : pendPart'[s][k] = IF k = part[s] THEN row ELSE pendPart[s][k]
      BY <1>a, <3>1 DEF TypeOK
    <3>3. row # NoWrite
      BY <1>w, NoWriteAssumption
    <3>. QED BY <1>w, <1>b, <3>2, <3>3 DEF PartInv, HoldsParts, SeenPart, Seen
  <2>2. CASE ~open[s]
    <3>1. /\ parts' = [parts EXCEPT ![job[s]][part[s]] = row]
          /\ pendPart' = pendPart
      BY <1>w, <2>2 DEF WritePart
    <3>2. \A k \in Parts : pendPart[s][k] = NoWrite
      BY <1>a, <2>2 DEF SessionInv, NoPartWrites
    <3>3. parts'[job[s]][part[s]] = row
      BY <1>a, <1>d, <1>w, <3>1 DEF TypeOK
    <3>. QED BY <1>w, <3>1, <3>2, <3>3 DEF PartInv, SeenPart, Seen
  <2>. QED BY <2>1, <2>2
<1>1. ASSUME NEW b \in Batches, NEW inTx \in CallerInTx, Call(s, b, inTx)
      PROVE  PartInv(s)'
  BY <1>1, <1>a, <1>b, <1>g DEF Call, pendVars, Goto, TypeOK, HoldsParts
<1>2. CASE StartBatch(s)
  <2>1. \A k \in Parts : pendPart'[s][k] = NoWrite
    BY <1>2, <1>a, <1>b DEF StartBatch, HoldsParts
  <2>2. pc'[s] \notin {"load", "complete", "heartbeat", "failPart"}
    BY <1>2, <1>a DEF StartBatch, Goto, TypeOK
  <2>. QED BY <1>g, <2>1, <2>2
<1>3. CASE InspectBatch(s)
  <2>1. \A k \in Parts : pendPart'[s][k] = NoWrite
    BY <1>3, <1>a, <1>b DEF InspectBatch, HoldsParts, EndTransaction, NoPartWrites, pendVars, TypeOK
  <2>2. pc'[s] \notin {"load", "complete", "heartbeat", "failPart"}
    BY <1>3, <1>a DEF InspectBatch, Goto, TypeOK, Leave
  <2>. QED BY <1>g, <2>1, <2>2
<1>4. CASE RetryFailedBatch(s)
  <2>1. \A k \in Parts : pendPart'[s][k] = NoWrite
    BY <1>4, <1>a, <1>b DEF RetryFailedBatch, HoldsParts, EndTransaction, NoPartWrites, TypeOK
  <2>2. pc'[s] \notin {"load", "complete", "heartbeat", "failPart"}
    BY <1>4, <1>a DEF RetryFailedBatch, Goto, TypeOK, Leave
  <2>. QED BY <1>g, <2>1, <2>2
<1>5. CASE ReadStartIds(s)
  <2>1. \A k \in Parts : pendPart'[s][k] = NoWrite
    BY <1>5, <1>a, <1>b DEF ReadStartIds, HoldsParts, pendVars
  <2>2. pc'[s] \notin {"load", "complete", "heartbeat", "failPart"}
    BY <1>5, <1>a DEF ReadStartIds, Goto, TypeOK
  <2>. QED BY <1>g, <2>1, <2>2
<1>5a. CASE AllocateStartId(s)
  <2>1. \A k \in Parts : pendPart'[s][k] = NoWrite
    BY <1>5a, <1>a, <1>b DEF AllocateStartId, HoldsParts, pendVars
  <2>2. pc'[s] \notin {"load", "complete", "heartbeat", "failPart"}
    BY <1>5a, <1>a DEF AllocateStartId, Goto, TypeOK
  <2>. QED BY <1>g, <2>1, <2>2
<1>6. CASE ReadCompletedParts(s)
  <2>1. \A k \in Parts : pendPart'[s][k] = NoWrite
    BY <1>6, <1>a, <1>b DEF ReadCompletedParts, HoldsParts, pendVars
  <2>2. pc'[s] \notin {"load", "complete", "heartbeat", "failPart"}
    BY <1>6, <1>a DEF ReadCompletedParts, Goto, TypeOK
  <2>. QED BY <1>g, <2>1, <2>2
<1>7. CASE SelectPart(s)
  <2>1. \A k \in Parts : pendPart'[s][k] = NoWrite
    BY <1>7, <1>a, <1>b DEF SelectPart, HoldsParts, pendVars
  <2>2. pc'[s] \notin {"load", "complete", "heartbeat", "failPart"}
    BY <1>7, <1>a DEF SelectPart, Goto, TypeOK
  <2>. QED BY <1>g, <2>1, <2>2
<1>8. CASE InsertPart(s)
  <2>1. StartedPart(s) \in PartRow /\ StartedPart(s).status # "ABSENT"
    BY <1>8, <1>a, <1>e, RangeFacts DEF InsertPart, OnPart, StartedPart, PartRow, BatchStatus, TypeOK
  <2>2. CASE SeenPart(s, part[s]).status = "ABSENT"
    BY <1>8, <2>1, <2>2, <1>a, <1>e, <1>w DEF InsertPart, OnPart, Goto, TypeOK
  <2>3. CASE SeenPart(s, part[s]).status # "ABSENT"
    <3>1. pendPart' = pendPart /\ pc[s] = "insert" /\ pc'[s] = "rollback"
      BY <1>8, <2>3, <1>a DEF InsertPart, Goto, TypeOK
    <3>. QED BY <3>1, <1>b, <1>g DEF HoldsParts
  <2>. QED BY <2>2, <2>3
<1>9. CASE ReclaimPart(s)
  <2>1. StartedPart(s) \in PartRow /\ StartedPart(s).status # "ABSENT"
    BY <1>9, <1>a, <1>e, RangeFacts DEF ReclaimPart, OnPart, StartedPart, PartRow, BatchStatus, TypeOK
  <2>. QED BY <1>9, <2>1, <1>a, <1>e, <1>w DEF ReclaimPart, OnPart, Goto, TypeOK
<1>10. CASE LoadPart(s)
  <2>1. /\ pc[s] = "load" /\ pc'[s] \in {"complete", "failPart"}
        /\ UNCHANGED <<pendPart, part, job>>
    BY <1>10, <1>a DEF LoadPart, Goto, TypeOK
  <2>2. part[s] \in Parts
    BY <2>1, <1>e DEF OnPart
  <2>. QED BY <2>1, <2>2, <1>a, <1>f DEF PartInv, HoldsParts
<1>11. CASE CompletePart(s)
  <2>1. pc[s] = "complete" /\ part[s] \in Parts /\ job[s] \in Batches
    BY <1>11, <1>d, <1>e DEF CompletePart, OnPart
  <2>2. CASE SeenPart(s, part[s]).status = "STARTED"
    <3>1. /\ pc'[s] = "heartbeat" /\ UNCHANGED <<part, job>>
          /\ CommitWith(s, [pendPart[s] EXCEPT ![part[s]] =
                              [SeenPart(s, part[s]) EXCEPT !.status = "COMPLETED"]])
      BY <1>11, <2>2, <1>a DEF CompletePart, Goto, TypeOK
    <3>2. pendPart'[s] = NoPartWrites
      BY <3>1, <1>a DEF CommitWith, EndTransaction, TypeOK
    <3>3. parts'[job[s]][part[s]].status # "ABSENT"
      <4>. DEFINE row == [SeenPart(s, part[s]) EXCEPT !.status = "COMPLETED"]
                  writes == [pendPart[s] EXCEPT ![part[s]] = row]
      <4>1. SeenPart(s, part[s]) \in PartRow
        BY <2>1, <1>a, SeenTyped
      <4>2. row \in PartRow /\ row.status # "ABSENT" /\ row # NoWrite
        BY <4>1, NoWriteAssumption DEF PartRow, BatchStatus
      <4>3. parts'[job[s]] = Merged(writes, parts[job[s]])
        BY <3>1, <2>1, <1>a DEF CommitWith, TypeOK
      <4>4. writes[part[s]] = row /\ DOMAIN parts[job[s]] = Parts
        BY <2>1, <1>a DEF TypeOK
      <4>. HIDE DEF row, writes
      <4>. QED BY <2>1, <4>2, <4>3, <4>4 DEF Merged, Seen
    <3>. QED BY <2>1, <3>1, <3>2, <3>3 DEF PartInv, NoPartWrites, SeenPart, Seen
  <2>3. CASE SeenPart(s, part[s]).status # "STARTED"
    <3>1. /\ pc'[s] = "failPart" /\ UNCHANGED <<pendPart, part, job>>
      BY <1>11, <2>3, <1>a DEF CompletePart, pendVars, Goto, TypeOK
    <3>. QED BY <2>1, <3>1, <1>a, <1>f DEF PartInv, HoldsParts
  <2>. QED BY <2>2, <2>3
<1>12. CASE HeartbeatBatch(s)
  <2>1. pc[s] = "heartbeat" /\ UNCHANGED <<pendPart, job>>
    BY <1>12 DEF HeartbeatBatch, pendVars
  <2>2. \A k \in Parts : pendPart'[s][k] = NoWrite
    BY <2>1, <1>b DEF HoldsParts
  <2>3. CASE pc'[s] = "part"
    BY <2>2, <2>3, <1>g
  <2>4. CASE pc'[s] # "part"
    <3>1. pc'[s] = "failPart" /\ part' = part
      BY <1>12, <2>4, <1>a DEF HeartbeatBatch, Goto, TypeOK
    <3>. QED BY <2>1, <2>2, <3>1, <1>e, <1>f DEF PartInv, OnPart
  <2>. QED BY <2>3, <2>4
<1>13. CASE FailPart(s)
  <2>1. /\ pc[s] = "failPart" /\ part[s] \in Parts /\ job[s] \in Batches
        /\ pc'[s] = "rollback" /\ UNCHANGED <<part, job>>
    BY <1>13, <1>a, <1>d, <1>e DEF FailPart, OnPart, Goto, TypeOK
  <2>2. SeenPart(s, part[s]) \in PartRow
    BY <2>1, <1>a, SeenTyped
  <2>3. [SeenPart(s, part[s]) EXCEPT !.status = "FAILED"] \in PartRow
    BY <2>2 DEF PartRow, BatchStatus
  <2>. QED BY <1>13, <2>1, <2>2, <2>3, <1>w DEF FailPart, PartRow
<1>14. CASE Reconcile(s)
  <2>1. \A k \in Parts : pendPart'[s][k] = NoWrite
    BY <1>14, <1>a, <1>b DEF Reconcile, HoldsParts, pendVars
  <2>2. pc'[s] \notin {"load", "complete", "heartbeat", "failPart"}
    BY <1>14, <1>a DEF Reconcile, Goto, TypeOK
  <2>. QED BY <1>g, <2>1, <2>2
<1>15. CASE CheckQuality(s)
  <2>1. \A k \in Parts : pendPart'[s][k] = NoWrite
    BY <1>15, <1>a, <1>b DEF CheckQuality, HoldsParts
  <2>2. pc'[s] \notin {"load", "complete", "heartbeat", "failPart"}
    BY <1>15, <1>a DEF CheckQuality, Goto, TypeOK
  <2>. QED BY <1>g, <2>1, <2>2
<1>16. CASE CompleteBatch(s)
  <2>1. \A k \in Parts : pendPart'[s][k] = NoWrite
    BY <1>16, <1>a, <1>b DEF CompleteBatch, HoldsParts
  <2>2. pc'[s] \notin {"load", "complete", "heartbeat", "failPart"}
    BY <1>16, <1>a DEF CompleteBatch, Goto, TypeOK
  <2>. QED BY <1>g, <2>1, <2>2
<1>17. CASE Return(s)
  <2>1. \A k \in Parts : pendPart'[s][k] = NoWrite
    BY <1>17, <1>a, <1>b DEF Return, HoldsParts, CommitWith, EndTransaction, NoPartWrites, TypeOK
  <2>2. pc'[s] \notin {"load", "complete", "heartbeat", "failPart"}
    BY <1>17, <1>a DEF Return, Goto, TypeOK, Leave
  <2>. QED BY <1>g, <2>1, <2>2
<1>18. CASE Rollback(s)
  <2>1. \A k \in Parts : pendPart'[s][k] = NoWrite
    BY <1>18, <1>a, <1>b DEF Rollback, HoldsParts, EndTransaction, NoPartWrites, TypeOK
  <2>2. pc'[s] \notin {"load", "complete", "heartbeat", "failPart"}
    BY <1>18, <1>a DEF Rollback, Goto, TypeOK
  <2>. QED BY <1>g, <2>1, <2>2
<1>19. CASE FailBatch(s)
  <2>1. \A k \in Parts : pendPart'[s][k] = NoWrite
    BY <1>19, <1>a, <1>b DEF FailBatch, HoldsParts
  <2>2. pc'[s] \notin {"load", "complete", "heartbeat", "failPart"}
    BY <1>19, <1>a DEF FailBatch, Goto, TypeOK, Leave
  <2>. QED BY <1>g, <2>1, <2>2
<1>20. CASE Fault(s)
  <2>1. UNCHANGED <<pendPart, part, job>>
    BY <1>20 DEF Fault, pendVars
  <2>2. \/ pc[s] \in {"load", "complete", "heartbeat"} /\ pc'[s] = "failPart"
        \/ pc[s] # "out" /\ pc'[s] = "rollback"
    BY <1>20, <1>a DEF Fault, Goto, TypeOK
  <2>3. \A k \in Parts : pendPart'[s][k] # NoWrite => pc'[s] \in HoldsParts
    BY <2>1, <2>2, <1>b DEF HoldsParts
  <2>4. pc'[s] = "failPart" => SeenPart(s, part[s])'.status # "ABSENT"
    BY <2>1, <2>2, <1>e, <1>f DEF OnPart
  <2>. QED BY <2>1, <2>2, <2>3, <2>4, <1>a DEF PartInv
<1>21. CASE Crash(s)
  <2>1. \A k \in Parts : pendPart'[s][k] = NoWrite
    BY <1>21, <1>a, <1>b DEF Crash, HoldsParts, EndTransaction, NoPartWrites, TypeOK
  <2>2. pc'[s] \notin {"load", "complete", "heartbeat", "failPart"}
    BY <1>21, <1>a DEF Crash, Goto, TypeOK, Leave
  <2>. QED BY <1>g, <2>1, <2>2
<1>. QED BY <1>1, <1>2, <1>3, <1>4, <1>5, <1>5a, <1>6, <1>7, <1>8, <1>9, <1>10, <1>11,
            <1>12, <1>13, <1>14, <1>15, <1>16, <1>17, <1>18, <1>19, <1>20, <1>21
         DEF SessionNext, Step

-----------------------------------------------------------------------------
(* Pending orders.                                                         *)

\* A step drops the session's pending orders, keeps them, or loads its part.
PendingChange(s) ==
    \/ pendOrders'[s] = {}
    \/ /\ pendOrders'[s] = pendOrders[s]
       /\ pc[s] \in HoldsOrders /\ pc'[s] \in HoldsOrders
       /\ orders' = orders
       /\ start'[s] = start[s] /\ part'[s] = part[s]
    \/ /\ pc[s] = "load" /\ pc'[s] = "complete"
       /\ pendOrders'[s] = PartIds(s, part[s])
       /\ PartIds(s, part[s]) \cap (SeenOrders(s) \cup PendingOrders(s)) = {}
       /\ orders' = orders
       /\ start'[s] = start[s] /\ part'[s] = part[s]

LEMMA PendingStep ==
    ASSUME IInv, NEW s \in Sessions, SessionNext(s)
    PROVE  PendingChange(s)
<1>a. TypeOK /\ SessionInv(s)
  BY DEF IInv
<1>b. pc[s] \notin HoldsOrders => pendOrders[s] = {}
  BY DEF IInv, PendingInv
<1>e. EndTransaction(s) => pendOrders'[s] = {}
  BY <1>a DEF EndTransaction, TypeOK
<1>n. pc[s] \notin HoldsOrders /\ pendOrders' = pendOrders => PendingChange(s)
  BY <1>b DEF PendingChange
<1>1. ASSUME NEW b \in Batches, NEW inTx \in CallerInTx, Call(s, b, inTx)
      PROVE  PendingChange(s)
  BY <1>1, <1>n DEF Call, pendVars, HoldsOrders
<1>2. CASE StartBatch(s)
  BY <1>2, <1>n DEF StartBatch, HoldsOrders
<1>3. CASE InspectBatch(s)
  BY <1>3, <1>e, <1>n DEF InspectBatch, pendVars, HoldsOrders, PendingChange
<1>4. CASE RetryFailedBatch(s)
  BY <1>4, <1>e, <1>n DEF RetryFailedBatch, HoldsOrders, PendingChange
<1>5. CASE ReadStartIds(s)
  BY <1>5, <1>n DEF ReadStartIds, HoldsOrders, pendVars
<1>5a. CASE AllocateStartId(s)
  BY <1>5a, <1>n DEF AllocateStartId, HoldsOrders, pendVars
<1>6. CASE ReadCompletedParts(s)
  BY <1>6, <1>n DEF ReadCompletedParts, HoldsOrders, pendVars
<1>7. CASE SelectPart(s)
  BY <1>7, <1>n DEF SelectPart, HoldsOrders, pendVars
<1>8. CASE InsertPart(s)
  BY <1>8, <1>n DEF InsertPart, HoldsOrders
<1>9. CASE ReclaimPart(s)
  BY <1>9, <1>n DEF ReclaimPart, HoldsOrders
<1>10. CASE LoadPart(s)
  <2>1. pendOrders[s] = {} /\ pc[s] = "load"
    BY <1>10, <1>b DEF LoadPart, HoldsOrders
  <2>2. CASE pendOrders' = pendOrders
    BY <2>1, <2>2 DEF PendingChange
  <2>3. CASE pendOrders' # pendOrders
    <3>1. /\ PartIds(s, part[s]) \cap (SeenOrders(s) \cup PendingOrders(s)) = {}
          /\ WriteOrders(s, PartIds(s, part[s]))
          /\ pc' = [pc EXCEPT ![s] = "complete"] /\ UNCHANGED <<start, part>>
      BY <1>10, <2>3 DEF LoadPart, Goto
    <3>2. orders' = orders /\ pendOrders' = [pendOrders EXCEPT ![s] = @ \cup PartIds(s, part[s])]
      BY <3>1, <2>3 DEF WriteOrders
    <3>3. pendOrders'[s] = PartIds(s, part[s]) /\ pc'[s] = "complete"
      BY <3>1, <3>2, <2>1, <1>a DEF TypeOK
    <3>. QED BY <3>1, <3>2, <3>3, <2>1 DEF PendingChange
  <2>. QED BY <2>2, <2>3
<1>11. CASE CompletePart(s)
  <2>1. CASE SeenPart(s, part[s]).status = "STARTED"
    BY <1>11, <2>1, <1>e DEF CompletePart, CommitWith, PendingChange
  <2>2. CASE SeenPart(s, part[s]).status # "STARTED"
    BY <1>11, <2>2, <1>a DEF CompletePart, dbVars, pendVars, Goto, HoldsOrders, PendingChange, TypeOK
  <2>. QED BY <2>1, <2>2
<1>12. CASE HeartbeatBatch(s)
  BY <1>12, <1>n DEF HeartbeatBatch, HoldsOrders, pendVars
<1>13. CASE FailPart(s)
  BY <1>13, <1>a DEF FailPart, Goto, HoldsOrders, PendingChange, TypeOK
<1>14. CASE Reconcile(s)
  BY <1>14, <1>n DEF Reconcile, HoldsOrders, pendVars
<1>15. CASE CheckQuality(s)
  BY <1>15, <1>n DEF CheckQuality, HoldsOrders
<1>16. CASE CompleteBatch(s)
  BY <1>16, <1>n DEF CompleteBatch, HoldsOrders
<1>17. CASE Return(s)
  BY <1>17, <1>e DEF Return, CommitWith, PendingChange
<1>18. CASE Rollback(s)
  BY <1>18, <1>e DEF Rollback, PendingChange
<1>19. CASE FailBatch(s)
  BY <1>19, <1>n DEF FailBatch, HoldsOrders
<1>20. CASE Fault(s)
  <2>1. UNCHANGED <<orders, pendOrders, start, part>>
    BY <1>20 DEF Fault, dbVars, pendVars
  <2>2. \/ pc[s] \notin HoldsOrders
        \/ pc[s] \in HoldsOrders /\ pc'[s] \in HoldsOrders
    BY <1>20, <1>a DEF Fault, Goto, HoldsOrders, TypeOK
  <2>. QED BY <2>1, <2>2, <1>n DEF PendingChange
<1>21. CASE Crash(s)
  BY <1>21, <1>e DEF Crash, PendingChange
<1>. QED BY <1>1, <1>2, <1>3, <1>4, <1>5, <1>5a, <1>6, <1>7, <1>8, <1>9, <1>10, <1>11,
            <1>12, <1>13, <1>14, <1>15, <1>16, <1>17, <1>18, <1>19, <1>20, <1>21
         DEF SessionNext, Step

LEMMA PendingKept ==
    ASSUME IInv, NEW s \in Sessions, SessionNext(s), NEW t \in Sessions
    PROVE  PendingInv(t)'
<1>a. TypeOK /\ TypeOK' /\ PendingInv(s) /\ PendingInv(t) /\ SessionInv(s)
  BY TypeStep DEF IInv
<1>b. \A u \in Sessions \ {s} : Same(u)
  BY <1>a, OthersStay
<1>c. \A u, v \in Sessions : u # v => pendOrders[u] \cap pendOrders[v] = {}
  BY DEF IInv, PendingInv
<1>d. \A u \in Sessions : pendOrders[u] \cap CommittedOrders = {}
  BY DEF IInv, PendingInv
<1>1. orders' = orders => CommittedOrders' = CommittedOrders
  BY DEF CommittedOrders
<1>2. Extends(s) => CommittedOrders' = CommittedOrders \cup PartIds(s, part[s])
  BY <1>a DEF Extends, CommittedOrders, TypeOK
\* Other sessions' pending orders stay out of the table.
<1>3. ASSUME NEW u \in Sessions \ {s}
      PROVE  pendOrders'[u] \cap CommittedOrders' = {}
  BY <1>1, <1>2, <1>b, <1>d, OrdersStep DEF Extends, Same
\* So do the session's own.
<1>4. pendOrders'[s] # {} => orders' = orders
  BY PendingStep DEF PendingChange
<1>5. pendOrders'[s] \cap CommittedOrders' = {}
  <2>1. CASE pendOrders'[s] = {}
    BY <2>1
  <2>2. CASE pendOrders'[s] = pendOrders[s] /\ orders' = orders
    BY <2>2, <1>1, <1>d
  <2>3. CASE /\ PartIds(s, part[s]) \cap (SeenOrders(s) \cup PendingOrders(s)) = {}
             /\ pendOrders'[s] = PartIds(s, part[s]) /\ orders' = orders
    BY <2>3, <1>1 DEF SeenOrders
  <2>. QED BY <2>1, <2>2, <2>3, PendingStep DEF PendingChange
<1>6. ASSUME NEW u \in Sessions \ {s}
      PROVE  pendOrders'[u] \cap pendOrders'[s] = {}
  <2>1. pendOrders'[u] = pendOrders[u]
    BY <1>b DEF Same
  <2>2. CASE pendOrders'[s] = {}
    BY <2>2
  <2>3. CASE pendOrders'[s] = pendOrders[s]
    BY <2>1, <2>3, <1>c
  <2>4. CASE /\ PartIds(s, part[s]) \cap (SeenOrders(s) \cup PendingOrders(s)) = {}
             /\ pendOrders'[s] = PartIds(s, part[s])
    BY <2>1, <2>4 DEF PendingOrders
  <2>. QED BY <2>2, <2>3, <2>4, PendingStep DEF PendingChange
<1>7. ASSUME NEW u \in Sessions \ {s}, NEW v \in Sessions \ {s}, u # v
      PROVE  pendOrders'[u] \cap pendOrders'[v] = {}
  BY <1>7, <1>b, <1>c DEF Same
<1>8. pendOrders'[t] # {} =>
          pc'[t] \in HoldsOrders /\ part'[t] \in Parts /\ pendOrders'[t] = PartIds(t, part[t])'
  <2>1. CASE t # s
    <3>1. Same(t)
      BY <2>1, <1>b
    <3>. QED BY <3>1, <1>a DEF Same, PendingInv, PartIds
  <2>2. CASE t = s
    <3>1. PartIds(s, part[s])' = PartIds(s, part[s]) \/ start'[s] # start[s] \/ part'[s] # part[s]
      BY DEF PartIds
    <3>2. pc[s] = "load" => part[s] \in Parts
      BY <1>a DEF SessionInv, OnPart
    <3>. QED BY <2>2, <3>1, <3>2, <1>a, PendingStep DEF PendingChange, PendingInv, HoldsOrders
  <2>. QED BY <2>1, <2>2
<1>. QED BY <1>3, <1>5, <1>6, <1>7, <1>8 DEF PendingInv

\* The other sessions keep their control state and their part.
LEMMA OthersKeep ==
    ASSUME IInv, NEW s \in Sessions, SessionNext(s), NEW t \in Sessions \ {s}
    PROVE  SessionInv(t)' /\ PartInv(t)'
<1>1. TypeOK /\ SessionInv(t) /\ PartInv(t)
  BY DEF IInv
<1>2. Same(t)
  BY <1>1, OthersStay
<1>3. SessionInv(t)'
  BY <1>1, <1>2 DEF SessionInv, Same
<1>4. \A b \in Batches, k \in Parts :
         parts[b][k].status # "ABSENT" => parts'[b][k].status # "ABSENT"
  BY RegisteredStays
<1>5. pc[t] \in OnPart => job[t] \in Batches /\ part[t] \in Parts
  BY <1>1 DEF SessionInv, OnPart
<1>6. PartInv(t)'
  BY <1>1, <1>2, <1>4, <1>5 DEF PartInv, Same, SeenPart, Seen, OnPart
<1>. QED BY <1>3, <1>6

-----------------------------------------------------------------------------
(* Where batches start.                                                    *)

\* A step leaves the part of the function where ids are planned, keeps
\* start_order_id, or reads it.
StartChange(s) ==
    \/ pc'[s] \notin Planned
    \/ pc[s] \in Planned /\ start'[s] = start[s] /\ job'[s] = job[s]
    \/ /\ pc[s] = "start" /\ SeenPart(s, 1).status # "ABSENT"
       /\ start'[s] = SeenPart(s, 1).start /\ job'[s] = job[s]
       /\ orders' = orders
    \/ /\ pc[s] = "allocate"
       /\ start'[s] = FreshOrderId(s) /\ job'[s] = job[s]
       /\ orders' = orders

LEMMA StartStep ==
    ASSUME TypeOK, NEW s \in Sessions, SessionNext(s)
    PROVE  StartChange(s)
<1>. USE DEF TypeOK, StartChange, Planned, Goto
<1>1. ASSUME NEW b \in Batches, NEW inTx \in CallerInTx, Call(s, b, inTx)
      PROVE  StartChange(s)
  BY <1>1 DEF Call
<1>2. CASE StartBatch(s)
  BY <1>2 DEF StartBatch
<1>3. CASE InspectBatch(s)
  BY <1>3 DEF InspectBatch, Leave
<1>4. CASE RetryFailedBatch(s)
  BY <1>4 DEF RetryFailedBatch, Leave
<1>5. CASE ReadStartIds(s)
  BY <1>5 DEF ReadStartIds, dbVars
<1>5a. CASE AllocateStartId(s)
  BY <1>5a DEF AllocateStartId, dbVars
<1>6. CASE ReadCompletedParts(s)
  BY <1>6 DEF ReadCompletedParts
<1>7. CASE SelectPart(s)
  BY <1>7 DEF SelectPart
<1>8. CASE InsertPart(s)
  BY <1>8 DEF InsertPart
<1>9. CASE ReclaimPart(s)
  BY <1>9 DEF ReclaimPart
<1>10. CASE LoadPart(s)
  BY <1>10 DEF LoadPart
<1>11. CASE CompletePart(s)
  BY <1>11 DEF CompletePart
<1>12. CASE HeartbeatBatch(s)
  BY <1>12 DEF HeartbeatBatch
<1>13. CASE FailPart(s)
  BY <1>13 DEF FailPart
<1>14. CASE Reconcile(s)
  BY <1>14 DEF Reconcile
<1>15. CASE CheckQuality(s)
  BY <1>15 DEF CheckQuality
<1>16. CASE CompleteBatch(s)
  BY <1>16 DEF CompleteBatch
<1>17. CASE Return(s)
  BY <1>17 DEF Return, Leave
<1>18. CASE Rollback(s)
  BY <1>18 DEF Rollback
<1>19. CASE FailBatch(s)
  BY <1>19 DEF FailBatch, Leave
<1>20. CASE Fault(s)
  BY <1>20 DEF Fault
<1>21. CASE Crash(s)
  BY <1>21 DEF Crash, Leave
<1>. QED BY <1>1, <1>2, <1>3, <1>4, <1>5, <1>5a, <1>6, <1>7, <1>8, <1>9, <1>10, <1>11,
            <1>12, <1>13, <1>14, <1>15, <1>16, <1>17, <1>18, <1>19, <1>20, <1>21
         DEF SessionNext, Step

\* A step drops, keeps or writes the pending row of a part.
PendingRowChange(s, k) ==
    \/ pendPart'[s][k] = NoWrite
    \/ pendPart'[s][k] = pendPart[s][k] /\ job'[s] = job[s]
    \/ /\ k = part[s] /\ pc[s] \in {"insert", "reclaim"} /\ job'[s] = job[s]
       /\ pendPart'[s][k] = StartedPart(s)
    \/ /\ k = part[s] /\ pc[s] = "failPart" /\ job'[s] = job[s]
       /\ pendPart'[s][k] = [SeenPart(s, k) EXCEPT !.status = "FAILED"]

LEMMA PendingRowsStep ==
    ASSUME IInv, NEW s \in Sessions, SessionNext(s), NEW k \in Parts
    PROVE  PendingRowChange(s, k)
<1>a. TypeOK /\ SessionInv(s)
  BY DEF IInv
<1>e. EndTransaction(s) => pendPart'[s][k] = NoWrite
  BY <1>a DEF EndTransaction, NoPartWrites, TypeOK
<1>n. pendPart' = pendPart /\ job' = job => PendingRowChange(s, k)
  BY DEF PendingRowChange
<1>p. pc[s] \in OnPart => part[s] \in Parts
  BY <1>a DEF SessionInv
<1>w. ASSUME NEW row, WritePart(s, part[s], row), part[s] \in Parts
      PROVE  \/ pendPart'[s][k] = pendPart[s][k]
             \/ k = part[s] /\ pendPart'[s][k] = row
  BY <1>a, <1>w DEF WritePart, TypeOK
<1>1. ASSUME NEW b \in Batches, NEW inTx \in CallerInTx, Call(s, b, inTx)
      PROVE  PendingRowChange(s, k)
  BY <1>1, <1>a DEF Call, pendVars, SessionInv, NoPartWrites, PendingRowChange
<1>2. CASE StartBatch(s)
  BY <1>2, <1>n DEF StartBatch
<1>3. CASE InspectBatch(s)
  BY <1>3, <1>e, <1>n DEF InspectBatch, pendVars, PendingRowChange
<1>4. CASE RetryFailedBatch(s)
  BY <1>4, <1>e, <1>n DEF RetryFailedBatch, PendingRowChange
<1>5. CASE ReadStartIds(s)
  BY <1>5, <1>n DEF ReadStartIds, pendVars
<1>5a. CASE AllocateStartId(s)
  BY <1>5a, <1>n DEF AllocateStartId, pendVars
<1>6. CASE ReadCompletedParts(s)
  BY <1>6, <1>n DEF ReadCompletedParts, pendVars
<1>7. CASE SelectPart(s)
  BY <1>7, <1>n DEF SelectPart, pendVars
<1>8. CASE InsertPart(s)
  BY <1>8, <1>p, <1>n, <1>w DEF InsertPart, OnPart, PendingRowChange
<1>9. CASE ReclaimPart(s)
  BY <1>9, <1>p, <1>w DEF ReclaimPart, OnPart, PendingRowChange
<1>10. CASE LoadPart(s)
  BY <1>10, <1>n DEF LoadPart
<1>11. CASE CompletePart(s)
  <2>1. CASE SeenPart(s, part[s]).status = "STARTED"
    BY <1>11, <2>1, <1>e DEF CompletePart, CommitWith, PendingRowChange
  <2>2. CASE SeenPart(s, part[s]).status # "STARTED"
    BY <1>11, <2>2, <1>n DEF CompletePart, pendVars
  <2>. QED BY <2>1, <2>2
<1>12. CASE HeartbeatBatch(s)
  BY <1>12, <1>n DEF HeartbeatBatch, pendVars
<1>13. CASE FailPart(s)
  BY <1>13, <1>p, <1>w DEF FailPart, OnPart, PendingRowChange
<1>14. CASE Reconcile(s)
  BY <1>14, <1>n DEF Reconcile, pendVars
<1>15. CASE CheckQuality(s)
  BY <1>15, <1>n DEF CheckQuality
<1>16. CASE CompleteBatch(s)
  BY <1>16, <1>n DEF CompleteBatch
<1>17. CASE Return(s)
  BY <1>17, <1>e DEF Return, CommitWith, PendingRowChange
<1>18. CASE Rollback(s)
  BY <1>18, <1>e DEF Rollback, PendingRowChange
<1>19. CASE FailBatch(s)
  BY <1>19, <1>a DEF FailBatch, SessionInv, NoPartWrites, PendingRowChange
<1>20. CASE Fault(s)
  BY <1>20, <1>n DEF Fault, pendVars
<1>21. CASE Crash(s)
  BY <1>21, <1>e DEF Crash, PendingRowChange
<1>. QED BY <1>1, <1>2, <1>3, <1>4, <1>5, <1>5a, <1>6, <1>7, <1>8, <1>9, <1>10, <1>11,
            <1>12, <1>13, <1>14, <1>15, <1>16, <1>17, <1>18, <1>19, <1>20, <1>21
         DEF SessionNext, Step

LEMMA StartKept ==
    ASSUME IInv, NEW s \in Sessions, SessionNext(s), NEW t \in Sessions
    PROVE  StartInv(t)'
<1>a. TypeOK /\ TypeOK' /\ SessionInv(t) /\ SessionInv(t)' /\ StartInv(t)
  BY TypeStep, SessionStep, OthersKeep DEF IInv
<1>b. /\ \A i : Reached(i) => Reached(i)'
      /\ \A b \in Batches : \A i \in orders'[b] \ orders[b] :
            i \in Nat /\ \A j : Reached(j) => j < i
  BY OrdersGrow
<1>k. ASSUME pc[t] \in Planned, start'[t] = start[t], job'[t] = job[t]
      PROVE  StartInv(t)'
  <2>1. /\ job[t] \in Batches /\ start[t] \in Nat \ {0}
        /\ Reached(start[t] - 1) /\ \A i \in orders[job[t]] : start[t] <= i
    BY <1>a, <1>k DEF SessionInv, StartInv, TypeOK, Planned
  <2>2. \A i \in orders'[job[t]] \ orders[job[t]] : i \in Nat /\ start[t] - 1 < i
    BY <2>1, <1>b
  <2>3. \A i \in orders'[job[t]] : start[t] <= i
    BY <2>1, <2>2
  <2>4. Reached(start[t] - 1)'
    BY <2>1, <1>b, <1>k DEF Reached
  <2>. QED BY <2>1, <2>3, <2>4, <1>k DEF StartInv
<1>1. CASE t # s
  <2>1. Same(t)
    BY <1>1, <1>a, OthersStay
  <2>2. CASE pc[t] \in Planned
    BY <2>1, <2>2, <1>k DEF Same
  <2>3. CASE pc[t] \notin Planned
    BY <2>1, <2>3 DEF Same, StartInv
  <2>. QED BY <2>2, <2>3
<1>2. CASE t = s
  <2>1. StartChange(s)
    BY <1>a, StartStep
  <2>2. CASE pc'[s] \notin Planned
    BY <2>2, <1>2 DEF StartInv
  <2>3. CASE pc[s] \in Planned /\ start'[s] = start[s] /\ job'[s] = job[s]
    BY <2>3, <1>2, <1>k
  <2>4. CASE /\ pc[s] = "start" /\ SeenPart(s, 1).status # "ABSENT"
             /\ start'[s] = SeenPart(s, 1).start /\ job'[s] = job[s] /\ orders' = orders
    <3>1. /\ job[s] \in Batches /\ pendPart[s][1] = NoWrite
          /\ PinInv(job[s]) /\ parts[job[s]][1] \in PartRow
      <4>1. job[s] \in Batches
        BY <2>4, <1>2, <1>a DEF SessionInv
      <4>2. pendPart[s][1] = NoWrite
        BY <2>4, RangeFacts DEF IInv, PartInv, HoldsParts
      <4>. QED BY <4>1, <4>2, <1>a, RangeFacts DEF IInv, TypeOK
    <3>2. SeenPart(s, 1) = parts[job[s]][1]
      BY <3>1 DEF SeenPart, Seen
    <3>3. /\ start'[s] \in Nat /\ start'[s] >= 1 /\ Reached(start'[s] - 1)
          /\ \A i \in orders[job[s]] : start'[s] <= i
      BY <2>4, <3>1, <3>2 DEF PinInv, PinOK, PartRow
    <3>. QED BY <3>3, <2>4, <1>b, <1>2 DEF StartInv, Reached
  <2>5. CASE /\ pc[s] = "allocate"
             /\ start'[s] = FreshOrderId(s) /\ job'[s] = job[s] /\ orders' = orders
    <3>1. job[s] \in Batches /\ Contiguous /\ PendingInv(s) /\ PinnedWithData /\ ClaimInv(s)
      BY <2>5, <1>2, <1>a DEF IInv, SessionInv
    <3>2. orders[job[s]] = {}
      BY <3>1, <2>5 DEF ClaimInv, PinnedWithData
    <3>3. start'[s] \in Nat /\ start'[s] >= 1 /\ Reached(start'[s] - 1)
      BY <3>1, <2>5, <1>2, <1>a, StartTyped
    <3>. QED BY <3>2, <3>3, <2>5, <1>b, <1>2 DEF StartInv, Reached
  <2>. QED BY <2>1, <2>2, <2>3, <2>4, <2>5 DEF StartChange
<1>. QED BY <1>1, <1>2

LEMMA PinCarries ==
    ASSUME IInv, NEW s \in Sessions, SessionNext(s), NEW b \in Batches,
           NEW row \in PartRow, PinOK(row, b), row.status # "ABSENT"
    PROVE  /\ row.start >= 1
           /\ Reached(row.start - 1)'
           /\ \A i \in orders'[b] : row.start <= i
<1>1. row.start \in Nat /\ row.start >= 1 /\ Reached(row.start - 1)
      /\ \A i \in orders[b] : row.start <= i
  BY DEF PinOK, PartRow
<1>2. Reached(row.start - 1)'
  BY <1>1, OrdersGrow DEF Reached
<1>3. \A i \in orders'[b] \ orders[b] : i \in Nat /\ row.start - 1 < i
  BY <1>1, OrdersGrow
<1>. QED BY <1>1, <1>2, <1>3

LEMMA PinKept ==
    ASSUME IInv, NEW s \in Sessions, SessionNext(s), NEW b \in Batches
    PROVE  PinInv(b)'
<1>a. /\ TypeOK /\ SessionInv(s) /\ PinInv(b) /\ PendingPinInv(s) /\ 1 \in Parts
      /\ parts[b][1] \in PartRow
  BY RangeFacts DEF IInv, TypeOK
<1>b. ASSUME NEW row \in PartRow, PinOK(row, b), parts'[b][1].start = row.start,
             row.status # "ABSENT"
      PROVE  PinInv(b)'
  BY <1>b, PinCarries DEF PinInv, PinOK, Reached
<1>1. RowChange(s, b, 1)
  BY <1>a, RowsStep
<1>2. CASE parts'[b][1] = parts[b][1]
  BY <1>2, <1>a, <1>b DEF PinInv, PinOK
<1>3. ASSUME 1 = part[s], pc[s] \in {"insert", "reclaim"}, ~open[s]
      PROVE  FALSE
  BY <1>3, <1>a DEF SessionInv, BeforeLoad
<1>4. CASE /\ b = job[s] /\ 1 = part[s] /\ pc[s] = "failPart" /\ ~open[s]
           /\ parts'[b][1] = [parts[b][1] EXCEPT !.status = "FAILED"]
  <2>1. SeenPart(s, 1) = parts[b][1]
    BY <1>4, <1>a DEF SessionInv, NoPartWrites, SeenPart, Seen
  <2>2. parts[b][1].status # "ABSENT"
    BY <1>4, <2>1 DEF IInv, PartInv
  <2>3. parts'[b][1].start = parts[b][1].start
    BY <1>4, <1>a DEF PartRow
  <2>. QED BY <2>2, <2>3, <1>a, <1>b DEF PinInv
<1>5. CASE /\ b = job[s] /\ 1 = part[s] /\ pc[s] = "complete"
           /\ parts'[b][1] = [SeenPart(s, 1) EXCEPT !.status = "COMPLETED"]
  <2>1. SeenPart(s, 1) \in PartRow /\ SeenPart(s, 1).status # "ABSENT"
    BY <1>5, <1>a, SeenTyped DEF IInv, PartInv
  <2>2. PinOK(SeenPart(s, 1), b)
    BY <1>5, <1>a DEF SeenPart, Seen, PinInv, PendingPinInv
  <2>3. parts'[b][1].start = SeenPart(s, 1).start
    BY <1>5, <2>1 DEF PartRow
  <2>. QED BY <2>1, <2>2, <2>3, <1>b
<1>. QED BY <1>1, <1>2, <1>3, <1>4, <1>5 DEF RowChange

LEMMA PendingPinKept ==
    ASSUME IInv, NEW s \in Sessions, SessionNext(s), NEW t \in Sessions
    PROVE  PendingPinInv(t)'
<1>a. /\ TypeOK /\ SessionInv(t) /\ PartInv(t) /\ PendingPinInv(t) /\ StartInv(t) /\ 1 \in Parts
  BY RangeFacts DEF IInv
<1>b. ASSUME NEW row \in PartRow, pc[t] # "out", PinOK(row, job[t]), job'[t] = job[t],
             pendPart'[t][1].start = row.start, row.status # "ABSENT"
      PROVE  PendingPinInv(t)'
  <2>1. job[t] \in Batches
    BY <1>a, <1>b DEF SessionInv
  <2>. QED BY <1>b, <2>1, PinCarries DEF PendingPinInv, PinOK, Reached
<1>1. CASE pendPart'[t][1] = NoWrite
  BY <1>1 DEF PendingPinInv
<1>2. CASE pendPart'[t][1] = pendPart[t][1] /\ pendPart[t][1] # NoWrite /\ job'[t] = job[t]
  <2>1. /\ pendPart[t][1] \in PartRow /\ pc[t] # "out"
        /\ pendPart[t][1].status # "ABSENT" /\ PinOK(pendPart[t][1], job[t])
    BY <1>2, <1>a DEF TypeOK, PartInv, HoldsParts, PendingPinInv
  <2>. QED BY <1>2, <2>1, <1>b
<1>3. CASE t # s
  BY <1>1, <1>2, <1>3, <1>a, OthersStay DEF Same
<1>4. CASE t = s
  <2>1. PendingRowChange(s, 1)
    BY <1>a, PendingRowsStep
  <2>2. CASE /\ 1 = part[s] /\ pc[s] \in {"insert", "reclaim"} /\ job'[s] = job[s]
             /\ pendPart'[s][1] = StartedPart(s)
    <3>1. StartedPart(s).start = start[s] /\ start[s] \in Nat
      BY <2>2, <1>4, <1>a, RangeFacts DEF StartedPart, TypeOK
    <3>. DEFINE row == [status |-> "STARTED", start |-> start[s]]
    <3>2. row \in PartRow /\ row.start = start[s] /\ row.status # "ABSENT"
      BY <3>1 DEF PartRow, BatchStatus
    <3>3. PinOK(row, job[s])
      BY <2>2, <3>2, <1>4, <1>a DEF PinOK, StartInv, Planned
    <3>. HIDE DEF row
    <3>. QED BY <2>2, <3>1, <3>2, <3>3, <1>4, <1>b
  <2>3. CASE /\ 1 = part[s] /\ pc[s] = "failPart" /\ job'[s] = job[s]
             /\ pendPart'[s][1] = [SeenPart(s, 1) EXCEPT !.status = "FAILED"]
    <3>1. job[s] \in Batches
      BY <2>3, <1>4, <1>a DEF SessionInv
    <3>2. SeenPart(s, 1) \in PartRow /\ SeenPart(s, 1).status # "ABSENT"
      BY <2>3, <3>1, <1>4, <1>a, SeenTyped DEF PartInv
    <3>3. PinOK(SeenPart(s, 1), job[s])
      BY <3>1, <1>4, <1>a DEF SeenPart, Seen, PendingPinInv, IInv, PinInv
    <3>4. pendPart'[s][1].start = SeenPart(s, 1).start
      BY <2>3, <3>2 DEF PartRow
    <3>. QED BY <2>3, <3>2, <3>3, <3>4, <1>4, <1>b
  <2>. QED BY <1>1, <1>2, <1>4, <2>1, <2>2, <2>3 DEF PendingRowChange
<1>. QED BY <1>3, <1>4

-----------------------------------------------------------------------------
(* From part to part.                                                      *)

\* How a session reaches the labels around a part.
Flow(s) ==
    pc'[s] \in BeforeLoad \cup {"complete", "heartbeat"} =>
        /\ start'[s] = start[s] /\ job'[s] = job[s] /\ pc[s] # "out"
        /\ \/ pc[s] = "resume" /\ part'[s] = part[s] /\ pc'[s] = "part"
           \/ pc[s] \in BeforeLoad /\ part'[s] = part[s] /\ pc'[s] \in BeforeLoad
           \/ /\ pc[s] = "part" /\ pc'[s] = "part"
              /\ part[s] \in Parts /\ part'[s] = part[s] + 1
              /\ SeenPart(s, part[s]).status = "COMPLETED"
           \/ pc[s] = "heartbeat" /\ part'[s] = part[s] + 1 /\ pc'[s] = "part"
           \/ /\ pc[s] = "load" /\ part'[s] = part[s] /\ pc'[s] = "complete"
              /\ PartIds(s, part[s]) \cap CommittedOrders = {}
              /\ PartIds(s, part[s]) \subseteq orders'[job[s]] \cup pendOrders'[s]
           \/ /\ pc[s] = "complete" /\ part'[s] = part[s] /\ pc'[s] = "heartbeat"
              /\ pendOrders[s] \subseteq orders'[job[s]]

LEMMA FlowStep ==
    ASSUME TypeOK, NEW s \in Sessions, SessionInv(s), SessionNext(s)
    PROVE  Flow(s)
<1>. USE DEF TypeOK, Flow, BeforeLoad, Goto
<1>1. ASSUME NEW b \in Batches, NEW inTx \in CallerInTx, Call(s, b, inTx)
      PROVE  Flow(s)
  BY <1>1 DEF Call
<1>2. CASE StartBatch(s)
  BY <1>2 DEF StartBatch
<1>3. CASE InspectBatch(s)
  BY <1>3 DEF InspectBatch, Leave
<1>4. CASE RetryFailedBatch(s)
  BY <1>4 DEF RetryFailedBatch, Leave
<1>5. CASE ReadStartIds(s)
  BY <1>5 DEF ReadStartIds
<1>5a. CASE AllocateStartId(s)
  BY <1>5a DEF AllocateStartId
<1>6. CASE ReadCompletedParts(s)
  BY <1>6 DEF ReadCompletedParts
<1>7. CASE SelectPart(s)
  BY <1>7 DEF SelectPart, NextPart
<1>8. CASE InsertPart(s)
  BY <1>8 DEF InsertPart
<1>9. CASE ReclaimPart(s)
  BY <1>9 DEF ReclaimPart
<1>10. CASE LoadPart(s)
  <2>1. job[s] \in Batches /\ pc[s] = "load"
    BY <1>10 DEF LoadPart, SessionInv
  <2>2. WriteOrders(s, PartIds(s, part[s])) =>
          PartIds(s, part[s]) \subseteq orders'[job[s]] \cup pendOrders'[s]
    BY <2>1 DEF WriteOrders
  <2>. QED BY <1>10, <2>1, <2>2 DEF LoadPart, SeenOrders
<1>11. CASE CompletePart(s)
  <2>1. job[s] \in Batches /\ pc[s] = "complete"
    BY <1>11 DEF CompletePart, SessionInv
  <2>2. CASE SeenPart(s, part[s]).status = "STARTED"
    BY <1>11, <2>1, <2>2 DEF CompletePart, CommitWith
  <2>3. CASE SeenPart(s, part[s]).status # "STARTED"
    BY <1>11, <2>1, <2>3 DEF CompletePart
  <2>. QED BY <2>2, <2>3
<1>12. CASE HeartbeatBatch(s)
  BY <1>12 DEF HeartbeatBatch, NextPart
<1>13. CASE FailPart(s)
  BY <1>13 DEF FailPart
<1>14. CASE Reconcile(s)
  BY <1>14 DEF Reconcile
<1>15. CASE CheckQuality(s)
  BY <1>15 DEF CheckQuality
<1>16. CASE CompleteBatch(s)
  BY <1>16 DEF CompleteBatch
<1>17. CASE Return(s)
  BY <1>17 DEF Return, Leave
<1>18. CASE Rollback(s)
  BY <1>18 DEF Rollback
<1>19. CASE FailBatch(s)
  BY <1>19 DEF FailBatch, Leave
<1>20. CASE Fault(s)
  BY <1>20 DEF Fault
<1>21. CASE Crash(s)
  BY <1>21 DEF Crash, Leave
<1>. QED BY <1>1, <1>2, <1>3, <1>4, <1>5, <1>5a, <1>6, <1>7, <1>8, <1>9, <1>10, <1>11,
            <1>12, <1>13, <1>14, <1>15, <1>16, <1>17, <1>18, <1>19, <1>20, <1>21
         DEF SessionNext, Step

LEMMA LoadedKept ==
    ASSUME IInv, NEW s \in Sessions, SessionNext(s), NEW t \in Sessions
    PROVE  LoadedInv(t)'
<1>a. TypeOK /\ SessionInv(t) /\ LoadedInv(t)
  BY DEF IInv
<1>b. \A b \in Batches : orders[b] \subseteq orders'[b]
  BY OrdersGrow
<1>1. CASE t # s
  <2>1. Same(t)
    BY <1>1, <1>a, OthersStay
  <2>2. pc[t] \in {"complete", "heartbeat"} => job[t] \in Batches
    BY <1>a DEF SessionInv
  <2>. QED BY <2>1, <2>2, <1>a, <1>b DEF Same, LoadedInv, PartIds
<1>2. CASE t = s
  <2>. SUFFICES ASSUME pc'[s] \in {"complete", "heartbeat"}
                PROVE  PartIds(s, part[s])' \cup {start'[s]} \subseteq orders'[job'[s]] \cup pendOrders'[s]
    BY <1>2 DEF LoadedInv
  <2>1. Flow(s)
    BY <1>2, <1>a, FlowStep
  <2>2. /\ start'[s] = start[s] /\ job'[s] = job[s] /\ part'[s] = part[s]
        /\ pc[s] \in {"load", "complete"}
    BY <2>1 DEF Flow, BeforeLoad
  <2>3. PartIds(s, part[s])' = PartIds(s, part[s]) /\ job[s] \in Batches /\ part[s] \in Parts
    BY <2>2, <1>2, <1>a DEF PartIds, SessionInv, OnPart
  <2>4. CASE pc[s] = "load"
    <3>1. /\ PartIds(s, part[s]) \cap CommittedOrders = {}
          /\ PartIds(s, part[s]) \subseteq orders'[job[s]] \cup pendOrders'[s]
      BY <2>1, <2>4 DEF Flow, BeforeLoad
    <3>2. start[s] \in PartIds(s, part[s]) \/ start[s] \in orders[job[s]]
      <4>1. CASE part[s] = 1
        BY <4>1, <1>2, <1>a, RangeFacts DEF PartIds, TypeOK
      <4>2. CASE part[s] # 1
        BY <4>2, <2>3, <2>4, <3>1, Extension
      <4>. QED BY <4>1, <4>2
    <3>. QED BY <3>1, <3>2, <2>2, <2>3, <1>b
  <2>5. CASE pc[s] = "complete"
    <3>1. pendOrders[s] \subseteq orders'[job[s]]
      BY <2>1, <2>5 DEF Flow, BeforeLoad
    <3>2. PartIds(s, part[s]) \cup {start[s]} \subseteq orders[job[s]] \cup pendOrders[s]
      BY <2>5, <1>2, <1>a DEF LoadedInv
    <3>. QED BY <3>1, <3>2, <2>2, <2>3, <1>b
  <2>. QED BY <2>2, <2>4, <2>5
<1>. QED BY <1>1, <1>2

LEMMA PrecedingKept ==
    ASSUME IInv, NEW s \in Sessions, SessionNext(s), NEW t \in Sessions
    PROVE  PrecedingInv(t)'
<1>a. TypeOK /\ SessionInv(t) /\ PrecedingInv(t)
  BY DEF IInv
<1>b. /\ CommittedOrders \subseteq CommittedOrders'
      /\ \A b \in Batches : orders[b] \subseteq orders'[b]
  BY OrdersGrow
<1>k. ASSUME pc[t] \in BeforeLoad \cup {"complete"}, part'[t] = part[t], job'[t] = job[t]
      PROVE  PrecedingInv(t)'
  <2>1. job[t] \in Batches
    BY <1>a, <1>k DEF SessionInv, BeforeLoad
  <2>. QED BY <2>1, <1>a, <1>b, <1>k DEF PrecedingInv
<1>1. CASE t # s
  <2>1. Same(t)
    BY <1>1, <1>a, OthersStay
  <2>2. CASE pc[t] \in BeforeLoad \cup {"complete"}
    BY <2>1, <2>2, <1>k DEF Same
  <2>3. CASE pc[t] \notin BeforeLoad \cup {"complete"}
    BY <2>1, <2>3 DEF Same, PrecedingInv
  <2>. QED BY <2>2, <2>3
<1>2. CASE t = s
  <2>. SUFFICES ASSUME pc'[s] \in BeforeLoad \cup {"complete"}, part'[s] \in Parts \ {1}
                PROVE  \E e \in orders'[job'[s]] : e + Offset(part'[s]) - 1 \in CommittedOrders'
    BY <1>2 DEF PrecedingInv
  <2>1. Flow(s)
    BY <1>2, <1>a, FlowStep
  <2>2. start'[s] = start[s] /\ job'[s] = job[s] /\ pc[s] # "out"
    BY <2>1 DEF Flow
  <2>3. job[s] \in Batches
    BY <2>2, <1>2, <1>a DEF SessionInv
  \* The part before it is completed, and the next begins where it ends.
  <2>n. ASSUME part[s] \in Parts, part'[s] = part[s] + 1,
               NEW e \in orders[job[s]],
               e + Offset(part[s]) + Size(part[s]) - 1 \in CommittedOrders
        PROVE  \E i \in orders'[job'[s]] : i + Offset(part'[s]) - 1 \in CommittedOrders'
    <3>1. Offset(part'[s]) = Offset(part[s]) + Size(part[s])
      BY <2>n, RangeFacts
    <3>2. e \in Nat /\ Offset(part[s]) \in Nat /\ Size(part[s]) \in Nat
      BY <2>n, <2>3, <1>a, RangeFacts DEF TypeOK
    <3>3. e + Offset(part'[s]) - 1 = e + Offset(part[s]) + Size(part[s]) - 1
      BY <3>1, <3>2
    <3>. QED BY <3>3, <2>n, <2>2, <2>3, <1>b
  <2>4. CASE part'[s] = part[s] /\ pc[s] \in BeforeLoad
    BY <2>2, <2>4, <1>2, <1>k DEF PrecedingInv
  <2>5. CASE part'[s] = part[s] /\ pc[s] = "resume"
    BY <2>5, <1>2, <1>a DEF SessionInv
  <2>6. CASE /\ pc[s] = "part" /\ part[s] \in Parts /\ part'[s] = part[s] + 1
             /\ SeenPart(s, part[s]).status = "COMPLETED"
    <3>1. pendPart[s][part[s]] = NoWrite
      BY <2>6, <1>2 DEF IInv, PartInv, HoldsParts
    <3>2. parts[job[s]][part[s]].status = "COMPLETED" /\ CompletedInv(job[s])
      BY <2>6, <3>1, <2>3 DEF SeenPart, Seen, IInv
    <3>3. PICK e \in orders[job[s]] : e + Offset(part[s]) + Size(part[s]) - 1 \in CommittedOrders
      BY <3>2, <2>6 DEF CompletedInv
    <3>. QED BY <3>3, <2>6, <2>n
  <2>7. CASE pc[s] = "heartbeat" /\ part'[s] = part[s] + 1
    <3>1. part[s] \in Parts /\ pendOrders[s] = {} /\ LoadedInv(s)
      BY <2>7, <1>2, <1>a DEF SessionInv, OnPart, IInv, PendingInv, HoldsOrders
    <3>2. PartIds(s, part[s]) \cup {start[s]} \subseteq orders[job[s]]
      BY <2>7, <3>1 DEF LoadedInv
    <3>3. start[s] + Offset(part[s]) + Size(part[s]) - 1 \in PartIds(s, part[s])
      BY <3>1, <1>2, <1>a, RangeFacts DEF PartIds, TypeOK
    <3>4. start[s] + Offset(part[s]) + Size(part[s]) - 1 \in CommittedOrders
      BY <3>2, <3>3, <2>3 DEF CommittedOrders
    <3>. QED BY <3>1, <3>2, <3>4, <2>7, <2>n
  <2>. QED BY <2>1, <2>4, <2>5, <2>6, <2>7 DEF Flow, BeforeLoad
<1>. QED BY <1>1, <1>2

LEMMA CompletedKept ==
    ASSUME IInv, NEW s \in Sessions, SessionNext(s), NEW b \in Batches
    PROVE  CompletedInv(b)'
<1>a. TypeOK /\ SessionInv(s) /\ CompletedInv(b)
  BY DEF IInv
<1>b. /\ CommittedOrders \subseteq CommittedOrders'
      /\ orders[b] \subseteq orders'[b]
  BY OrdersGrow
<1>. SUFFICES ASSUME NEW k \in Parts, parts'[b][k].status = "COMPLETED"
              PROVE  \E e \in orders'[b] : e + Offset(k) + Size(k) - 1 \in CommittedOrders'
  BY DEF CompletedInv
<1>1. RowChange(s, b, k)
  BY RowsStep
<1>2. CASE parts'[b][k] = parts[b][k]
  BY <1>2, <1>a, <1>b DEF CompletedInv
<1>3. CASE parts'[b][k] = StartedPart(s)
  BY <1>3 DEF StartedPart
<1>4. CASE parts'[b][k] = [parts[b][k] EXCEPT !.status = "FAILED"]
  <2>1. parts[b][k] \in PartRow
    BY <1>a DEF TypeOK
  <2>. QED BY <1>4, <2>1 DEF PartRow
<1>5. CASE b = job[s] /\ k = part[s] /\ pc[s] = "complete" /\ pc'[s] = "heartbeat"
  <2>1. Flow(s)
    BY <1>a, FlowStep
  <2>2. start'[s] = start[s] /\ job'[s] = b /\ part'[s] = k
    BY <2>1, <1>5 DEF Flow, BeforeLoad
  <2>3. LoadedInv(s)' /\ PendingInv(s)'
    BY LoadedKept, PendingKept
  <2>4. PartIds(s, part[s])' \cup {start'[s]} \subseteq orders'[b]
    BY <2>2, <2>3, <1>5 DEF LoadedInv, PendingInv, HoldsOrders
  <2>5. start[s] + Offset(k) + Size(k) - 1 \in PartIds(s, part[s])'
    BY <2>2, <1>a, RangeFacts DEF PartIds, TypeOK
  <2>6. start[s] \in orders'[b] /\ start[s] + Offset(k) + Size(k) - 1 \in CommittedOrders'
    BY <2>2, <2>4, <2>5 DEF CommittedOrders
  <2>. QED BY <2>6
<1>. QED BY <1>1, <1>2, <1>3, <1>4, <1>5 DEF RowChange

-----------------------------------------------------------------------------
(* The batch's rows and orders together.                                   *)

LEMMA PinnedKept ==
    ASSUME IInv, NEW s \in Sessions, SessionNext(s), NEW b \in Batches
    PROVE  parts'[b][1].status # "ABSENT" <=> orders'[b] # {}
<1>a. /\ TypeOK /\ TypeOK' /\ SessionInv(s) /\ PartInv(s) /\ PartInv(s)' /\ SessionInv(s)'
      /\ 1 \in Parts /\ (parts[b][1].status # "ABSENT" <=> orders[b] # {})
  BY RangeFacts, TypeStep, SessionStep, PartStep DEF IInv, PinnedWithData
<1>b. orders[b] \subseteq orders'[b]
  BY OrdersGrow
<1>f. Flow(s)
  BY <1>a, FlowStep
<1>1. ASSUME parts'[b][1].status # "ABSENT"
      PROVE  orders'[b] # {}
  <2>1. RowChange(s, b, 1)
    BY <1>a, RowsStep
  <2>2. CASE parts'[b][1] = parts[b][1]
    BY <1>1, <2>2, <1>a, <1>b
  <2>3. ASSUME 1 = part[s], pc[s] \in {"insert", "reclaim"}, ~open[s]
        PROVE  FALSE
    BY <2>3, <1>a DEF SessionInv, BeforeLoad
  <2>4. CASE b = job[s] /\ 1 = part[s] /\ pc[s] = "failPart" /\ ~open[s]
    <3>1. SeenPart(s, 1) = parts[b][1]
      BY <2>4, <1>a DEF SessionInv, NoPartWrites, SeenPart, Seen
    <3>. QED BY <3>1, <2>4, <1>a, <1>b DEF PartInv
  <2>5. CASE b = job[s] /\ 1 = part[s] /\ pc[s] = "complete" /\ pc'[s] = "heartbeat"
    <3>1. LoadedInv(s)' /\ PendingInv(s)'
      BY LoadedKept, PendingKept
    <3>2. job'[s] = b
      BY <1>f, <2>5 DEF Flow
    <3>3. start'[s] \in orders'[b]
      BY <3>1, <3>2, <2>5 DEF LoadedInv, PendingInv, HoldsOrders
    <3>. QED BY <3>3
  <2>. QED BY <2>1, <2>2, <2>3, <2>4, <2>5 DEF RowChange
<1>2. ASSUME orders'[b] # {}, orders[b] = {}
      PROVE  parts'[b][1].status # "ABSENT"
  <2>1. Extends(s) /\ b = job[s]
    BY <1>2, <1>a, OrdersStep DEF Extends, TypeOK
  <2>2. part[s] = 1
    BY <1>2, <2>1, Extension DEF Extends
  <2>3. pc[s] = "complete" /\ pc'[s] = "heartbeat"
    BY <2>1, <2>2, <1>a DEF Extends, SessionInv, BeforeLoad
  <2>4. part'[s] = 1 /\ job'[s] = b
    BY <2>1, <2>2, <2>3, <1>f DEF Flow, BeforeLoad
  <2>5. SeenPart(s, 1)' = parts'[b][1]
    BY <2>3, <2>4, <1>a DEF PartInv, HoldsParts, SeenPart, Seen
  <2>. QED BY <2>3, <2>4, <2>5, <1>a DEF PartInv
<1>3. ASSUME orders[b] # {}
      PROVE  parts'[b][1].status # "ABSENT"
  BY <1>3, <1>a, RegisteredStays
<1>. QED BY <1>1, <1>2, <1>3

LEMMA NeverTwiceKept ==
    ASSUME IInv, NEW s \in Sessions, SessionNext(s), NEW b \in Batches,
           NEW i \in orders'[b], NEW j \in orders'[b]
    PROVE  i - j < Orders
<1>a. TypeOK /\ NeverLoadedTwice
  BY DEF IInv
<1>1. CASE orders'[b] = orders[b]
  BY <1>1, <1>a DEF NeverLoadedTwice
<1>2. CASE Extends(s) /\ b = job[s]
  <2>. DEFINE k == part[s]
  <2>1. /\ pc[s] \in {"load", "complete"} /\ k \in Parts /\ StartInv(s)
        /\ orders'[b] = orders[b] \cup PartIds(s, k)
    BY <1>2, <1>a DEF Extends, TypeOK, IInv
  <2>2. PICK n \in Nat :
           /\ CommittedOrders = 1..n
           /\ start[s] + Offset(k) = n + 1
           /\ PartIds(s, k) = (n + 1)..(n + Size(k))
           /\ k = 1 => orders[b] = {}
    BY <1>2, Extension DEF Extends
  <2>3. /\ Offset(k) \in Nat /\ Size(k) \in Nat \ {0} /\ Offset(k) + Size(k) <= Orders
        /\ Orders \in Nat /\ start[s] \in Nat
    BY <2>1, <1>a, RangeFacts, ConfigAssumption DEF TypeOK
  <2>4. \A x \in orders[b] : x \in Nat /\ start[s] <= x /\ x <= n
    BY <2>1, <2>2, <1>2 DEF StartInv, Planned, CommittedOrders
  <2>5. \A x \in PartIds(s, k) : x \in Nat /\ start[s] <= x /\ x <= n + Size(k)
    BY <2>2, <2>3
  <2>6. /\ i \in Nat /\ start[s] <= i /\ i <= n + Size(k)
        /\ j \in Nat /\ start[s] <= j
    BY <2>1, <2>2, <2>3, <2>4, <2>5
  <2>. QED BY <2>2, <2>3, <2>6
<1>3. CASE Extends(s) /\ b # job[s]
  BY <1>1, <1>3, <1>a DEF Extends, TypeOK
<1>. QED BY <1>1, <1>2, <1>3, OrdersStep

-----------------------------------------------------------------------------
(* Who holds the batch.                                                    *)

\* A step keeps the session's pending batch row, drops it, or writes it when
\* no other session has.
BatchChange(s) ==
    \/ pendBatch'[s] = pendBatch[s] /\ job'[s] = job[s]
    \/ pendBatch'[s] = NoWrite
    \/ ~BatchLocked(s) /\ job'[s] = job[s]

\* How a session reaches the labels up to the end of the load.
ClaimFlow(s) ==
    \/ pc'[s] \notin Claiming \cup {"start", "allocate"} \cup Planned
    \/ pc'[s] \in Claiming /\ open'[s]
    \/ pc'[s] = "start" /\ pendBatch'[s] # NoWrite
    \/ /\ pc'[s] \in Planned /\ pc[s] \in {"start", "allocate"} \cup Planned
       /\ pendBatch'[s] = pendBatch[s] /\ job'[s] = job[s]
    \/ /\ pc'[s] = "allocate" /\ pc[s] = "start" /\ SeenPart(s, 1).status = "ABSENT"
       /\ pendBatch'[s] = pendBatch[s] /\ job'[s] = job[s] /\ parts' = parts
    \/ pc'[s] = "heartbeat" /\ pc[s] = "complete"

LEMMA ClaimStep ==
    ASSUME IInv, NEW s \in Sessions, SessionNext(s)
    PROVE  BatchChange(s) /\ ClaimFlow(s)
<1>a. TypeOK /\ SessionInv(s) /\ ClaimInv(s) /\ RunnerCalls
  BY DEF IInv
<1>b. [status |-> "STARTED", attempts |-> 1] \in BatchRow /\ NoWrite \notin BatchRow
  BY ConfigAssumption, NoWriteAssumption DEF BatchRow, BatchStatus
<1>c. MayRetry(SeenBatch(s)) /\ pc[s] # "out" =>
        [status |-> "STARTED", attempts |-> SeenBatch(s).attempts + 1] \in BatchRow
  BY <1>a, SeenTyped, ConfigAssumption DEF SessionInv, MayRetry, BatchRow, BatchStatus
<1>o. ~open[s] => pendBatch[s] = NoWrite
  BY <1>a DEF SessionInv
<1>. USE DEF TypeOK, BatchChange, ClaimFlow, Claiming, Planned, Goto, OpenTransaction
<1>1. ASSUME NEW b \in Batches, NEW inTx \in CallerInTx, Call(s, b, inTx)
      PROVE  BatchChange(s) /\ ClaimFlow(s)
  <2>1. inTx = TRUE
    BY <1>a DEF RunnerCalls
  <2>2. pendBatch[s] = NoWrite
    BY <1>1, <1>a DEF Call, SessionInv
  <2>. QED BY <1>1, <1>a, <2>1, <2>2 DEF Call, pendVars
<1>2. CASE StartBatch(s)
  BY <1>2, <1>a, <1>b DEF StartBatch, WriteBatch, ClaimInv
<1>3. CASE InspectBatch(s)
  BY <1>3, <1>a DEF InspectBatch, EndTransaction, Leave, pendVars
<1>4. CASE RetryFailedBatch(s)
  <2>1. CASE MayRetry(SeenBatch(s))
    BY <1>4, <2>1, <1>a, <1>b, <1>c DEF RetryFailedBatch, WriteBatch, ClaimInv
  <2>2. CASE ~MayRetry(SeenBatch(s))
    BY <1>4, <2>2, <1>a DEF RetryFailedBatch, EndTransaction, Leave
  <2>. QED BY <2>1, <2>2
<1>5. CASE ReadStartIds(s)
  BY <1>5, <1>a DEF ReadStartIds, pendVars, dbVars
<1>5a. CASE AllocateStartId(s)
  BY <1>5a, <1>a DEF AllocateStartId, pendVars
<1>6. CASE ReadCompletedParts(s)
  BY <1>6, <1>a DEF ReadCompletedParts, pendVars
<1>7. CASE SelectPart(s)
  BY <1>7, <1>a DEF SelectPart, pendVars
<1>8. CASE InsertPart(s)
  BY <1>8, <1>a DEF InsertPart
<1>9. CASE ReclaimPart(s)
  BY <1>9, <1>a DEF ReclaimPart
<1>10. CASE LoadPart(s)
  BY <1>10, <1>a DEF LoadPart
<1>11. CASE CompletePart(s)
  <2>1. CASE SeenPart(s, part[s]).status = "STARTED"
    BY <1>11, <2>1, <1>a DEF CompletePart, CommitWith, EndTransaction
  <2>2. CASE SeenPart(s, part[s]).status # "STARTED"
    BY <1>11, <2>2, <1>a DEF CompletePart, pendVars
  <2>. QED BY <2>1, <2>2
<1>12. CASE HeartbeatBatch(s)
  BY <1>12, <1>a DEF HeartbeatBatch, pendVars
<1>13. CASE FailPart(s)
  BY <1>13, <1>a DEF FailPart
<1>14. CASE Reconcile(s)
  BY <1>14, <1>a DEF Reconcile, pendVars
<1>15. CASE CheckQuality(s)
  BY <1>15, <1>a DEF CheckQuality
<1>16. CASE CompleteBatch(s)
  BY <1>16, <1>a DEF CompleteBatch, WriteBatch
<1>17. CASE Return(s)
  BY <1>17, <1>a DEF Return, CommitWith, EndTransaction, Leave
<1>18. CASE Rollback(s)
  BY <1>18, <1>a DEF Rollback, EndTransaction
<1>19. CASE FailBatch(s)
  BY <1>19, <1>a, <1>o DEF FailBatch, WriteBatch, Leave, SessionInv
<1>20. CASE Fault(s)
  BY <1>20, <1>a DEF Fault, pendVars
<1>21. CASE Crash(s)
  BY <1>21, <1>a DEF Crash, EndTransaction, Leave
<1>. QED BY <1>1, <1>2, <1>3, <1>4, <1>5, <1>5a, <1>6, <1>7, <1>8, <1>9, <1>10, <1>11,
            <1>12, <1>13, <1>14, <1>15, <1>16, <1>17, <1>18, <1>19, <1>20, <1>21
         DEF SessionNext, Step

\* While a session allocates ids for a batch nobody else registers its part 1.
LEMMA AllocationUndisturbed ==
    ASSUME IInv, NEW s \in Sessions, SessionNext(s), NEW t \in Sessions \ {s},
           pc[t] = "allocate"
    PROVE  parts'[job[t]][1].status = "ABSENT"
<1>a. /\ TypeOK /\ SessionInv(s) /\ SessionInv(t) /\ PartInv(s) /\ ClaimInv(s) /\ ClaimInv(t)
      /\ 1 \in Parts /\ job[t] \in Batches /\ parts[job[t]][1].status = "ABSENT"
  BY RangeFacts DEF IInv, SessionInv, ClaimInv
<1>1. RowChange(s, job[t], 1)
  BY <1>a, RowsStep
<1>2. ASSUME 1 = part[s], pc[s] \in {"insert", "reclaim"}, ~open[s]
      PROVE  FALSE
  BY <1>2, <1>a DEF SessionInv, BeforeLoad
<1>3. ASSUME job[t] = job[s], 1 = part[s], pc[s] = "failPart", ~open[s]
      PROVE  FALSE
  <2>1. SeenPart(s, 1) = parts[job[t]][1]
    BY <1>3, <1>a DEF SessionInv, NoPartWrites, SeenPart, Seen
  <2>. QED BY <1>3, <2>1, <1>a DEF PartInv
<1>4. ASSUME job[t] = job[s], pc[s] = "complete"
      PROVE  FALSE
  BY <1>4, <1>a DEF ClaimInv, Planned
<1>. QED BY <1>1, <1>2, <1>3, <1>4, <1>a DEF RowChange

LEMMA ClaimKept ==
    ASSUME IInv, NEW s \in Sessions, SessionNext(s), NEW t \in Sessions
    PROVE  ClaimInv(t)'
<1>a. /\ TypeOK /\ TypeOK' /\ SessionInv(s)' /\ SessionInv(t)' /\ 1 \in Parts
      /\ \A u \in Sessions : SessionInv(u) /\ ClaimInv(u)
  BY TypeStep, SessionStep, OthersKeep, RangeFacts DEF IInv
<1>b. \A u \in Sessions \ {s} : Same(u)
  BY <1>a, OthersStay
<1>c. BatchChange(s) /\ ClaimFlow(s)
  BY ClaimStep
<1>r. \A b \in Batches : parts[b][1].status # "ABSENT" => parts'[b][1].status # "ABSENT"
  BY <1>a, RegisteredStays
\* No two sessions hold the same batch.
<1>1. ASSUME NEW u \in Sessions \ {s}, job'[u] = job'[s]
      PROVE  pendBatch'[s] = NoWrite \/ pendBatch'[u] = NoWrite
  BY <1>1, <1>a, <1>b, <1>c DEF BatchChange, BatchLocked, Same, ClaimInv
<1>2. ASSUME NEW u \in Sessions \ {t}, job'[u] = job'[t]
      PROVE  pendBatch'[t] = NoWrite \/ pendBatch'[u] = NoWrite
  BY <1>2, <1>1, <1>a, <1>b DEF Same, ClaimInv
<1>3. CASE t # s
  <2>1. Same(t) /\ SessionInv(t) /\ ClaimInv(t)
    BY <1>3, <1>a, <1>b
  <2>2. pc[t] \in {"start", "allocate"} \cup Planned => job[t] \in Batches
    BY <2>1 DEF SessionInv, Planned
  <2>3. pc[t] = "allocate" => parts'[job[t]][1].status = "ABSENT"
    BY <1>3, AllocationUndisturbed
  <2>. QED BY <2>1, <2>2, <2>3, <1>2, <1>r DEF ClaimInv, Same
<1>4. CASE t = s
  <2>. SUFFICES /\ pc'[s] \in Claiming => open'[s]
                /\ pc'[s] \in {"start", "allocate"} \cup Planned
                   /\ parts'[job'[s]][1].status = "ABSENT" => pendBatch'[s] # NoWrite
                /\ pc'[s] = "allocate" => parts'[job'[s]][1].status = "ABSENT"
    BY <1>4, <1>2 DEF ClaimInv
  <2>. USE DEF Claiming, Planned
  <2>1. CASE pc'[s] \notin Claiming \cup {"start", "allocate"} \cup Planned
    BY <2>1
  <2>2. CASE pc'[s] \in Claiming /\ open'[s]
    BY <2>2
  <2>3. CASE pc'[s] = "start" /\ pendBatch'[s] # NoWrite
    BY <2>3
  <2>4. CASE /\ pc'[s] \in Planned /\ pc[s] \in {"start", "allocate"} \cup Planned
             /\ pendBatch'[s] = pendBatch[s] /\ job'[s] = job[s]
    <3>1. job[s] \in Batches
      BY <2>4, <1>a DEF SessionInv
    <3>. QED BY <3>1, <2>4, <1>a, <1>r DEF ClaimInv
  <2>5. CASE /\ pc'[s] = "allocate" /\ pc[s] = "start" /\ SeenPart(s, 1).status = "ABSENT"
             /\ pendBatch'[s] = pendBatch[s] /\ job'[s] = job[s] /\ parts' = parts
    <3>1. SeenPart(s, 1) = parts[job[s]][1]
      BY <2>5, <1>a DEF IInv, PartInv, HoldsParts, SeenPart, Seen
    <3>. QED BY <3>1, <2>5, <1>a DEF ClaimInv
  <2>6. CASE pc'[s] = "heartbeat" /\ pc[s] = "complete"
    <3>1. /\ job[s] \in Batches /\ job'[s] = job[s]
          /\ pendOrders[s] \subseteq orders'[job[s]]
      BY <2>6, <1>a, FlowStep DEF Flow, SessionInv, BeforeLoad
    <3>2. start[s] \in orders[job[s]] \cup pendOrders[s] /\ orders[job[s]] \subseteq orders'[job[s]]
      BY <2>6, <3>1, OrdersGrow DEF IInv, LoadedInv
    <3>3. parts'[job[s]][1].status # "ABSENT"
      BY <3>1, <3>2, PinnedKept
    <3>. QED BY <3>1, <3>3, <2>6
  <2>. QED BY <1>c, <2>1, <2>2, <2>3, <2>4, <2>5, <2>6 DEF ClaimFlow
<1>. QED BY <1>3, <1>4

-----------------------------------------------------------------------------
(* The theorems.                                                           *)

LEMMA IInvInit ==
    ASSUME RunnerCalls, Init
    PROVE  IInv
<1>1. TypeOK
  <2>1. [status |-> "ABSENT", attempts |-> 0] \in BatchRow
    BY ConfigAssumption DEF BatchRow, BatchStatus
  <2>2. [status |-> "ABSENT", start |-> 0] \in PartRow
    BY DEF PartRow, BatchStatus
  <2>3. NoPartWrites \in [Parts -> PartRow \cup {NoWrite}] /\ NothingCounted \in [Parts -> Nat]
    BY DEF NoPartWrites, NothingCounted
  <2>4. 1 \in 1..(NumParts + 1)
    BY PartsFacts
  <2>. QED BY <2>1, <2>2, <2>3, <2>4 DEF Init, TypeOK, Labels
<1>2. CommittedOrders = {}
  BY DEF Init, CommittedOrders
<1>3. Contiguous
  <2>1. 1..0 = {} /\ 0 \in Nat
    OBVIOUS
  <2>. QED BY <1>2, <2>1 DEF Contiguous
<1>4. ASSUME NEW s \in Sessions
      PROVE  SessionInv(s) /\ ClaimInv(s) /\ PartInv(s) /\ PendingInv(s)
  BY DEF Init, SessionInv, ClaimInv, PartInv, PendingInv, NoPartWrites, BeforeLoad, OnPart,
     Claiming, Planned
<1>5. ASSUME NEW s \in Sessions
      PROVE  StartInv(s) /\ PendingPinInv(s) /\ PrecedingInv(s) /\ LoadedInv(s)
  BY RangeFacts DEF Init, StartInv, PendingPinInv, PrecedingInv, LoadedInv, NoPartWrites,
     BeforeLoad, Planned
<1>6. \A b \in Batches : PinInv(b) /\ CompletedInv(b)
  BY RangeFacts DEF Init, PinInv, PinOK, CompletedInv
<1>7. PinnedWithData /\ NeverLoadedTwice
  BY RangeFacts DEF Init, PinnedWithData, NeverLoadedTwice
<1>. QED BY <1>1, <1>3, <1>4, <1>5, <1>6, <1>7 DEF IInv

LEMMA NextIsSessionNext == Next => \E s \in Sessions : SessionNext(s)
BY DEF Next, SessionNext

LEMMA IInvStep == IInv /\ [Next]_vars => IInv'
<1>. SUFFICES ASSUME IInv, [Next]_vars PROVE IInv'
  OBVIOUS
<1>1. ASSUME NEW s \in Sessions, SessionNext(s)
      PROVE  IInv'
  <2>1. TypeOK'
    BY <1>1, TypeStep
  <2>2. Contiguous'
    BY <1>1, OrdersGrow
  <2>3. ASSUME NEW t \in Sessions
        PROVE  SessionInv(t)' /\ PartInv(t)'
    BY <1>1, SessionStep, PartStep, OthersKeep
  <2>c. \A t \in Sessions : ClaimInv(t)'
    BY <1>1, ClaimKept
  <2>4. \A t \in Sessions :
           PendingInv(t)' /\ StartInv(t)' /\ PendingPinInv(t)' /\ PrecedingInv(t)' /\ LoadedInv(t)'
    BY <1>1, PendingKept, StartKept, PendingPinKept, PrecedingKept, LoadedKept
  <2>5. \A b \in Batches : PinInv(b)' /\ CompletedInv(b)'
    BY <1>1, PinKept, CompletedKept
  <2>6. PinnedWithData'
    BY <1>1, PinnedKept DEF PinnedWithData
  <2>7. NeverLoadedTwice'
    BY <1>1, NeverTwiceKept DEF NeverLoadedTwice
  <2>. QED BY <2>1, <2>2, <2>3, <2>c, <2>4, <2>5, <2>6, <2>7 DEF IInv, RunnerCalls
<1>2. CASE UNCHANGED vars
  <2>. USE <1>2 DEF vars, dbVars, pendVars, localVars
  <2>1. CommittedOrders' = CommittedOrders
    BY DEF CommittedOrders
  <2>2. TypeOK' /\ Contiguous' /\ PinnedWithData' /\ NeverLoadedTwice'
    BY <2>1 DEF IInv, TypeOK, Contiguous, PinnedWithData, NeverLoadedTwice
  <2>3. ASSUME NEW t \in Sessions
        PROVE  SessionInv(t)' /\ ClaimInv(t)' /\ PartInv(t)'
    BY DEF IInv, SessionInv, ClaimInv, PartInv, SeenPart
  <2>4. ASSUME NEW t \in Sessions
        PROVE  PendingInv(t)' /\ StartInv(t)' /\ LoadedInv(t)'
    BY <2>1 DEF IInv, PendingInv, StartInv, LoadedInv, Reached, PartIds
  <2>5. ASSUME NEW t \in Sessions
        PROVE  PendingPinInv(t)' /\ PrecedingInv(t)'
    BY <2>1 DEF IInv, PendingPinInv, PinOK, PrecedingInv, Reached
  <2>6. ASSUME NEW b \in Batches
        PROVE  PinInv(b)' /\ CompletedInv(b)'
    BY <2>1 DEF IInv, PinInv, PinOK, CompletedInv, Reached
  <2>. QED BY <2>2, <2>3, <2>4, <2>5, <2>6 DEF IInv, RunnerCalls
<1>. QED BY <1>1, <1>2, NextIsSessionNext

\* IInv is an invariant of run_transaction_ingestion as the pipeline runner
\* calls it, whatever the number of sessions, batches and parts.
THEOREM Inductive ==
    ASSUME RunnerCalls
    PROVE  Spec => []IInv
<1>1. Init => IInv
  BY IInvInit
<1>. QED BY <1>1, IInvStep, PTL DEF Spec

\* Every table and every session has values of its type: in particular
\* attempt_count never exceeds max_attempts.
THEOREM TypeCorrect ==
    ASSUME RunnerCalls
    PROVE  Spec => []TypeOK
<1>1. IInv => TypeOK
  BY DEF IInv
<1>. QED BY <1>1, Inductive, PTL

\* Committed order ids have no holes, however loads fail, race and are retried.
THEOREM OrderIdsHaveNoHoles ==
    ASSUME RunnerCalls
    PROVE  Spec => []NoHoles
<1>1. IInv => NoHoles
  BY DEF IInv, Contiguous, NoHoles
<1>. QED BY <1>1, Inductive, PTL

\* Orders become visible in the order of their ids, which the order_id
\* watermark of the analytics build needs.
THEOREM OrdersAscend ==
    ASSUME RunnerCalls
    PROVE  Spec => CommitsAscend
<1>1. IInv /\ [Next]_vars =>
        [\A i \in CommittedOrders' \ CommittedOrders : \A j \in CommittedOrders : j < i]_vars
  BY NextIsSessionNext, OrdersGrow
<1>. QED BY <1>1, Inductive, PTL DEF Spec, CommitsAscend

\* A retry loads no order of the batch under a second id.
THEOREM OrdersLoadOnce ==
    ASSUME RunnerCalls
    PROVE  Spec => []NeverLoadedTwice
<1>1. IInv => NeverLoadedTwice
  BY DEF IInv
<1>. QED BY <1>1, Inductive, PTL

\* The start ids that part 1 pins are never those of a lost load.
THEOREM PinsHaveData ==
    ASSUME RunnerCalls
    PROVE  Spec => []PinnedWithData
<1>1. IInv => PinnedWithData
  BY DEF IInv
<1>. QED BY <1>1, Inductive, PTL
=============================================================================
