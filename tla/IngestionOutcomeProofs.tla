----------------------- MODULE IngestionOutcomeProofs -----------------------
(***************************************************************************)
(* TLAPS proofs about how a batch of TransactionIngestion ends, and about  *)
(* its order items, on top of the invariant of TransactionIngestionProofs  *)
(* and for the same callers.                                               *)
(*                                                                         *)
(* The argument.  Once part 1 is registered, every attempt of the batch    *)
(* plans from the start that part 1 pins, so the rows of all attempts      *)
(* agree on where a part begins.  A session that gets past part k, by      *)
(* loading it or by skipping it, therefore knows its own range for part k  *)
(* to be loaded; behind the last part the batch is whole.  The completion  *)
(* and its verdict wait for the caller's commit as one transaction that    *)
(* locks the row of the batch.                                             *)
(*                                                                         *)
(* The second half adds the items of OrderItems.  A session that goes on   *)
(* with a stale item id has a stale order id too, because it reads the     *)
(* order id first: its load collides on the orders.  Whoever loads has the *)
(* item id that follows the items of the orders before its first one.      *)
(***************************************************************************)
EXTENDS OrderItems, TransactionIngestionProofs, NumberSets, FiniteSetTheorems

-----------------------------------------------------------------------------
(* The inductive invariant, next to IInv.                                  *)

\* Every attempt starts where part 1 is registered, and every row of the batch
\* says where its part starts from there.
StartsAgree(s) ==
    pc[s] \in Planned /\ parts[job[s]][1].status # "ABSENT" =>
        start[s] = parts[job[s]][1].start
PendingStarts(s) ==
    pc[s] \in Planned => \A k \in Parts :
        pendPart[s][k] # NoWrite => pendPart[s][k].start = start[s] + Offset(k)
RowsAgree(b) ==
    \A k \in Parts : parts[b][k].status # "ABSENT" =>
        /\ parts[b][1].status # "ABSENT"
        /\ parts[b][k].start = parts[b][1].start + Offset(k)

\* The parts a session has passed are loaded.
PassedInv(s) ==
    pc[s] \in Planned => \A k \in Parts :
        k < part[s] => PartIds(s, k) \subseteq orders[job[s]]

\* The session's transaction completes its batch.
Completes(s) == pendBatch[s] # NoWrite /\ pendBatch[s].status = "COMPLETED"

\* A verdict waits in the transaction that completes the batch, or is dropped.
ClosingInv(s) ==
    /\ pc[s] \in {"quality", "finish"} => open[s] /\ BatchIds(s) \subseteq orders[job[s]]
    /\ pendQuality[s] # {} => pc[s] \in {"finish", "returned", "rollback"}
    /\ pc[s] = "finish" => pendQuality[s] = {TRUE}
    /\ pc[s] = "returned" /\ pendQuality[s] # {} => Completes(s)
    /\ Completes(s) => /\ pc[s] = "returned" /\ pendQuality[s] = {TRUE}
                       /\ BatchIds(s) \subseteq orders[job[s]]

\* Only a batch that is not completed has a pending row.
BatchInv(s) ==
    /\ pc[s] = "out" => job[s] = NoBatch
    /\ pc[s] \in Claiming => pendBatch[s] = NoWrite
    /\ pendBatch[s] # NoWrite => batches[job[s]].status # "COMPLETED"

WholeInv(b) ==
    batches[b].status = "COMPLETED" =>
        /\ TRUE \in quality[b]
        /\ \E n \in Nat : orders[b] = n..(n + Orders - 1)

OutcomeInv ==
    /\ IInv
    /\ \A s \in Sessions : /\ StartsAgree(s) /\ PendingStarts(s) /\ PassedInv(s)
                           /\ ClosingInv(s) /\ BatchInv(s)
    /\ \A b \in Batches : RowsAgree(b) /\ WholeInv(b)
    /\ CompletedPartIsLoaded
    /\ VerdictComesWithCompletion

-----------------------------------------------------------------------------
(* What a step does to batch rows and verdicts.                            *)

\* A batch's row changes when its session fails it in a statement of its own, or
\* commits what it has pending.
BatchRowChange(s, b) ==
    \/ batches'[b] = batches[b]
    \/ /\ b = job[s] /\ pc[s] = "failBatch" /\ pendBatch'[s] = NoWrite
       /\ ~BatchLocked(s) /\ batches[b].status = "STARTED"
       /\ batches'[b].status = "FAILED"
    \/ /\ b = job[s] /\ pc[s] \in {"complete", "returned"} /\ pendBatch'[s] = NoWrite
       /\ pendBatch[s] # NoWrite /\ batches'[b] = pendBatch[s]
       /\ quality'[b] = quality[b] \cup pendQuality[s]

LEMMA BatchRowStep ==
    ASSUME OutcomeInv, NEW s \in Sessions, SessionNext(s), NEW b \in Batches
    PROVE  BatchRowChange(s, b)
<1>a. TypeOK /\ SessionInv(s) /\ ClaimInv(s) /\ ClosingInv(s)
  BY DEF OutcomeInv, IInv
<1>b. batches' = batches => BatchRowChange(s, b)
  BY DEF BatchRowChange
<1>1. ASSUME NEW c \in Batches, NEW inTx \in CallerInTx, Call(s, c, inTx)
      PROVE  BatchRowChange(s, b)
  BY <1>1, <1>b DEF Call, dbVars
<1>2. CASE StartBatch(s)
  BY <1>2, <1>a, <1>b DEF StartBatch, WriteBatch, ClaimInv, Claiming
<1>3. CASE InspectBatch(s)
  BY <1>3, <1>b DEF InspectBatch, dbVars
<1>4. CASE RetryFailedBatch(s)
  BY <1>4, <1>a, <1>b DEF RetryFailedBatch, WriteBatch, ClaimInv, Claiming, dbVars
<1>5. CASE ReadStartIds(s) \/ AllocateStartId(s) \/ ReadCompletedParts(s) \/ SelectPart(s)
  BY <1>5, <1>b DEF ReadStartIds, AllocateStartId, ReadCompletedParts, SelectPart, dbVars
<1>6. CASE InsertPart(s) \/ ReclaimPart(s) \/ LoadPart(s) \/ HeartbeatBatch(s) \/ FailPart(s)
  BY <1>6, <1>b DEF InsertPart, ReclaimPart, LoadPart, HeartbeatBatch, FailPart, dbVars
<1>7. CASE Reconcile(s) \/ CheckQuality(s) \/ Rollback(s) \/ Fault(s) \/ Crash(s)
  BY <1>7, <1>b DEF Reconcile, CheckQuality, Rollback, Fault, Crash, dbVars
<1>8. CASE CompleteBatch(s)
  BY <1>8, <1>a, <1>b DEF CompleteBatch, WriteBatch, ClosingInv
<1>9. CASE FailBatch(s)
  <2>1. ~open[s] /\ pendBatch[s] = NoWrite /\ job[s] \in Batches
    BY <1>9, <1>a DEF FailBatch, SessionInv
  <2>2. SeenBatch(s) = batches[job[s]]
    BY <2>1 DEF SeenBatch, Seen
  <2>3. CASE MayFail(SeenBatch(s))
    <3>1. /\ pc[s] = "failBatch" /\ ~BatchLocked(s) /\ UNCHANGED pendBatch
          /\ batches' = [batches EXCEPT ![job[s]] = [batches[job[s]] EXCEPT !.status = "FAILED"]]
      BY <1>9, <2>1, <2>2, <2>3 DEF FailBatch, WriteBatch
    <3>2. b # job[s] => batches'[b] = batches[b]
      BY <3>1, <1>a DEF TypeOK
    <3>3. batches'[job[s]] = [batches[job[s]] EXCEPT !.status = "FAILED"]
          /\ batches[job[s]] \in BatchRow
      BY <2>1, <3>1, <1>a DEF TypeOK
    <3>4. batches'[job[s]].status = "FAILED"
      BY <3>3 DEF BatchRow
    <3>. QED  BY <2>1, <2>2, <2>3, <3>1, <3>2, <3>4 DEF BatchRowChange, MayFail
  <2>4. CASE ~MayFail(SeenBatch(s))
    BY <1>9, <2>4, <1>b DEF FailBatch
  <2>. QED  BY <2>3, <2>4
<1>10. ASSUME pc[s] \in {"complete", "returned"}, NEW writes, CommitWith(s, writes)
       PROVE  BatchRowChange(s, b)
  <2>1. job[s] \in Batches
    BY <1>10, <1>a DEF SessionInv
  <2>2. pendBatch'[s] = NoWrite
    BY <1>10, <1>a DEF CommitWith, EndTransaction, TypeOK
  <2>3. batches' = [batches EXCEPT ![job[s]] = SeenBatch(s)]
    BY <1>10 DEF CommitWith
  <2>4. b # job[s] => batches'[b] = batches[b]
    BY <2>3, <1>a DEF TypeOK
  <2>5. b = job[s] => batches'[b] = Seen(pendBatch[s], batches[b])
    BY <2>3, <1>a DEF TypeOK, SeenBatch
  <2>6. b = job[s] => quality'[b] = quality[b] \cup pendQuality[s]
    BY <1>10, <1>a DEF CommitWith, TypeOK
  <2>. QED  BY <1>10, <2>2, <2>4, <2>5, <2>6 DEF Seen, BatchRowChange
<1>11. CASE CompletePart(s)
  BY <1>11, <1>10, <1>b DEF CompletePart, dbVars
<1>12. CASE Return(s)
  BY <1>12, <1>10 DEF Return
<1>. QED
  BY <1>1, <1>2, <1>3, <1>4, <1>5, <1>6, <1>7, <1>8, <1>9, <1>11, <1>12 DEF SessionNext, Step

\* A step drops the pending row of the session's batch, keeps it, starts an
\* attempt, or completes a batch that is STARTED.
PendingBatchChange(s) ==
    /\ pc'[s] = "out" => job'[s] = NoBatch
    /\ pc'[s] \in Claiming => pendBatch'[s] = NoWrite
    /\ \/ pendBatch'[s] = NoWrite
       \/ /\ pendBatch'[s] = pendBatch[s] /\ job'[s] = job[s]
          /\ batches' = batches \/ pendBatch'[s] = NoWrite
          /\ pc[s] # "returned"
       \/ /\ pc[s] \in Claiming \cup {"finish"} /\ ~BatchLocked(s)
          /\ SeenBatch(s).status # "COMPLETED"
          /\ job'[s] = job[s] /\ batches' = batches
          /\ pc[s] \in Claiming => pendBatch'[s].status = "STARTED"

LEMMA PendingBatchStep ==
    ASSUME OutcomeInv, NEW s \in Sessions, SessionNext(s)
    PROVE  PendingBatchChange(s)
<1>a. TypeOK /\ SessionInv(s) /\ ClaimInv(s) /\ ClosingInv(s) /\ BatchInv(s)
  BY DEF OutcomeInv, IInv
<1>. USE DEF PendingBatchChange, Claiming
<1>e. EndTransaction(s) => pendBatch'[s] = NoWrite
  BY <1>a DEF EndTransaction, TypeOK
<1>l. Leave(s) => pc'[s] = "out" /\ job'[s] = NoBatch
  BY <1>a DEF Leave, Goto, TypeOK
<1>g. ASSUME NEW l \in Labels, Goto(s, l)
      PROVE  pc'[s] = l
  BY <1>g, <1>a DEF Goto, TypeOK
<1>k. ASSUME UNCHANGED <<batches, pendBatch, job>>, pc'[s] \notin {"out"} \cup Claiming,
             pc[s] # "returned"
      PROVE  PendingBatchChange(s)
  BY <1>k
<1>w. ASSUME NEW row, WriteBatch(s, row), open[s]
      PROVE  batches' = batches /\ pendBatch'[s] = row
  BY <1>w, <1>a DEF WriteBatch, TypeOK
<1>1. ASSUME NEW c \in Batches, NEW inTx \in CallerInTx, Call(s, c, inTx)
      PROVE  PendingBatchChange(s)
  <2>1. pendBatch'[s] = NoWrite
    BY <1>1, <1>a DEF Call, SessionInv, pendVars
  <2>2. pc'[s] = "claim"
    BY <1>1, <1>g DEF Call, Labels
  <2>. QED  BY <2>1, <2>2
<1>2. CASE StartBatch(s)
  <2>1. CASE SeenBatch(s).status = "ABSENT"
    <3>1. /\ open[s] /\ WriteBatch(s, [status |-> "STARTED", attempts |-> 1]) /\ Goto(s, "start")
          /\ UNCHANGED job /\ pc[s] = "claim" /\ ~BatchLocked(s)
      BY <1>2, <2>1, <1>a DEF StartBatch, ClaimInv
    <3>2. pc'[s] = "start"
      BY <3>1, <1>g DEF Labels
    <3>. QED  BY <3>1, <3>2, <2>1, <1>w
  <2>2. CASE SeenBatch(s).status # "ABSENT"
    <3>1. pc'[s] = "inspect" /\ UNCHANGED <<batches, pendBatch, job>> /\ pc[s] = "claim"
      BY <1>2, <2>2, <1>g DEF StartBatch, Labels
    <3>. QED  BY <3>1, <1>a DEF BatchInv
  <2>. QED  BY <2>1, <2>2
<1>3. CASE InspectBatch(s)
  <2>1. pendBatch[s] = NoWrite
    BY <1>3, <1>a DEF InspectBatch, BatchInv
  <2>2. CASE EndTransaction(s) /\ Leave(s)
    BY <2>2, <1>e, <1>l
  <2>3. CASE UNCHANGED <<pendVars, job>> /\ Goto(s, IF SeenBatch(s).status = "FAILED" THEN "retry" ELSE "returned")
    <3>1. pc'[s] \in {"retry", "returned"}
      BY <2>3, <1>g DEF Labels
    <3>. QED  BY <2>1, <2>3, <3>1 DEF pendVars
  <2>. QED  BY <1>3, <2>2, <2>3 DEF InspectBatch
<1>4. CASE RetryFailedBatch(s)
  <2>1. CASE MayRetry(SeenBatch(s))
    <3>1. /\ open[s] /\ Goto(s, "start")
          /\ WriteBatch(s, [status |-> "STARTED", attempts |-> SeenBatch(s).attempts + 1])
          /\ UNCHANGED job /\ pc[s] = "retry" /\ ~BatchLocked(s)
      BY <1>4, <2>1, <1>a DEF RetryFailedBatch, ClaimInv
    <3>2. pc'[s] = "start"
      BY <3>1, <1>g DEF Labels
    <3>. QED  BY <3>1, <3>2, <2>1, <1>w DEF MayRetry
  <2>2. CASE ~MayRetry(SeenBatch(s))
    BY <1>4, <2>2, <1>e, <1>l DEF RetryFailedBatch
  <2>. QED  BY <2>1, <2>2
<1>5. CASE ReadStartIds(s) \/ AllocateStartId(s) \/ ReadCompletedParts(s) \/ SelectPart(s)
  <2>1. UNCHANGED <<batches, pendBatch, job>> /\ pc[s] # "returned"
    BY <1>5 DEF ReadStartIds, AllocateStartId, ReadCompletedParts, SelectPart, dbVars, pendVars
  <2>2. pc'[s] \in {"allocate", "resume", "part", "insert", "reclaim"}
    BY <1>5, <1>g DEF ReadStartIds, AllocateStartId, ReadCompletedParts, SelectPart, Labels
  <2>. QED  BY <2>1, <2>2, <1>k
<1>6. CASE InsertPart(s) \/ ReclaimPart(s) \/ LoadPart(s) \/ HeartbeatBatch(s) \/ FailPart(s)
  <2>1. UNCHANGED <<batches, pendBatch, job>> /\ pc[s] # "returned"
    BY <1>6 DEF InsertPart, ReclaimPart, LoadPart, HeartbeatBatch, FailPart, dbVars, pendVars
  <2>2. pc'[s] \in {"load", "rollback", "failPart", "complete", "part"}
    BY <1>6, <1>g DEF InsertPart, ReclaimPart, LoadPart, HeartbeatBatch, FailPart, Labels
  <2>. QED  BY <2>1, <2>2, <1>k
<1>7. CASE Reconcile(s) \/ CheckQuality(s) \/ Fault(s)
  <2>1. UNCHANGED <<batches, pendBatch, job>> /\ pc[s] # "returned"
    BY <1>7 DEF Reconcile, CheckQuality, Fault, dbVars, pendVars
  <2>2. pc'[s] \in {"quality", "rollback", "finish", "failPart"}
    BY <1>7, <1>g DEF Reconcile, CheckQuality, Fault, Labels
  <2>. QED  BY <2>1, <2>2, <1>k
<1>8. CASE CompleteBatch(s)
  <2>1. CASE SeenBatch(s).status = "STARTED"
    <3>1. /\ open[s] /\ WriteBatch(s, [SeenBatch(s) EXCEPT !.status = "COMPLETED"])
          /\ Goto(s, "returned") /\ UNCHANGED job /\ pc[s] = "finish" /\ ~BatchLocked(s)
      BY <1>8, <2>1, <1>a DEF CompleteBatch, ClosingInv
    <3>2. pc'[s] = "returned"
      BY <3>1, <1>g DEF Labels
    <3>. QED  BY <3>1, <3>2, <2>1, <1>w
  <2>2. CASE SeenBatch(s).status # "STARTED"
    <3>1. pc'[s] = "rollback" /\ UNCHANGED <<batches, pendBatch, job>> /\ pc[s] = "finish"
      BY <1>8, <2>2, <1>g DEF CompleteBatch, Labels
    <3>. QED  BY <3>1, <1>k
  <2>. QED  BY <2>1, <2>2
<1>9. CASE FailBatch(s)
  <2>1. ~open[s] /\ pendBatch[s] = NoWrite
    BY <1>9, <1>a DEF FailBatch, SessionInv
  <2>2. UNCHANGED pendBatch /\ Leave(s)
    BY <1>9, <2>1 DEF FailBatch, WriteBatch
  <2>. QED  BY <2>1, <2>2, <1>l
<1>10. CASE CompletePart(s)
  <2>1. CASE SeenPart(s, part[s]).status = "STARTED"
    <3>1. EndTransaction(s) /\ Goto(s, "heartbeat")
      BY <1>10, <2>1 DEF CompletePart, CommitWith
    <3>2. pc'[s] = "heartbeat"
      BY <3>1, <1>g DEF Labels
    <3>. QED  BY <3>1, <3>2, <1>e
  <2>2. CASE SeenPart(s, part[s]).status # "STARTED"
    <3>1. pc'[s] = "failPart" /\ UNCHANGED <<batches, pendBatch, job>> /\ pc[s] = "complete"
      BY <1>10, <2>2, <1>g DEF CompletePart, Labels, dbVars, pendVars
    <3>. QED  BY <3>1, <1>k
  <2>. QED  BY <2>1, <2>2
<1>11. CASE Return(s) \/ Crash(s)
  <2>1. EndTransaction(s) /\ Leave(s)
    BY <1>11 DEF Return, CommitWith, Crash
  <2>. QED  BY <2>1, <1>e, <1>l
<1>12. CASE Rollback(s)
  <2>1. pc'[s] = "failBatch" /\ EndTransaction(s)
    BY <1>12, <1>g DEF Rollback, Labels
  <2>. QED  BY <2>1, <1>e
<1>. QED
  BY <1>1, <1>2, <1>3, <1>4, <1>5, <1>6, <1>7, <1>8, <1>9, <1>10, <1>11, <1>12
  DEF SessionNext, Step

\* What a step does to the session's verdict: it has none before and after, the
\* batch is found whole, checked, completed or committed, or the verdict goes
\* into the rollback.
ClosingChange(s) ==
    \/ /\ pendQuality'[s] = {} /\ pc'[s] \notin {"quality", "finish"}
       /\ ~Completes(s)' /\ quality' = quality
    \/ /\ pc[s] = "part" /\ part[s] \notin Parts /\ pc'[s] = "quality" /\ open'[s]
       /\ pendQuality'[s] = {} /\ ~Completes(s)'
       /\ UNCHANGED <<orders, quality, job, start>>
    \/ /\ pc[s] = "quality" /\ pc'[s] = "finish"
       /\ pendQuality'[s] = {TRUE} /\ ~Completes(s)'
       /\ UNCHANGED <<orders, quality, open, job, start>>
    \/ /\ pc[s] \in {"quality", "finish"} /\ pc'[s] = "rollback"
       /\ ~Completes(s)' /\ quality' = quality
    \/ /\ pc[s] = "finish" /\ pc'[s] = "returned"
       /\ pendQuality'[s] = pendQuality[s] /\ Completes(s)'
       /\ UNCHANGED <<orders, quality, job, start>>
    \/ /\ pc[s] = "returned" /\ Completes(s) /\ pc'[s] = "out"
       /\ pendQuality'[s] = {} /\ ~Completes(s)'
       /\ quality' = [quality EXCEPT ![job[s]] = @ \cup {TRUE}]
       /\ batches'[job[s]] = pendBatch[s]

LEMMA ClosingStep ==
    ASSUME OutcomeInv, NEW s \in Sessions, SessionNext(s)
    PROVE  ClosingChange(s)
<1>a. TypeOK /\ SessionInv(s) /\ ClosingInv(s)
  BY DEF OutcomeInv, IInv
<1>. USE DEF ClosingChange
<1>c. pc[s] # "finish" => ~Completes(s)'
  BY <1>a, PendingBatchStep DEF PendingBatchChange, ClosingInv, Completes, Claiming
<1>e. EndTransaction(s) => pendQuality'[s] = {}
  BY <1>a DEF EndTransaction, TypeOK
<1>g. ASSUME NEW l \in Labels, Goto(s, l)
      PROVE  pc'[s] = l
  BY <1>g, <1>a DEF Goto, TypeOK
<1>l. Leave(s) => pc'[s] = "out"
  BY <1>g DEF Leave, Labels
<1>k. ASSUME pc[s] \notin {"finish", "returned", "rollback"}, UNCHANGED <<quality, pendQuality>>,
             pc'[s] \notin {"quality", "finish"}
      PROVE  ClosingChange(s)
  BY <1>k, <1>a, <1>c DEF ClosingInv
<1>1. ASSUME NEW c \in Batches, NEW inTx \in CallerInTx, Call(s, c, inTx)
      PROVE  ClosingChange(s)
  <2>1. pc'[s] = "claim"
    BY <1>1, <1>g DEF Call, Labels
  <2>. QED  BY <2>1, <1>1, <1>k DEF Call, dbVars, pendVars
<1>2. CASE StartBatch(s)
  <2>1. pc'[s] \in {"start", "inspect"}
    BY <1>2, <1>g DEF StartBatch, Labels
  <2>. QED  BY <2>1, <1>2, <1>k DEF StartBatch
<1>3. CASE InspectBatch(s)
  <2>1. CASE EndTransaction(s) /\ Leave(s)
    BY <1>3, <2>1, <1>c, <1>e, <1>l DEF InspectBatch, dbVars
  <2>2. CASE UNCHANGED pendVars /\ Goto(s, IF SeenBatch(s).status = "FAILED" THEN "retry" ELSE "returned")
    <3>1. pc'[s] \in {"retry", "returned"}
      BY <2>2, <1>g DEF Labels
    <3>. QED  BY <3>1, <1>3, <2>2, <1>k DEF InspectBatch, dbVars, pendVars
  <2>. QED  BY <1>3, <2>1, <2>2 DEF InspectBatch
<1>4. CASE RetryFailedBatch(s)
  <2>1. CASE MayRetry(SeenBatch(s))
    <3>1. pc'[s] = "start"
      BY <1>4, <2>1, <1>g DEF RetryFailedBatch, Labels
    <3>. QED  BY <3>1, <1>4, <2>1, <1>k DEF RetryFailedBatch
  <2>2. CASE ~MayRetry(SeenBatch(s))
    BY <1>4, <2>2, <1>c, <1>e, <1>l DEF RetryFailedBatch, dbVars
  <2>. QED  BY <2>1, <2>2
<1>5. CASE ReadStartIds(s) \/ AllocateStartId(s) \/ ReadCompletedParts(s) \/ SelectPart(s)
  <2>1. pc'[s] \in {"allocate", "resume", "part", "insert", "reclaim"}
    BY <1>5, <1>g DEF ReadStartIds, AllocateStartId, ReadCompletedParts, SelectPart, Labels
  <2>2. UNCHANGED <<quality, pendQuality>> /\ pc[s] \notin {"finish", "returned", "rollback"}
    BY <1>5 DEF ReadStartIds, AllocateStartId, ReadCompletedParts, SelectPart, dbVars, pendVars
  <2>. QED  BY <2>1, <2>2, <1>k
<1>6. CASE InsertPart(s) \/ ReclaimPart(s) \/ LoadPart(s) \/ HeartbeatBatch(s) \/ FailPart(s)
  <2>1. UNCHANGED <<quality, pendQuality>> /\ pc[s] \notin {"finish", "returned", "rollback"}
    BY <1>6 DEF InsertPart, ReclaimPart, LoadPart, HeartbeatBatch, FailPart, dbVars, pendVars
  <2>2. pc'[s] \in {"load", "rollback", "failPart", "complete", "part"}
    BY <1>6, <1>g DEF InsertPart, ReclaimPart, LoadPart, HeartbeatBatch, FailPart, Labels
  <2>. QED  BY <2>1, <2>2, <1>k
<1>7. CASE Reconcile(s)
  <2>1. /\ UNCHANGED <<orders, quality, pendQuality, job, start>>
        /\ pc[s] = "part" /\ part[s] \notin Parts /\ open'[s]
    BY <1>7, <1>a DEF Reconcile, OpenTransaction, dbVars, pendVars, TypeOK
  <2>2. pc'[s] \in {"quality", "rollback"}
    BY <1>7, <1>g DEF Reconcile, Labels
  <2>3. pendQuality[s] = {}
    BY <2>1, <1>a DEF ClosingInv
  <2>. QED  BY <2>1, <2>2, <2>3, <1>c
<1>8. CASE CheckQuality(s)
  <2>1. /\ pc[s] = "quality" /\ UNCHANGED <<orders, quality, open, job, start>>
        /\ pendQuality'[s] = pendQuality[s] \cup {QualityPassed(s)}
        /\ Goto(s, IF QualityPassed(s) THEN "finish" ELSE "rollback")
    BY <1>8, <1>a DEF CheckQuality, dbVars, TypeOK
  <2>2. pendQuality[s] = {} /\ ~Completes(s)'
    BY <2>1, <1>a, <1>c DEF ClosingInv
  <2>3. CASE QualityPassed(s)
    <3>1. pc'[s] = "finish"
      BY <2>1, <2>3, <1>g DEF Labels
    <3>2. QualityPassed(s) = TRUE
      BY <2>3 DEF QualityPassed, OrderCountMatches, ItemCountMatches
    <3>3. pendQuality'[s] = {TRUE}
      <4>. HIDE DEF ClosingChange
      <4>. QED  BY ONLY <2>1, <2>2, <3>2
    <3>. QED  BY <2>1, <2>2, <3>1, <3>3
  <2>4. CASE ~QualityPassed(s)
    <3>1. pc'[s] = "rollback"
      BY <2>1, <2>4, <1>g DEF Labels
    <3>. QED  BY <2>1, <2>2, <3>1
  <2>. QED  BY <2>3, <2>4
<1>9. CASE CompleteBatch(s)
  <2>1. CASE SeenBatch(s).status = "STARTED"
    <3>1. /\ open[s] /\ WriteBatch(s, [SeenBatch(s) EXCEPT !.status = "COMPLETED"])
          /\ Goto(s, "returned") /\ UNCHANGED <<orders, quality, pendQuality, job, start>>
          /\ pc[s] = "finish" /\ job[s] \in Batches
      BY <1>9, <2>1, <1>a DEF CompleteBatch, ClosingInv, SessionInv
    <3>2. pc'[s] = "returned"
      BY <3>1, <1>g DEF Labels
    <3>3. SeenBatch(s) \in BatchRow
      BY <3>1, <1>a, SeenTyped
    <3>4. [SeenBatch(s) EXCEPT !.status = "COMPLETED"] \in BatchRow
      BY <3>3 DEF BatchRow, BatchStatus
    <3>5. pendBatch'[s] = [SeenBatch(s) EXCEPT !.status = "COMPLETED"]
      BY <3>1, <1>a DEF WriteBatch, TypeOK
    <3>6. pendBatch'[s] # NoWrite /\ pendBatch'[s].status = "COMPLETED"
      BY <3>3, <3>4, <3>5, NoWriteAssumption DEF BatchRow
    <3>7. Completes(s)'
      BY <3>6 DEF Completes
    <3>. QED  BY <3>1, <3>2, <3>7
  <2>2. CASE SeenBatch(s).status # "STARTED"
    <3>1. pc'[s] = "rollback" /\ UNCHANGED <<quality, pendBatch>> /\ pc[s] = "finish"
      BY <1>9, <2>2, <1>g DEF CompleteBatch, Labels
    <3>2. ~Completes(s)'
      BY <3>1, <1>a DEF ClosingInv, Completes
    <3>. QED  BY <3>1, <3>2
  <2>. QED  BY <2>1, <2>2
<1>10. CASE CompletePart(s)
  <2>1. CASE SeenPart(s, part[s]).status = "STARTED"
    <3>1. /\ pc[s] = "complete" /\ EndTransaction(s) /\ Goto(s, "heartbeat")
          /\ quality' = [quality EXCEPT ![job[s]] = @ \cup pendQuality[s]]
      BY <1>10, <2>1 DEF CompletePart, CommitWith
    <3>2. pc'[s] = "heartbeat"
      BY <3>1, <1>g DEF Labels
    <3>3. pendQuality[s] = {}
      BY <3>1, <1>a DEF ClosingInv
    <3>4. quality' = quality
      BY <3>1, <3>3, <1>a DEF TypeOK
    <3>. QED  BY <3>1, <3>2, <3>4, <1>c, <1>e
  <2>2. CASE SeenPart(s, part[s]).status # "STARTED"
    <3>1. pc'[s] = "failPart" /\ UNCHANGED <<quality, pendQuality>> /\ pc[s] = "complete"
      BY <1>10, <2>2, <1>g DEF CompletePart, Labels, dbVars, pendVars
    <3>. QED  BY <3>1, <1>k
  <2>. QED  BY <2>1, <2>2
<1>11. CASE Return(s)
  <2>1. /\ pc[s] = "returned" /\ CommitWith(s, pendPart[s]) /\ Leave(s) /\ job[s] \in Batches
    BY <1>11, <1>a DEF Return, SessionInv
  <2>2. pendQuality'[s] = {} /\ pc'[s] = "out" /\ ~Completes(s)'
    BY <2>1, <1>c, <1>e, <1>l DEF CommitWith
  <2>3. quality' = [quality EXCEPT ![job[s]] = @ \cup pendQuality[s]]
    BY <2>1 DEF CommitWith
  <2>4. CASE pendQuality[s] = {}
    <3>1. quality' = quality
      BY <2>3, <2>4, <1>a DEF TypeOK
    <3>. QED  BY <3>1, <2>2
  <2>5. CASE pendQuality[s] # {}
    <3>1. Completes(s) /\ pendQuality[s] = {TRUE}
      BY <2>1, <2>5, <1>a DEF ClosingInv
    <3>2. batches'[job[s]] = pendBatch[s]
      BY <2>1, <3>1, <1>a DEF CommitWith, SeenBatch, Seen, Completes, TypeOK
    <3>3. quality' = [quality EXCEPT ![job[s]] = @ \cup {TRUE}]
      BY <2>3, <3>1
    <3>. QED  BY <2>1, <2>2, <3>1, <3>2, <3>3
  <2>. QED  BY <2>4, <2>5
<1>12. CASE Crash(s)
  <2>1. EndTransaction(s) /\ Leave(s) /\ quality' = quality
    BY <1>12 DEF Crash, dbVars
  <2>2. pendBatch'[s] = NoWrite
    BY <2>1, <1>a DEF EndTransaction, TypeOK
  <2>. QED  BY <2>1, <2>2, <1>e, <1>l DEF Completes
<1>13. CASE Rollback(s)
  <2>1. pc'[s] = "failBatch" /\ EndTransaction(s) /\ quality' = quality /\ pc[s] = "rollback"
    BY <1>13, <1>g DEF Rollback, Labels, dbVars
  <2>. QED  BY <2>1, <1>c, <1>e
<1>14. CASE FailBatch(s)
  <2>1. pc[s] = "failBatch" /\ Leave(s) /\ UNCHANGED <<quality, pendQuality>>
    BY <1>14 DEF FailBatch
  <2>. QED  BY <2>1, <1>l, <1>k
<1>15. CASE Fault(s)
  <2>1. UNCHANGED <<quality, pendBatch, pendQuality>>
    BY <1>15 DEF Fault, dbVars, pendVars
  <2>2. pc'[s] \in {"rollback", "failPart"} /\ pc[s] \notin {"returned", "rollback"}
    BY <1>15, <1>g DEF Fault, Labels
  <2>3. CASE pc[s] = "finish"
    <3>1. pc'[s] = "rollback" /\ ~Completes(s)'
      BY <1>15, <2>1, <2>3, <1>a, <1>g DEF Fault, Labels, ClosingInv, Completes
    <3>. QED  BY <3>1, <2>1, <2>3
  <2>4. CASE pc[s] # "finish"
    BY <2>1, <2>2, <2>4, <1>k
  <2>. QED  BY <2>3, <2>4
<1>. QED
  BY <1>1, <1>2, <1>3, <1>4, <1>5, <1>6, <1>7, <1>8, <1>9, <1>10, <1>11, <1>12, <1>13, <1>14,
     <1>15
  DEF SessionNext, Step

-----------------------------------------------------------------------------
(* Where the parts start.                                                  *)

\* The row a session sees of its part starts where the session plans it.
LEMMA SeenStart ==
    ASSUME OutcomeInv, NEW s \in Sessions, pc[s] \in {"complete", "failPart"}
    PROVE  /\ job[s] \in Batches /\ part[s] \in Parts
           /\ SeenPart(s, part[s]) \in PartRow /\ SeenPart(s, part[s]).status # "ABSENT"
           /\ SeenPart(s, part[s]).start = start[s] + Offset(part[s])
<1>1. /\ TypeOK /\ SessionInv(s) /\ PartInv(s) /\ StartsAgree(s) /\ PendingStarts(s)
  BY DEF OutcomeInv, IInv
<1>2. job[s] \in Batches /\ part[s] \in Parts /\ RowsAgree(job[s])
  BY <1>1 DEF OutcomeInv, SessionInv, OnPart
<1>3. SeenPart(s, part[s]) \in PartRow /\ SeenPart(s, part[s]).status # "ABSENT"
  BY <1>1, <1>2, SeenTyped DEF PartInv
<1>4. CASE pendPart[s][part[s]] # NoWrite
  BY <1>1, <1>2, <1>3, <1>4 DEF SeenPart, Seen, PendingStarts, Planned
<1>5. CASE pendPart[s][part[s]] = NoWrite
  BY <1>1, <1>2, <1>3, <1>5 DEF SeenPart, Seen, RowsAgree, StartsAgree, Planned
<1>. QED  BY <1>2, <1>3, <1>4, <1>5

\* A session that registers or completes a part behind the first one finds part 1
\* registered.
LEMMA FirstIsRegistered ==
    ASSUME OutcomeInv, NEW s \in Sessions, pc[s] \in {"insert", "reclaim", "complete"},
           part[s] # 1
    PROVE  parts[job[s]][1].status # "ABSENT" /\ start[s] = parts[job[s]][1].start
<1>1. SessionInv(s) /\ PrecedingInv(s) /\ PinnedWithData /\ StartsAgree(s)
  BY DEF OutcomeInv, IInv
<1>2. job[s] \in Batches /\ part[s] \in Parts
  BY <1>1 DEF SessionInv, OnPart
<1>3. orders[job[s]] # {}
  BY <1>1, <1>2 DEF PrecedingInv, BeforeLoad
<1>. QED  BY <1>1, <1>2, <1>3 DEF PinnedWithData, StartsAgree, Planned

\* The start that part 1 pins never changes.
LEMMA PinStays ==
    ASSUME OutcomeInv, NEW s \in Sessions, SessionNext(s), NEW b \in Batches,
           parts[b][1].status # "ABSENT"
    PROVE  parts'[b][1].status # "ABSENT" /\ parts'[b][1].start = parts[b][1].start
<1>1. /\ TypeOK /\ SessionInv(s) /\ StartsAgree(s) /\ 1 \in Parts /\ Offset(1) = 0
      /\ IInv
  BY RangeFacts DEF OutcomeInv, IInv
<1>2. parts'[b][1].status # "ABSENT" /\ RowChange(s, b, 1) /\ parts[b][1] \in PartRow
  BY <1>1, RegisteredStays, RowsStep DEF TypeOK
<1>3. CASE parts'[b][1] = parts[b][1]
  BY <1>2, <1>3
<1>4. ASSUME 1 = part[s], pc[s] \in {"insert", "reclaim"}, ~open[s]
      PROVE  FALSE
  BY <1>1, <1>4 DEF SessionInv, BeforeLoad
<1>5. CASE parts'[b][1] = [parts[b][1] EXCEPT !.status = "FAILED"]
  BY <1>2, <1>5 DEF PartRow
<1>6. CASE /\ b = job[s] /\ 1 = part[s] /\ pc[s] = "complete"
           /\ parts'[b][1] = [SeenPart(s, 1) EXCEPT !.status = "COMPLETED"]
  <2>1. SeenPart(s, 1) \in PartRow /\ SeenPart(s, 1).start = start[s] + Offset(1)
    BY <1>6, SeenStart
  <2>2. parts'[b][1].start = SeenPart(s, 1).start
    BY <1>6, <2>1 DEF PartRow
  <2>3. start[s] = parts[b][1].start /\ start[s] \in Nat
    BY <1>1, <1>6 DEF StartsAgree, Planned, TypeOK
  <2>. QED  BY <1>1, <1>2, <2>1, <2>2, <2>3
<1>. QED  BY <1>2, <1>3, <1>4, <1>5, <1>6 DEF RowChange

LEMMA RowsAgreeKept ==
    ASSUME OutcomeInv, NEW s \in Sessions, SessionNext(s), NEW b \in Batches
    PROVE  RowsAgree(b)'
<1>1. TypeOK /\ SessionInv(s) /\ RowsAgree(b) /\ 1 \in Parts /\ Offset(1) = 0 /\ IInv
  BY RangeFacts DEF OutcomeInv, IInv
<1>. SUFFICES ASSUME NEW k \in Parts, parts'[b][k].status # "ABSENT"
              PROVE  /\ parts'[b][1].status # "ABSENT"
                     /\ parts'[b][k].start = parts'[b][1].start + Offset(k)
  BY DEF RowsAgree, Offset
<1>2. RowChange(s, b, k) /\ parts[b][k] \in PartRow /\ parts[b][1] \in PartRow
  BY <1>1, RowsStep DEF TypeOK
<1>3. parts[b][1].status # "ABSENT" =>
         parts'[b][1].status # "ABSENT" /\ parts'[b][1].start = parts[b][1].start
  BY PinStays
<1>4. CASE parts'[b][k] = parts[b][k]
  BY <1>1, <1>3, <1>4 DEF RowsAgree
<1>5. CASE /\ b = job[s] /\ k = part[s] /\ pc[s] \in {"insert", "reclaim"} /\ ~open[s]
           /\ parts'[b][k] = StartedPart(s)
  <2>1. part[s] # 1
    BY <1>1, <1>5 DEF SessionInv, BeforeLoad
  <2>. QED  BY <1>3, <1>5, <2>1, FirstIsRegistered DEF StartedPart
<1>6. CASE /\ b = job[s] /\ k = part[s] /\ pc[s] = "failPart" /\ ~open[s]
           /\ parts'[b][k] = [parts[b][k] EXCEPT !.status = "FAILED"]
  <2>1. SeenPart(s, k) = parts[b][k]
    BY <1>1, <1>6 DEF SessionInv, NoPartWrites, SeenPart, Seen
  <2>2. parts[b][k].status # "ABSENT"
    BY <1>6, <2>1, SeenStart
  <2>3. parts'[b][k].start = parts[b][k].start
    BY <1>2, <1>6 DEF PartRow
  <2>. QED  BY <1>1, <1>3, <2>2, <2>3 DEF RowsAgree
<1>7. CASE /\ b = job[s] /\ k = part[s] /\ pc[s] = "complete"
           /\ parts'[b][k] = [SeenPart(s, k) EXCEPT !.status = "COMPLETED"]
  <2>1. SeenPart(s, k) \in PartRow /\ SeenPart(s, k).start = start[s] + Offset(k)
    BY <1>7, SeenStart
  <2>2. parts'[b][k].start = start[s] + Offset(k)
    BY <1>7, <2>1 DEF PartRow
  <2>3. CASE k = 1
    <3>1. start[s] \in Nat /\ parts'[b][1].status # "ABSENT"
      BY <1>1, <2>3 DEF TypeOK
    <3>. QED  BY <1>1, <2>2, <2>3, <3>1
  <2>4. CASE k # 1
    BY <1>3, <1>7, <2>2, <2>4, FirstIsRegistered
  <2>. QED  BY <2>3, <2>4
<1>. QED  BY <1>2, <1>4, <1>5, <1>6, <1>7 DEF RowChange

\* Part 1 is registered by the completion of it, when all sessions of the batch
\* but the one that holds the batch are still outside.
LEMMA RegistersAlone ==
    ASSUME OutcomeInv, NEW s \in Sessions, SessionNext(s), NEW t \in Sessions \ {s},
           pc[t] \in Planned, parts[job[t]][1].status = "ABSENT"
    PROVE  parts'[job[t]][1].status = "ABSENT"
<1>1. /\ TypeOK /\ SessionInv(s) /\ SessionInv(t) /\ ClaimInv(s) /\ ClaimInv(t)
      /\ 1 \in Parts /\ IInv
  BY RangeFacts DEF OutcomeInv, IInv
<1>2. job[t] \in Batches
  BY <1>1 DEF SessionInv, Planned
<1>3. RowChange(s, job[t], 1)
  BY <1>1, <1>2, RowsStep
<1>4. ASSUME 1 = part[s], pc[s] \in {"insert", "reclaim"}, ~open[s]
      PROVE  FALSE
  BY <1>1, <1>4 DEF SessionInv, BeforeLoad
<1>5. ASSUME job[t] = job[s], 1 = part[s], pc[s] = "failPart", ~open[s]
      PROVE  FALSE
  <2>1. SeenPart(s, 1) = parts[job[t]][1]
    BY <1>1, <1>5 DEF SessionInv, NoPartWrites, SeenPart, Seen
  <2>. QED  BY <1>5, <2>1, SeenStart
<1>6. ASSUME job[t] = job[s], pc[s] = "complete"
      PROVE  FALSE
  BY <1>1, <1>6 DEF ClaimInv, Planned
<1>. QED  BY <1>3, <1>4, <1>5, <1>6 DEF RowChange

LEMMA StartsAgreeKept ==
    ASSUME OutcomeInv, NEW s \in Sessions, SessionNext(s), NEW t \in Sessions
    PROVE  StartsAgree(t)'
<1>1. /\ TypeOK /\ SessionInv(t) /\ SessionInv(t)' /\ StartsAgree(t) /\ 1 \in Parts /\ Offset(1) = 0 /\ IInv
  BY RangeFacts, SessionStep, OthersKeep DEF OutcomeInv, IInv
<1>. SUFFICES ASSUME pc'[t] \in Planned, parts'[job'[t]][1].status # "ABSENT"
              PROVE  start'[t] = parts'[job'[t]][1].start
  BY DEF StartsAgree
<1>2. CASE t # s
  <2>1. pc'[t] = pc[t] /\ job'[t] = job[t] /\ start'[t] = start[t]
    BY <1>1, <1>2, OthersStay DEF Same
  <2>2. job[t] \in Batches
    BY <1>1, <2>1 DEF SessionInv, Planned
  <2>3. parts[job[t]][1].status # "ABSENT"
    BY <1>2, <2>1, RegistersAlone
  <2>. QED  BY <1>1, <2>1, <2>2, <2>3, PinStays DEF StartsAgree
<1>3. CASE t = s
  <2>1. StartChange(s)
    BY <1>1, StartStep
  <2>2. CASE pc[s] \in Planned /\ start'[s] = start[s] /\ job'[s] = job[s]
    <3>1. job[s] \in Batches
      BY <1>1, <1>3, <2>2 DEF SessionInv, Planned
    <3>2. CASE parts[job[s]][1].status # "ABSENT"
      BY <1>1, <1>3, <2>2, <3>1, <3>2, PinStays DEF StartsAgree
    <3>3. CASE parts[job[s]][1].status = "ABSENT"
      <4>1. RowChange(s, job[s], 1)
        BY <1>1, <3>1, RowsStep
      <4>2. ~(1 = part[s] /\ pc[s] \in {"insert", "reclaim"} /\ ~open[s])
        BY <1>1, <1>3 DEF SessionInv, BeforeLoad
      <4>3. ~(1 = part[s] /\ pc[s] = "failPart" /\ ~open[s])
        <5>. SUFFICES ASSUME 1 = part[s], pc[s] = "failPart", ~open[s]
                      PROVE  FALSE
          OBVIOUS
        <5>1. SeenPart(s, 1) = parts[job[s]][1]
          BY <1>1, <1>3 DEF SessionInv, NoPartWrites, SeenPart, Seen
        <5>. QED  BY <3>3, <5>1, SeenStart
      <4>4. /\ 1 = part[s] /\ pc[s] = "complete"
            /\ parts'[job[s]][1] = [SeenPart(s, 1) EXCEPT !.status = "COMPLETED"]
        BY <1>3, <2>2, <3>3, <4>1, <4>2, <4>3 DEF RowChange
      <4>5. SeenPart(s, 1) \in PartRow /\ SeenPart(s, 1).start = start[s] + Offset(1)
        BY <4>4, SeenStart
      <4>6. parts'[job[s]][1].start = SeenPart(s, 1).start /\ start[s] \in Nat
        BY <1>1, <4>4, <4>5 DEF PartRow, TypeOK
      <4>. QED  BY <1>1, <1>3, <2>2, <4>5, <4>6
    <3>. QED  BY <3>2, <3>3
  <2>3. CASE pc[s] \in {"start", "allocate"} /\ job'[s] = job[s]
    <3>1. job[s] \in Batches /\ pendPart[s][1] = NoWrite
      <4>1. PartInv(s) /\ pc[s] \notin HoldsParts
        BY <1>1, <2>3 DEF IInv, HoldsParts
      <4>. QED  BY <1>1, <1>3, <2>3, <4>1 DEF SessionInv, PartInv
    <3>2. SeenPart(s, 1) = parts[job[s]][1]
      BY <3>1 DEF SeenPart, Seen
    <3>3. parts'[job[s]][1] = parts[job[s]][1]
      <4>1. RowChange(s, job[s], 1)
        BY <1>1, <3>1, RowsStep
      <4>. QED  BY <2>3, <4>1 DEF RowChange
    <3>4. pc[s] = "start"
      <4>1. pc[s] # "allocate"
        BY <1>1, <1>3, <2>3, <3>3 DEF IInv, ClaimInv
      <4>. QED  BY <2>3, <4>1
    <3>. QED  BY <1>3, <2>1, <2>3, <3>2, <3>3, <3>4 DEF StartChange, Planned
  <2>. QED  BY <1>3, <2>1, <2>2, <2>3 DEF StartChange
<1>. QED  BY <1>2, <1>3

LEMMA PendingStartsKept ==
    ASSUME OutcomeInv, NEW s \in Sessions, SessionNext(s), NEW t \in Sessions
    PROVE  PendingStarts(t)'
<1>1. TypeOK /\ PendingStarts(t) /\ PartInv(t) /\ PartInv(t)' /\ IInv
  BY PartStep, OthersKeep DEF OutcomeInv, IInv
<1>. SUFFICES ASSUME pc'[t] \in Planned, NEW k \in Parts, pendPart'[t][k] # NoWrite
              PROVE  pendPart'[t][k].start = start'[t] + Offset(k)
  BY DEF PendingStarts, Offset
<1>2. CASE t # s
  <2>1. Same(t)
    BY <1>1, <1>2, OthersStay
  <2>. QED  BY <1>1, <2>1 DEF Same, PendingStarts
<1>3. CASE t = s
  <2>1. PendingRowChange(s, k) /\ StartChange(s)
    BY <1>1, PendingRowsStep, StartStep
  <2>2. pc[s] \in HoldsParts \cup {"insert", "reclaim"}
    <3>1. CASE pendPart'[s][k] = pendPart[s][k]
      BY <1>1, <1>3, <3>1 DEF PartInv
    <3>2. CASE pc[s] \in {"insert", "reclaim", "failPart"}
      BY <3>2 DEF HoldsParts
    <3>. QED  BY <1>3, <2>1, <3>1, <3>2 DEF PendingRowChange
  <2>3. pc[s] \in Planned /\ start'[s] = start[s]
    BY <1>3, <2>1, <2>2 DEF StartChange, HoldsParts
  <2>4. CASE pendPart'[s][k] = pendPart[s][k]
    BY <1>1, <1>3, <2>3, <2>4 DEF PendingStarts
  <2>5. CASE k = part[s] /\ pendPart'[s][k] = StartedPart(s)
    BY <1>3, <2>3, <2>5 DEF StartedPart
  <2>6. CASE /\ k = part[s] /\ pc[s] = "failPart"
             /\ pendPart'[s][k] = [SeenPart(s, k) EXCEPT !.status = "FAILED"]
    <3>1. SeenPart(s, k) \in PartRow /\ SeenPart(s, k).start = start[s] + Offset(k)
      BY <2>6, SeenStart
    <3>. QED  BY <1>3, <2>3, <2>6, <3>1 DEF PartRow
  <2>. QED  BY <1>3, <2>1, <2>4, <2>5, <2>6 DEF PendingRowChange
<1>. QED  BY <1>2, <1>3

-----------------------------------------------------------------------------
(* Parts that are done.                                                    *)

LEMMA CompletedPartsKept ==
    ASSUME OutcomeInv, NEW s \in Sessions, SessionNext(s)
    PROVE  CompletedPartIsLoaded'
<1>1. TypeOK /\ SessionInv(s) /\ LoadedInv(s) /\ CompletedPartIsLoaded /\ IInv
  BY DEF OutcomeInv, IInv
<1>. SUFFICES ASSUME NEW b \in Batches, NEW k \in Parts, parts'[b][k].status = "COMPLETED"
              PROVE  parts'[b][k].start .. (parts'[b][k].start + Size(k) - 1) \subseteq orders'[b]
  BY DEF CompletedPartIsLoaded, Size, Offset
<1>2. RowChange(s, b, k) /\ orders[b] \subseteq orders'[b] /\ parts[b][k] \in PartRow
  BY <1>1, RowsStep, OrdersGrow DEF TypeOK
<1>3. CASE parts'[b][k] = parts[b][k]
  BY <1>1, <1>2, <1>3 DEF CompletedPartIsLoaded
<1>4. CASE parts'[b][k] = StartedPart(s)
  BY <1>4 DEF StartedPart
<1>5. CASE parts'[b][k] = [parts[b][k] EXCEPT !.status = "FAILED"]
  BY <1>2, <1>5 DEF PartRow
<1>6. CASE /\ b = job[s] /\ k = part[s] /\ pc[s] = "complete" /\ pc'[s] = "heartbeat"
           /\ parts'[b][k] = [SeenPart(s, k) EXCEPT !.status = "COMPLETED"]
  <2>1. SeenPart(s, k) \in PartRow /\ SeenPart(s, k).start = start[s] + Offset(k)
    BY <1>6, SeenStart
  <2>2. parts'[b][k].start = start[s] + Offset(k)
    BY <1>6, <2>1 DEF PartRow
  <2>3. Flow(s)
    BY <1>1, FlowStep
  <2>4. pendOrders[s] \subseteq orders'[b]
    BY <1>6, <2>3 DEF Flow, BeforeLoad
  <2>5. PartIds(s, k) \subseteq orders[b] \cup pendOrders[s]
    BY <1>1, <1>6 DEF LoadedInv
  <2>. QED  BY <1>2, <2>2, <2>4, <2>5 DEF PartIds
<1>. QED  BY <1>2, <1>3, <1>4, <1>5, <1>6 DEF RowChange

\* The part number moves on only behind a part that is done.
PartNumberChange(s) ==
    pc'[s] \in Planned =>
        \/ part'[s] = 1
        \/ part'[s] = part[s]
        \/ /\ part'[s] = part[s] + 1 /\ start'[s] = start[s] /\ job'[s] = job[s]
           /\ part[s] \in Parts
           /\ \/ pc[s] = "part" /\ SeenPart(s, part[s]).status = "COMPLETED"
              \/ pc[s] = "heartbeat"

LEMMA PartNumberStep ==
    ASSUME TypeOK, NEW s \in Sessions, SessionInv(s), SessionNext(s)
    PROVE  PartNumberChange(s)
<1>. USE DEF TypeOK, PartNumberChange
<1>1. ASSUME NEW c \in Batches, NEW inTx \in CallerInTx, Call(s, c, inTx)
      PROVE  PartNumberChange(s)
  BY <1>1 DEF Call
<1>2. CASE StartBatch(s) \/ ReadStartIds(s) \/ AllocateStartId(s) \/ ReadCompletedParts(s)
  BY <1>2 DEF StartBatch, ReadStartIds, AllocateStartId, ReadCompletedParts
<1>3. CASE InspectBatch(s)
  BY <1>3 DEF InspectBatch, Leave
<1>4. CASE RetryFailedBatch(s)
  BY <1>4 DEF RetryFailedBatch, Leave
<1>5. CASE SelectPart(s)
  BY <1>5 DEF SelectPart, NextPart
<1>6. CASE HeartbeatBatch(s)
  BY <1>6 DEF HeartbeatBatch, NextPart, SessionInv, OnPart
<1>7. CASE InsertPart(s) \/ ReclaimPart(s) \/ LoadPart(s) \/ FailPart(s)
  BY <1>7 DEF InsertPart, ReclaimPart, LoadPart, FailPart
<1>8. CASE CompletePart(s)
  BY <1>8 DEF CompletePart
<1>9. CASE Reconcile(s) \/ CheckQuality(s) \/ CompleteBatch(s) \/ Fault(s) \/ Rollback(s)
  BY <1>9 DEF Reconcile, CheckQuality, CompleteBatch, Fault, Rollback
<1>10. CASE Return(s) \/ FailBatch(s) \/ Crash(s)
  BY <1>10 DEF Return, FailBatch, Crash, Leave
<1>. QED
  BY <1>1, <1>2, <1>3, <1>4, <1>5, <1>6, <1>7, <1>8, <1>9, <1>10 DEF SessionNext, Step

LEMMA PassedKept ==
    ASSUME OutcomeInv, NEW s \in Sessions, SessionNext(s), NEW t \in Sessions
    PROVE  PassedInv(t)'
<1>1. /\ TypeOK /\ SessionInv(t) /\ PassedInv(t) /\ Parts \subseteq Nat /\ IInv
      /\ \A b \in Batches : orders[b] \subseteq orders'[b]
  BY RangeFacts, OrdersGrow DEF OutcomeInv, IInv
<1>. SUFFICES ASSUME pc'[t] \in Planned, NEW k \in Parts, k < part'[t]
              PROVE  PartIds(t, k)' \subseteq orders'[job'[t]]
  BY DEF PassedInv, PartIds, Offset, Size
<1>k. 1 <= k
  BY DEF Parts
<1>o. ASSUME pc[t] \in Planned, start'[t] = start[t], job'[t] = job[t], k < part[t]
      PROVE  PartIds(t, k)' \subseteq orders'[job'[t]]
  <2>1. job[t] \in Batches /\ PartIds(t, k)' = PartIds(t, k)
    BY <1>1, <1>o DEF SessionInv, Planned, PartIds, Offset, Size
  <2>. QED  BY <1>1, <1>o, <2>1 DEF PassedInv
<1>2. CASE t # s
  <2>1. Same(t)
    BY <1>1, <1>2, OthersStay
  <2>. QED  BY <2>1, <1>o DEF Same
<1>3. CASE t = s
  <2>1. PartNumberChange(s) /\ StartChange(s)
    BY <1>1, <1>3, PartNumberStep, StartStep
  <2>2. part'[s] # 1
    BY <1>1, <1>3, <1>k
  <2>3. CASE part'[s] = part[s]
    <3>1. pc[s] \notin {"start", "allocate"}
      BY <1>1, <1>3, <2>2, <2>3 DEF SessionInv
    <3>. QED  BY <1>3, <1>o, <2>1, <2>3, <3>1 DEF StartChange
  <2>4. CASE /\ part'[s] = part[s] + 1 /\ start'[s] = start[s] /\ job'[s] = job[s]
             /\ part[s] \in Parts
             /\ \/ pc[s] = "part" /\ SeenPart(s, part[s]).status = "COMPLETED"
                \/ pc[s] = "heartbeat"
    <3>0. pc[s] \in Planned /\ job[s] \in Batches
      BY <1>1, <1>3, <2>4 DEF Planned, SessionInv
    <3>1. CASE k < part[s]
      BY <1>3, <1>o, <2>4, <3>0, <3>1
    <3>2. CASE k = part[s] /\ pc[s] = "heartbeat"
      <4>1. PartIds(s, k) \subseteq orders[job[s]] \cup pendOrders[s]
        BY <3>2 DEF OutcomeInv, IInv, LoadedInv
      <4>2. pendOrders[s] = {}
        BY <3>2 DEF OutcomeInv, IInv, PendingInv, HoldsOrders
      <4>3. PartIds(s, k)' = PartIds(s, k)
        BY <2>4 DEF PartIds, Offset, Size
      <4>. QED  BY <1>1, <1>3, <2>4, <3>0, <4>1, <4>2, <4>3
    <3>3. CASE k = part[s] /\ pc[s] = "part" /\ SeenPart(s, k).status = "COMPLETED"
      <4>1. pendPart[s][k] = NoWrite
        BY <3>3 DEF OutcomeInv, IInv, PartInv, HoldsParts
      <4>2. SeenPart(s, k) = parts[job[s]][k]
        BY <4>1 DEF SeenPart, Seen
      <4>3. parts[job[s]][k].start = start[s] + Offset(k)
        BY <3>0, <3>3, <4>2 DEF OutcomeInv, RowsAgree, StartsAgree
      <4>4. PartIds(s, k) \subseteq orders[job[s]]
        BY <3>0, <3>3, <4>2, <4>3 DEF OutcomeInv, CompletedPartIsLoaded, PartIds
      <4>5. PartIds(s, k)' = PartIds(s, k)
        BY <2>4 DEF PartIds, Offset, Size
      <4>. QED  BY <1>1, <1>3, <2>4, <3>0, <4>4, <4>5
    <3>4. k < part[s] \/ k = part[s]
      <4>1. k \in Nat /\ part[s] \in Nat
        BY <2>4, RangeFacts
      <4>2. k < part[s] + 1
        BY <1>3, <2>4
      <4>. QED  BY ONLY <4>1, <4>2
    <3>. QED  BY <2>4, <3>1, <3>2, <3>3, <3>4
  <2>. QED  BY <1>3, <2>1, <2>2, <2>3, <2>4 DEF PartNumberChange
<1>. QED  BY <1>2, <1>3

-----------------------------------------------------------------------------
(* The parts make up the batch.                                            *)

LEMMA LastPart == NumParts \in Parts /\ Offset(NumParts) + Size(NumParts) = Orders
<1>. DEFINE O == Orders
            B == BatchSize
            N == NumParts
<1>1. O \in Nat \ {0} /\ B \in Nat \ {0} /\ N \in Nat \ {0}
  BY ConfigAssumption, PartsFacts
<1>2. O + B - 1 \in Nat /\ O + B - 1 >= B
  BY <1>1
<1>3. O <= (N - 1) * B + B
  BY <1>1, <1>2, SMTT(30) DEF NumParts
<1>4. N \in Parts
  BY <1>1 DEF Parts
<1>5. Offset(N) = (N - 1) * B
  BY DEF Offset
<1>6. Offset(N) \in Nat
  BY <1>4, RangeFacts
<1>. QED  BY <1>1, <1>3, <1>4, <1>5, <1>6 DEF Size

\* Every offset below config.orders lies in a part.
LEMMA PartsCover ==
    ASSUME NEW o \in Nat, o < Orders
    PROVE  \E k \in Parts : Offset(k) <= o /\ o < Offset(k) + Size(k)
<1>. DEFINE S == {k \in Parts : Offset(k) <= o}
<1>1. /\ NumParts \in Nat /\ Parts = 1..NumParts /\ 1 \in S
      /\ S \in SUBSET Nat /\ \A k \in S : k <= NumParts
  BY RangeFacts, PartsFacts DEF Parts
<1>2. PICK k \in S : \A x \in S : k >= x
  <2>. HIDE DEF S
  <2>. QED  BY <1>1, GreatestNat
<1>3. k \in Parts /\ Offset(k) <= o
  BY <1>2
<1>4. CASE k = NumParts
  BY <1>3, <1>4, LastPart
<1>5. CASE k # NumParts
  <2>1. k + 1 \in Parts /\ k + 1 > k
    BY <1>1, <1>3, <1>5
  <2>2. Offset(k + 1) \in Nat /\ ~(Offset(k + 1) <= o)
    BY <1>2, <2>1, RangeFacts
  <2>3. Offset(k + 1) = Offset(k) + Size(k)
    BY <1>3, <2>1, RangeFacts
  <2>. QED  BY <1>3, <2>2, <2>3
<1>. QED  BY <1>4, <1>5

LEMMA PassedIsWhole ==
    ASSUME OutcomeInv, NEW s \in Sessions, pc[s] = "part", part[s] \notin Parts
    PROVE  BatchIds(s) \subseteq orders[job[s]]
<1>1. TypeOK /\ PassedInv(s) /\ NumParts \in Nat
  BY PartsFacts DEF OutcomeInv, IInv
<1>2. start[s] \in Nat /\ part[s] = NumParts + 1
  BY <1>1 DEF TypeOK, Parts
<1>. SUFFICES ASSUME NEW i \in BatchIds(s)
              PROVE  i \in orders[job[s]]
  OBVIOUS
<1>3. i - start[s] \in Nat /\ i - start[s] < Orders /\ i \in Nat
  BY <1>2, ConfigAssumption DEF BatchIds
<1>4. PICK k \in Parts : Offset(k) <= i - start[s] /\ i - start[s] < Offset(k) + Size(k)
  BY <1>3, PartsCover
<1>5. k < part[s] /\ k \in Nat /\ Offset(k) \in Nat /\ Size(k) \in Nat
  BY <1>1, <1>2, RangeFacts DEF Parts
<1>6. i \in PartIds(s, k)
  BY <1>2, <1>3, <1>4, <1>5 DEF PartIds
<1>. QED  BY <1>1, <1>5, <1>6 DEF PassedInv, Planned

-----------------------------------------------------------------------------
(* The end of the batch.                                                   *)

LEMMA ClosingKept ==
    ASSUME OutcomeInv, NEW s \in Sessions, SessionNext(s), NEW t \in Sessions
    PROVE  ClosingInv(t)'
<1>1. TypeOK /\ SessionInv(t) /\ ClosingInv(t) /\ \A b \in Batches : orders[b] \subseteq orders'[b]
  BY OrdersGrow DEF OutcomeInv, IInv
<1>2. CASE t # s
  <2>1. Same(t)
    BY <1>1, <1>2, OthersStay
  <2>2. Completes(t)' <=> Completes(t)
    BY <2>1 DEF Completes, Same
  <2>3. BatchIds(t)' = BatchIds(t)
    BY <2>1 DEF BatchIds, Same
  <2>4. pc[t] # "out" => orders[job[t]] \subseteq orders'[job'[t]]
    BY <1>1, <2>1 DEF SessionInv, Same
  <2>. QED  BY <1>1, <2>1, <2>2, <2>3, <2>4 DEF ClosingInv, Same
<1>3. CASE t = s
  <2>1. ClosingChange(s)
    BY ClosingStep
  <2>2. CASE /\ pendQuality'[s] = {} /\ pc'[s] \notin {"quality", "finish"}
             /\ ~Completes(s)' /\ quality' = quality
    BY <1>3, <2>2 DEF ClosingInv
  <2>3. CASE /\ pc[s] = "part" /\ part[s] \notin Parts /\ pc'[s] = "quality" /\ open'[s]
             /\ pendQuality'[s] = {} /\ ~Completes(s)'
             /\ UNCHANGED <<orders, quality, job, start>>
    <3>1. BatchIds(s)' \subseteq orders'[job'[s]]
      BY <2>3, PassedIsWhole DEF BatchIds
    <3>. QED  BY <1>3, <2>3, <3>1 DEF ClosingInv
  <2>4. CASE /\ pc[s] = "quality" /\ pc'[s] = "finish"
             /\ pendQuality'[s] = {TRUE} /\ ~Completes(s)'
             /\ UNCHANGED <<orders, quality, open, job, start>>
    <3>1. open'[s] /\ BatchIds(s)' \subseteq orders'[job'[s]]
      BY <1>1, <1>3, <2>4 DEF BatchIds, ClosingInv
    <3>. QED  BY <1>3, <2>4, <3>1 DEF ClosingInv
  <2>5. CASE /\ pc[s] \in {"quality", "finish"} /\ pc'[s] = "rollback"
             /\ ~Completes(s)' /\ quality' = quality
    BY <1>3, <2>5 DEF ClosingInv
  <2>6. CASE /\ pc[s] = "finish" /\ pc'[s] = "returned"
             /\ pendQuality'[s] = pendQuality[s] /\ Completes(s)'
             /\ UNCHANGED <<orders, quality, job, start>>
    <3>1. pendQuality'[s] = {TRUE} /\ BatchIds(s)' \subseteq orders'[job'[s]]
      BY <1>1, <1>3, <2>6 DEF BatchIds, ClosingInv
    <3>. QED  BY <1>3, <2>6, <3>1 DEF ClosingInv
  <2>7. CASE /\ pc[s] = "returned" /\ Completes(s) /\ pc'[s] = "out"
             /\ pendQuality'[s] = {} /\ ~Completes(s)'
    BY <1>3, <2>7 DEF ClosingInv
  <2>. QED  BY <2>1, <2>2, <2>3, <2>4, <2>5, <2>6, <2>7 DEF ClosingChange
<1>. QED  BY <1>2, <1>3

\* Only the session that holds the row of a batch changes it, and it leaves the
\* row to the others when it has.
LEMMA BatchInvKept ==
    ASSUME OutcomeInv, NEW s \in Sessions, SessionNext(s), NEW t \in Sessions
    PROVE  BatchInv(t)'
<1>1. /\ TypeOK /\ SessionInv(s) /\ SessionInv(t) /\ ClaimInv(s) /\ ClaimInv(t)
      /\ BatchInv(s) /\ BatchInv(t) /\ ClosingInv(s)
  BY DEF OutcomeInv, IInv
<1>2. CASE t # s
  <2>1. Same(t)
    BY <1>1, <1>2, OthersStay
  <2>2. ASSUME pendBatch[t] # NoWrite
        PROVE  batches'[job[t]].status # "COMPLETED"
    <3>1. pc[t] # "out" /\ job[t] \in Batches
      BY <1>1, <2>2 DEF SessionInv
    <3>2. BatchRowChange(s, job[t])
      BY <3>1, BatchRowStep
    <3>3. batches[job[t]].status # "COMPLETED"
      BY <1>1, <2>2 DEF BatchInv
    <3>4. ~(job[t] = job[s] /\ ~BatchLocked(s))
      BY <1>2, <2>2 DEF BatchLocked
    <3>5. ~(job[t] = job[s] /\ pendBatch[s] # NoWrite)
      BY <1>1, <1>2, <2>2 DEF ClaimInv
    <3>. QED  BY <3>2, <3>3, <3>4, <3>5 DEF BatchRowChange
  <2>. QED  BY <1>1, <2>1, <2>2 DEF BatchInv, Same
<1>3. CASE t = s
  <2>1. PendingBatchChange(s)
    BY PendingBatchStep
  <2>2. ASSUME pendBatch'[s] # NoWrite
        PROVE  batches'[job'[s]].status # "COMPLETED"
    <3>1. CASE pendBatch'[s] = pendBatch[s] /\ job'[s] = job[s] /\ batches' = batches
      BY <1>1, <2>2, <3>1 DEF BatchInv
    <3>2. CASE /\ pc[s] \in Claiming \cup {"finish"} /\ SeenBatch(s).status # "COMPLETED"
               /\ job'[s] = job[s] /\ batches' = batches
      <4>1. pendBatch[s] # NoWrite => batches[job[s]].status # "COMPLETED"
        BY <1>1 DEF BatchInv
      <4>2. pendBatch[s] = NoWrite => SeenBatch(s) = batches[job[s]]
        BY DEF SeenBatch, Seen
      <4>. QED  BY <3>2, <4>1, <4>2
    <3>. QED  BY <2>1, <2>2, <3>1, <3>2 DEF PendingBatchChange
  <2>. QED  BY <1>3, <2>1, <2>2 DEF BatchInv, PendingBatchChange
<1>. QED  BY <1>2, <1>3

LEMMA CompletedRowStays ==
    ASSUME OutcomeInv, NEW s \in Sessions, SessionNext(s), NEW b \in Batches,
           batches[b].status = "COMPLETED"
    PROVE  batches'[b] = batches[b]
<1>1. BatchInv(s) /\ BatchRowChange(s, b)
  BY BatchRowStep DEF OutcomeInv
<1>. QED  BY <1>1 DEF BatchRowChange, BatchInv

\* Ids that span less than config.orders fill a range of that length.
LEMMA FullRange ==
    ASSUME NEW n \in Nat, NEW ids \in SUBSET Nat, n..(n + Orders - 1) \subseteq ids,
           \A i, j \in ids : i - j < Orders
    PROVE  ids = n..(n + Orders - 1)
<1>1. Orders \in Nat \ {0}
  BY ConfigAssumption
<1>2. n \in ids /\ n + Orders - 1 \in ids
  BY <1>1
<1>3. ASSUME NEW i \in ids
      PROVE  i \in n..(n + Orders - 1)
  <2>1. i \in Nat /\ i - n < Orders /\ (n + Orders - 1) - i < Orders
    BY <1>2
  <2>. QED  BY <1>1, <2>1
<1>. QED  BY <1>3

LEMMA WholeKept ==
    ASSUME OutcomeInv, IInv', NEW s \in Sessions, SessionNext(s), NEW b \in Batches
    PROVE  WholeInv(b)'
<1>1. /\ TypeOK /\ TypeOK' /\ ClosingInv(s) /\ WholeInv(b) /\ orders[b] \subseteq orders'[b]
      /\ \A i, j \in orders'[b] : i - j < Orders
  BY OrdersGrow DEF OutcomeInv, IInv, NeverLoadedTwice
<1>2. SUFFICES ASSUME batches'[b].status = "COMPLETED"
               PROVE  /\ TRUE \in quality'[b]
                      /\ \E n \in Nat : orders'[b] = n..(n + Orders - 1)
  BY DEF WholeInv
<1>3. ASSUME NEW n \in Nat, n..(n + Orders - 1) \subseteq orders'[b]
      PROVE  orders'[b] = n..(n + Orders - 1)
  <2>1. orders'[b] \in SUBSET Nat
    BY <1>1 DEF TypeOK
  <2>. QED  BY <1>1, <1>3, <2>1, FullRange
<1>4. CASE batches'[b] = batches[b]
  <2>1. ClosingChange(s)
    BY ClosingStep
  <2>2. quality[b] \subseteq quality'[b]
    <3>1. quality' = quality \/ quality' = [quality EXCEPT ![job[s]] = @ \cup {TRUE}]
      BY <2>1 DEF ClosingChange
    <3>2. quality \in [Batches -> SUBSET BOOLEAN]
      BY <1>1 DEF TypeOK
    <3>. QED  BY ONLY <3>1, <3>2, b \in Batches
  <2>3. PICK n \in Nat : orders[b] = n..(n + Orders - 1)
    BY <1>1, <1>2, <1>4 DEF WholeInv
  <2>4. TRUE \in quality'[b]
    BY <1>1, <1>2, <1>4, <2>2 DEF WholeInv
  <2>. QED  BY <1>1, <1>3, <2>3, <2>4
<1>5. CASE /\ b = job[s] /\ pendBatch[s] # NoWrite /\ batches'[b] = pendBatch[s]
           /\ quality'[b] = quality[b] \cup pendQuality[s]
  <2>1. Completes(s)
    BY <1>2, <1>5 DEF Completes
  <2>2. pendQuality[s] = {TRUE} /\ BatchIds(s) \subseteq orders'[b]
    BY <1>1, <1>5, <2>1 DEF ClosingInv
  <2>3. start[s] \in Nat /\ start[s]..(start[s] + Orders - 1) \subseteq orders'[b]
    BY <1>1, <2>2 DEF TypeOK, BatchIds
  <2>. QED  BY <1>3, <1>5, <2>2, <2>3
<1>. QED  BY <1>2, <1>4, <1>5, BatchRowStep DEF BatchRowChange

LEMMA VerdictKept ==
    ASSUME OutcomeInv, NEW s \in Sessions, SessionNext(s)
    PROVE  VerdictComesWithCompletion'
<1>1. TypeOK /\ ClosingChange(s) /\ VerdictComesWithCompletion
  BY ClosingStep DEF OutcomeInv, IInv
<1>. SUFFICES ASSUME NEW b \in Batches, quality'[b] # {}
              PROVE  quality'[b] = {TRUE} /\ batches'[b].status = "COMPLETED"
  BY DEF VerdictComesWithCompletion
<1>2. CASE quality'[b] = quality[b]
  BY <1>1, <1>2, CompletedRowStays DEF VerdictComesWithCompletion
<1>3. CASE quality'[b] # quality[b]
  <2>1. /\ Completes(s) /\ batches'[job[s]] = pendBatch[s]
        /\ quality' = [quality EXCEPT ![job[s]] = @ \cup {TRUE}]
    BY <1>1, <1>3 DEF ClosingChange
  <2>2. b = job[s] /\ quality'[b] = quality[b] \cup {TRUE}
    BY <1>1, <1>3, <2>1 DEF TypeOK
  <2>. QED  BY <1>1, <2>1, <2>2 DEF Completes, VerdictComesWithCompletion
<1>. QED  BY <1>2, <1>3

-----------------------------------------------------------------------------
(* The invariant.                                                          *)

LEMMA OutcomeInit ==
    ASSUME RunnerCalls, Init
    PROVE  OutcomeInv
<1>1. IInv
  BY IInvInit
<1>2. ASSUME NEW s \in Sessions
      PROVE  StartsAgree(s) /\ PendingStarts(s) /\ PassedInv(s) /\ ClosingInv(s) /\ BatchInv(s)
  BY DEF Init, StartsAgree, PendingStarts, PassedInv, ClosingInv, BatchInv, Completes, Planned
<1>3. ASSUME NEW b \in Batches
      PROVE  RowsAgree(b) /\ WholeInv(b)
  BY DEF Init, RowsAgree, WholeInv
<1>4. CompletedPartIsLoaded /\ VerdictComesWithCompletion
  BY DEF Init, CompletedPartIsLoaded, VerdictComesWithCompletion
<1>. QED  BY <1>1, <1>2, <1>3, <1>4 DEF OutcomeInv

LEMMA OutcomeStep == OutcomeInv /\ [Next]_vars => OutcomeInv'
<1>. SUFFICES ASSUME OutcomeInv, [Next]_vars
              PROVE  OutcomeInv'
  OBVIOUS
<1>1. IInv'
  BY IInvStep DEF OutcomeInv
<1>2. ASSUME NEW s \in Sessions, SessionNext(s)
      PROVE  OutcomeInv'
  <2>1. ASSUME NEW t \in Sessions
        PROVE  /\ StartsAgree(t)' /\ PendingStarts(t)' /\ PassedInv(t)'
               /\ ClosingInv(t)' /\ BatchInv(t)'
    BY <1>2, StartsAgreeKept, PendingStartsKept, PassedKept, ClosingKept, BatchInvKept
  <2>2. ASSUME NEW b \in Batches
        PROVE  RowsAgree(b)' /\ WholeInv(b)'
    BY <1>1, <1>2, RowsAgreeKept, WholeKept
  <2>3. CompletedPartIsLoaded' /\ VerdictComesWithCompletion'
    BY <1>2, CompletedPartsKept, VerdictKept
  <2>. QED  BY <1>1, <2>1, <2>2, <2>3 DEF OutcomeInv
<1>3. CASE UNCHANGED vars
  <2>. USE <1>3 DEF vars, dbVars, pendVars, localVars
  <2>1. ASSUME NEW t \in Sessions
        PROVE  StartsAgree(t)' /\ PendingStarts(t)' /\ PassedInv(t)'
    BY DEF OutcomeInv, StartsAgree, PendingStarts, PassedInv, PartIds, Offset, Size
  <2>2. ASSUME NEW t \in Sessions
        PROVE  ClosingInv(t)' /\ BatchInv(t)'
    BY DEF OutcomeInv, ClosingInv, BatchInv, Completes, BatchIds
  <2>3. ASSUME NEW b \in Batches
        PROVE  RowsAgree(b)' /\ WholeInv(b)'
    BY DEF OutcomeInv, RowsAgree, WholeInv, Offset
  <2>4. CompletedPartIsLoaded' /\ VerdictComesWithCompletion'
    BY DEF OutcomeInv, CompletedPartIsLoaded, VerdictComesWithCompletion, Size, Offset
  <2>. QED  BY <1>1, <2>1, <2>2, <2>3, <2>4 DEF OutcomeInv
<1>. QED  BY <1>2, <1>3, NextIsSessionNext

-----------------------------------------------------------------------------
(* Who takes a batch up, and where its next part goes.                     *)

\* A session gets past the claim only with a batch that is not STARTED.
EntryChange(s) ==
    \/ pc'[s] \in Claiming \cup {"out"}
    \/ /\ job'[s] = job[s] /\ pc[s] # "out"
       /\ pc[s] \in Claiming => SeenBatch(s).status # "STARTED"

LEMMA EntryStep ==
    ASSUME TypeOK, NEW s \in Sessions, SessionNext(s)
    PROVE  EntryChange(s)
<1>. USE DEF EntryChange, Claiming
<1>g. ASSUME NEW l \in Labels, Goto(s, l)
      PROVE  pc'[s] = l
  BY <1>g DEF Goto, TypeOK
<1>l. Leave(s) => pc'[s] = "out"
  BY <1>g DEF Leave, Labels
<1>1. ASSUME NEW c \in Batches, NEW inTx \in CallerInTx, Call(s, c, inTx)
      PROVE  EntryChange(s)
  BY <1>1, <1>g DEF Call, Labels
<1>2. CASE StartBatch(s)
  <2>1. CASE SeenBatch(s).status = "ABSENT"
    BY <1>2, <2>1 DEF StartBatch
  <2>2. CASE SeenBatch(s).status # "ABSENT"
    BY <1>2, <2>2, <1>g DEF StartBatch, Labels
  <2>. QED  BY <2>1, <2>2
<1>3. CASE InspectBatch(s)
  <2>1. CASE SeenBatch(s).status = "STARTED"
    BY <1>3, <2>1, <1>l DEF InspectBatch
  <2>2. CASE SeenBatch(s).status # "STARTED"
    BY <1>3, <2>2 DEF InspectBatch
  <2>. QED  BY <2>1, <2>2
<1>4. CASE RetryFailedBatch(s)
  <2>1. CASE MayRetry(SeenBatch(s))
    BY <1>4, <2>1 DEF RetryFailedBatch, MayRetry
  <2>2. CASE ~MayRetry(SeenBatch(s))
    BY <1>4, <2>2, <1>l DEF RetryFailedBatch
  <2>. QED  BY <2>1, <2>2
<1>5. CASE ReadStartIds(s) \/ AllocateStartId(s) \/ ReadCompletedParts(s) \/ SelectPart(s)
  BY <1>5 DEF ReadStartIds, AllocateStartId, ReadCompletedParts, SelectPart
<1>6. CASE InsertPart(s) \/ ReclaimPart(s) \/ LoadPart(s) \/ HeartbeatBatch(s) \/ FailPart(s)
  BY <1>6 DEF InsertPart, ReclaimPart, LoadPart, HeartbeatBatch, FailPart
<1>7. CASE CompletePart(s) \/ Reconcile(s) \/ CheckQuality(s) \/ CompleteBatch(s) \/ Rollback(s)
           \/ Fault(s)
  BY <1>7 DEF CompletePart, Reconcile, CheckQuality, CompleteBatch, Rollback, Fault
<1>8. CASE Return(s) \/ FailBatch(s) \/ Crash(s)
  BY <1>8, <1>l DEF Return, FailBatch, Crash
<1>. QED
  BY <1>1, <1>2, <1>3, <1>4, <1>5, <1>6, <1>7, <1>8 DEF SessionNext, Step

LEMMA AbandonedStep ==
    ASSUME OutcomeInv, NEW s \in Sessions, SessionNext(s), NEW b \in Batches,
           batches[b].status = "STARTED", ~InProgress(b)
    PROVE  batches'[b] = batches[b] /\ ~InProgress(b)'
<1>1. /\ TypeOK /\ BatchInv(s) /\ SessionInv(s)
      /\ BatchRowChange(s, b) /\ EntryChange(s) /\ PendingBatchChange(s)
  BY BatchRowStep, EntryStep, PendingBatchStep DEF OutcomeInv, IInv
<1>2. job[s] = b => pc[s] \in Claiming
  BY DEF InProgress, Claiming
<1>3. batches'[b] = batches[b]
  BY <1>1, <1>2 DEF BatchRowChange, Claiming
<1>4. ASSUME NEW t \in Sessions, job'[t] = b, pc'[t] \notin Claiming
      PROVE  FALSE
  <2>1. CASE t # s
    <3>1. Same(t)
      BY <1>1, <2>1, OthersStay
    <3>. QED  BY <1>4, <3>1 DEF Same, InProgress, Claiming
  <2>2. CASE t = s
    <3>1. pc'[s] # "out"
      BY <1>1, <1>4, <2>2, ConfigAssumption DEF PendingBatchChange
    <3>2. job[s] = b /\ SeenBatch(s).status # "STARTED"
      BY <1>1, <1>2, <1>4, <2>2, <3>1 DEF EntryChange
    <3>3. pendBatch[s] = NoWrite
      BY <1>1, <1>2, <3>2 DEF BatchInv
    <3>. QED  BY <3>2, <3>3 DEF SeenBatch, Seen
  <2>. QED  BY <2>1, <2>2
<1>. QED  BY <1>3, <1>4 DEF InProgress, Claiming

\* A part that can be loaded goes to the end of the log, right behind the
\* batch's own orders.
LEMMA NextPartInLog ==
    ASSUME OutcomeInv, NEW s \in Sessions, Extends(s)
    PROVE  Log!Next
<1>1. /\ TypeOK /\ StartInv(s) /\ PassedInv(s) /\ pc[s] \in Planned
      /\ part[s] \in Parts /\ job[s] \in Batches /\ IInv
  BY DEF OutcomeInv, IInv, Extends, Planned
<1>2. PICK n \in Nat :
         /\ CommittedOrders = 1..n
         /\ start[s] + Offset(part[s]) = n + 1
         /\ PartIds(s, part[s]) = (n + 1)..(n + Size(part[s]))
         /\ part[s] = 1 => orders[job[s]] = {}
         /\ part[s] # 1 => start[s] \in orders[job[s]]
  BY <1>1, Extension DEF Extends
<1>3. PICK done \in Nat : done = Offset(part[s])
  BY <1>1, RangeFacts
<1>4. /\ start[s] \in Nat /\ start[s] = n - done + 1 /\ done < Orders
      /\ Size(part[s]) = IF Orders - done < BatchSize THEN Orders - done ELSE BatchSize
  <2>1. Size(part[s]) \in Nat \ {0} /\ Offset(part[s]) + Size(part[s]) <= Orders
    BY <1>1, RangeFacts
  <2>2. start[s] \in Nat /\ Orders \in Nat
    BY <1>1, ConfigAssumption DEF TypeOK
  <2>. QED  BY <1>2, <1>3, <2>1, <2>2 DEF Size
<1>5. orders[job[s]] \subseteq start[s]..n
  <2>1. orders[job[s]] \subseteq 1..n
    BY <1>1, <1>2 DEF CommittedOrders
  <2>2. \A i \in orders[job[s]] : start[s] <= i
    BY <1>1 DEF StartInv
  <2>. QED  BY <1>4, <2>1, <2>2
<1>6. start[s]..n \subseteq orders[job[s]]
  <2>. SUFFICES ASSUME NEW i \in start[s]..n
                PROVE  i \in orders[job[s]]
    OBVIOUS
  <2>1. i \in Nat /\ i - start[s] \in Nat /\ i - start[s] < done /\ i - start[s] < Orders
    BY <1>4, ConfigAssumption
  <2>2. PICK k \in Parts : Offset(k) <= i - start[s] /\ i - start[s] < Offset(k) + Size(k)
    BY <2>1, PartsCover
  <2>3. k \in Nat /\ part[s] \in Nat /\ Offset(k) \in Nat /\ Size(k) \in Nat
    BY <1>1, RangeFacts
  <2>4. k < part[s]
    <3>1. BatchSize \in Nat /\ Offset(k) < Offset(part[s])
      BY <1>3, <2>1, <2>2, <2>3, ConfigAssumption
    <3>2. ASSUME k >= part[s]
          PROVE  FALSE
      <4>1. (k - 1) - (part[s] - 1) \in Nat
        BY <2>3, <3>2
      <4>2. \A x, y, z \in Nat : (x - y) \in Nat => x * z >= y * z
        BY SMTT(30)
      <4>3. k - 1 \in Nat /\ part[s] - 1 \in Nat
        BY <1>1, <2>2, PartsFacts DEF Parts
      <4>4. (k - 1) * BatchSize >= (part[s] - 1) * BatchSize
        BY <3>1, <4>1, <4>2, <4>3
      <4>. QED  BY <3>1, <4>4, <2>3, <1>3 DEF Offset
    <3>. QED  BY <2>3, <3>2
  <2>5. i \in PartIds(s, k)
    BY <1>4, <2>1, <2>2, <2>3 DEF PartIds
  <2>. QED  BY <1>1, <2>4, <2>5 DEF PassedInv
<1>7. orders[job[s]] = (n - done + 1)..n
  BY <1>4, <1>5, <1>6
<1>8. Log!Logged = 1..n
  BY <1>2 DEF Log!Logged, CommittedOrders
<1>9. Log!Append(job[s], n, done)
  BY <1>2, <1>4, <1>7, <1>8 DEF Log!Append, Extends
<1>10. n \in Log!Logged \cup {0} /\ done \in 0..(Orders - 1)
  BY <1>4, <1>8, ConfigAssumption
<1>. QED  BY <1>1, <1>9, <1>10 DEF Log!Next

-----------------------------------------------------------------------------
(* The theorems.                                                           *)

\* OutcomeInv is an invariant of run_transaction_ingestion as the pipeline
\* runner calls it.
THEOREM OutcomeInductive ==
    ASSUME RunnerCalls
    PROVE  Spec => []OutcomeInv
<1>1. Init => OutcomeInv
  BY OutcomeInit
<1>. QED  BY <1>1, OutcomeStep, PTL DEF Spec

\* A part with a COMPLETED checkpoint is loaded: skipping it in a retry, as
\* start_batch_part does, skips no order.
THEOREM CompletedPartsAreLoaded ==
    ASSUME RunnerCalls
    PROVE  Spec => []CompletedPartIsLoaded
<1>1. OutcomeInv => CompletedPartIsLoaded
  BY DEF OutcomeInv
<1>. QED  BY <1>1, OutcomeInductive, PTL

\* A COMPLETED batch has exactly config.orders orders and a passing verdict,
\* however many attempts of however many sessions it took.
THEOREM CompletedBatchesAreWhole ==
    ASSUME RunnerCalls
    PROVE  Spec => []CompletedBatchIsWhole
<1>1. OutcomeInv => CompletedBatchIsWhole
  <2>. SUFFICES ASSUME OutcomeInv, NEW b \in Batches, batches[b].status = "COMPLETED"
                PROVE  Cardinality(orders[b]) = Orders /\ TRUE \in quality[b]
    BY DEF CompletedBatchIsWhole
  <2>1. TRUE \in quality[b] /\ \E n \in Nat : orders[b] = n..(n + Orders - 1)
    BY DEF OutcomeInv, WholeInv
  <2>2. PICK n \in Nat : orders[b] = n..(n + Orders - 1)
    BY <2>1
  <2>3. Orders \in Nat \ {0} /\ n \in Int /\ n + Orders - 1 \in Int
    BY ConfigAssumption
  <2>4. Cardinality(n..(n + Orders - 1)) = (n + Orders - 1) - n + 1
    BY <2>3, FS_Interval
  <2>5. (n + Orders - 1) - n + 1 = Orders
    BY <2>3
  <2>. QED  BY ONLY <2>1, <2>2, <2>4, <2>5
<1>. QED  BY <1>1, OutcomeInductive, PTL

\* A stored verdict is a passing one and stands beside the completion it let
\* happen; a failed attempt stores none.
THEOREM VerdictsComeWithCompletion ==
    ASSUME RunnerCalls
    PROVE  Spec => []VerdictComesWithCompletion
<1>1. OutcomeInv => VerdictComesWithCompletion
  BY DEF OutcomeInv
<1>. QED  BY <1>1, OutcomeInductive, PTL

\* A COMPLETED batch is final: neither a late failure handler nor a retry nor
\* another session changes its row or its orders.
THEOREM CompletionIsFinal ==
    ASSUME RunnerCalls
    PROVE  Spec => CompletedIsFinal
<1>1. OutcomeInv /\ OutcomeInv' /\ [Next]_vars =>
        [\A b \in Batches : batches[b].status = "COMPLETED" =>
            batches'[b] = batches[b] /\ orders'[b] = orders[b]]_vars
  <2>. SUFFICES ASSUME OutcomeInv, OutcomeInv', NEW s \in Sessions, SessionNext(s),
                       NEW b \in Batches, batches[b].status = "COMPLETED"
                PROVE  batches'[b] = batches[b] /\ orders'[b] = orders[b]
    BY NextIsSessionNext
  <2>1. batches'[b] = batches[b]
    BY CompletedRowStays
  <2>2. PICK n \in Nat : orders[b] = n..(n + Orders - 1)
    BY DEF OutcomeInv, WholeInv
  <2>3. /\ orders'[b] \in SUBSET Nat /\ orders[b] \subseteq orders'[b]
        /\ \A i, j \in orders'[b] : i - j < Orders
    BY OrdersGrow DEF OutcomeInv, IInv, TypeOK, NeverLoadedTwice
  <2>4. orders'[b] = n..(n + Orders - 1)
    BY <2>2, <2>3, FullRange
  <2>. QED  BY <2>1, <2>2, <2>4
<1>. QED  BY <1>1, OutcomeInductive, OutcomeStep, PTL DEF Spec, CompletedIsFinal

\* A STARTED batch whose process is gone is not taken up by anybody.
THEOREM AbandonedBatchesStay ==
    ASSUME RunnerCalls
    PROVE  Spec => AbandonedStaysStarted
<1>1. OutcomeInv /\ [Next]_vars =>
        [\A b \in Batches : batches[b].status = "STARTED" /\ ~InProgress(b) =>
            batches'[b] = batches[b] /\ ~InProgress(b)']_vars
  BY NextIsSessionNext, AbandonedStep
<1>. QED  BY <1>1, OutcomeInductive, PTL DEF Spec, AbandonedStaysStarted

\* TransactionIngestion implements OrderLog: retail.orders grows by whole parts
\* at its end, and a batch goes on only while its own orders are the last ones.
THEOREM ImplementsOrderLog ==
    ASSUME RunnerCalls
    PROVE  Spec => AppendsWholeParts
<1>1. Init => Log!Init
  BY DEF Init, Log!Init
<1>2. OutcomeInv /\ [Next]_vars => [Log!Next]_orders
  <2>. SUFFICES ASSUME OutcomeInv, [Next]_vars
                PROVE  Log!Next \/ orders' = orders
    OBVIOUS
  <2>1. ASSUME NEW s \in Sessions, SessionNext(s)
        PROVE  Log!Next \/ orders' = orders
    BY <2>1, OrdersStep, NextPartInLog DEF OutcomeInv
  <2>2. CASE UNCHANGED vars
    BY <2>2 DEF vars, dbVars
  <2>. QED  BY <2>1, <2>2, NextIsSessionNext
<1>. QED  BY <1>1, <1>2, OutcomeInductive, PTL DEF Spec, AppendsWholeParts, Log!Spec

-----------------------------------------------------------------------------
(* The items of a set of orders: a sum that does not depend on the order    *)
(* in which the orders are taken.                                          *)

\* Every order has a number of items.
ItemCounts == \A i \in Nat : ItemsOf(i) \in Nat

\* The element that the fold of the community modules takes next.
Picked(T) == CHOOSE x \in T : TRUE

\* f sums ItemsOf over the subsets of S, one element after the other.
Added(f, T) == IF T = {} THEN 0 ELSE ItemsOf(Picked(T)) + f[T \ {Picked(T)}]
Sums(f, S) == f = [T \in SUBSET S |-> Added(f, T)]

LEMMA PickedIsIn == \A T : T # {} => Picked(T) \in T
BY DEF Picked

\* A set of finite sets that is not empty has a smallest element.
LEMMA SmallestSet ==
    ASSUME NEW Bad, Bad # {}, \A T \in Bad : IsFiniteSet(T)
    PROVE  \E T \in Bad : \A U \in Bad : Cardinality(T) <= Cardinality(U)
<1>. DEFINE Sizes == {Cardinality(T) : T \in Bad}
<1>1. Sizes # {} /\ Sizes \in SUBSET Nat
  BY FS_CardinalityType
<1>. HIDE DEF Sizes
<1>2. PICK m \in Sizes : \A x \in Sizes : m <= x
  BY <1>1, LeastNat
<1>. QED  BY <1>2 DEF Sizes

\* Without one of its elements a set is smaller.
LEMMA WithoutOne ==
    ASSUME NEW T, IsFiniteSet(T), NEW x \in T
    PROVE  /\ IsFiniteSet(T \ {x})
           /\ Cardinality(T) \in Nat /\ Cardinality(T \ {x}) \in Nat
           /\ ~(Cardinality(T) <= Cardinality(T \ {x}))
           /\ \A n \in Nat : Cardinality(T) <= n => Cardinality(T \ {x}) <= n - 1
<1>1. /\ IsFiniteSet(T \ {x}) /\ Cardinality(T \ {x}) = Cardinality(T) - 1
      /\ Cardinality(T) \in Nat /\ Cardinality(T \ {x}) \in Nat
  BY FS_RemoveElement, FS_CardinalityType
<1>. QED  BY <1>1

\* The recursion of ItemsIn has a solution over every finite set.
LEMMA SumsExist ==
    ASSUME NEW S, IsFiniteSet(S)
    PROVE  \E f : Sums(f, S)
<1>. DEFINE Small(n) == {T \in SUBSET S : Cardinality(T) <= n}
            SumsTo(f, n) == f = [T \in Small(n) |-> Added(f, T)]
            Failing == {n \in Nat : ~\E f : SumsTo(f, n)}
<1>1. \A T \in SUBSET S : IsFiniteSet(T) /\ Cardinality(T) \in Nat
  BY FS_Subset, FS_CardinalityType
<1>2. Failing = {}
  <2>. SUFFICES ASSUME Failing # {}
                PROVE  FALSE
    OBVIOUS
  <2>1. PICK n \in Failing : \A x \in Failing : n <= x
    <3>1. Failing \in SUBSET Nat
      OBVIOUS
    <3>. HIDE DEF Failing
    <3>. QED  BY <3>1, LeastNat
  <2>2. n \in Nat /\ ~\E f : SumsTo(f, n)
    OBVIOUS
  <2>3. \A k \in Nat : k \notin Failing => \E f : SumsTo(f, k)
    <3>. HIDE DEF SumsTo
    <3>. QED  OBVIOUS
  <2>4. CASE n = 0
    <3>1. \A T \in Small(0) : T = {}
      BY <1>1, FS_EmptySet
    <3>2. SumsTo([T \in Small(0) |-> 0], 0)
      BY <3>1 DEF Added
    <3>. QED  BY <2>2, <2>4, <3>2
  <2>5. CASE n # 0
    <3>1. n - 1 \in Nat /\ n - 1 \notin Failing
      <4>. HIDE DEF Failing
      <4>. QED  BY <2>1, <2>2, <2>5
    <3>2. PICK f : SumsTo(f, n - 1)
      <4>. HIDE DEF SumsTo, Failing
      <4>. QED  BY <2>3, <3>1
    <3>. DEFINE g == [T \in Small(n) |-> Added(f, T)]
    <3>3. \A T \in Small(n) : Added(f, T) = Added(g, T)
      <4>. SUFFICES ASSUME NEW T \in Small(n)
                    PROVE  Added(f, T) = Added(g, T)
        OBVIOUS
      <4>1. CASE T = {}
        BY <4>1 DEF Added
      <4>2. CASE T # {}
        <5>. DEFINE U == T \ {Picked(T)}
        <5>1. Picked(T) \in T /\ IsFiniteSet(T)
          BY <4>2, <1>1, PickedIsIn
        <5>2. Cardinality(U) <= n - 1
          BY <5>1, <2>2, WithoutOne
        <5>3. U \in Small(n - 1) /\ U \in Small(n)
          BY <5>1, <5>2, <2>2, <1>1
        <5>4. f[U] = Added(f, U)
          BY <3>2, <5>3
        <5>5. g[U] = Added(f, U)
          BY <5>3
        <5>. HIDE DEF U, g
        <5>6. f[U] = g[U]
          BY <5>4, <5>5
        <5>. QED  BY <5>6 DEF Added, U
      <4>. QED  BY <4>1, <4>2
    <3>4. SumsTo(g, n)
      BY <3>3
    <3>. QED  BY <3>4, <2>2
  <2>. QED  BY <2>4, <2>5
<1>3. Cardinality(S) \in Nat /\ \A T \in SUBSET S : Cardinality(T) <= Cardinality(S)
  BY <1>1, FS_Subset, FS_CardinalityType
<1>4. PICK f : SumsTo(f, Cardinality(S))
  BY <1>2, <1>3
<1>5. Small(Cardinality(S)) = SUBSET S
  BY <1>3
<1>. QED  BY <1>4, <1>5 DEF Sums

\* ItemsIn is the value of such a solution.
LEMMA ItemsInSums ==
    ASSUME NEW S, IsFiniteSet(S)
    PROVE  \E f : Sums(f, S) /\ ItemsIn(S) = f[S]
BY SumsExist DEF ItemsIn, MapThenSumSet, MapThenFoldSet, Sums, Added, Picked

\* The solutions over a set and over a subset of it agree.
LEMMA SumsAgree ==
    ASSUME NEW S, IsFiniteSet(S), NEW R \in SUBSET S, NEW f, NEW g, Sums(f, S), Sums(g, R)
    PROVE  f[R] = g[R]
<1>. DEFINE Bad == {T \in SUBSET R : f[T] # g[T]}
<1>. SUFFICES ASSUME Bad # {}
              PROVE  FALSE
  OBVIOUS
<1>1. \A T \in Bad : IsFiniteSet(T)
  BY FS_Subset
<1>2. PICK T \in Bad : \A U \in Bad : Cardinality(T) <= Cardinality(U)
  <2>. HIDE DEF Bad
  <2>. QED  BY <1>1, SmallestSet
<1>3. T \in SUBSET R /\ f[T] # g[T] /\ IsFiniteSet(T)
  BY <1>1
<1>4. f[T] = Added(f, T) /\ g[T] = Added(g, T)
  BY <1>3 DEF Sums
<1>5. T # {}
  BY <1>3, <1>4 DEF Added
<1>. DEFINE U == T \ {Picked(T)}
<1>6. U \in SUBSET R /\ ~(Cardinality(T) <= Cardinality(U))
  BY <1>3, <1>5, PickedIsIn, WithoutOne
<1>7. f[U] = g[U]
  BY <1>2, <1>6
<1>. QED  BY <1>3, <1>4, <1>5, <1>7 DEF Added

LEMMA ItemsInEmpty == ItemsIn({}) = 0
BY ItemsInSums, FS_EmptySet DEF Sums, Added

LEMMA ItemsInPicked ==
    ASSUME NEW S, IsFiniteSet(S), S # {}
    PROVE  ItemsIn(S) = ItemsOf(Picked(S)) + ItemsIn(S \ {Picked(S)})
<1>. DEFINE R == S \ {Picked(S)}
<1>1. R \in SUBSET S /\ IsFiniteSet(R)
  BY FS_Subset
<1>2. PICK f : Sums(f, S) /\ ItemsIn(S) = f[S]
  BY ItemsInSums
<1>3. PICK g : Sums(g, R) /\ ItemsIn(R) = g[R]
  BY <1>1, ItemsInSums
<1>4. f[R] = g[R]
  <2>. HIDE DEF R
  <2>. QED  BY <1>1, <1>2, <1>3, SumsAgree
<1>5. f[S] = Added(f, S)
  BY <1>2 DEF Sums
<1>. QED  BY <1>2, <1>3, <1>4, <1>5 DEF Added

LEMMA ItemsInType ==
    ASSUME ItemCounts, NEW S \in SUBSET Nat, IsFiniteSet(S)
    PROVE  ItemsIn(S) \in Nat
<1>. DEFINE Bad == {T \in SUBSET S : ItemsIn(T) \notin Nat}
<1>. SUFFICES ASSUME Bad # {}
              PROVE  FALSE
  OBVIOUS
<1>1. \A T \in Bad : IsFiniteSet(T)
  BY FS_Subset
<1>2. PICK T \in Bad : \A U \in Bad : Cardinality(T) <= Cardinality(U)
  <2>. HIDE DEF Bad
  <2>. QED  BY <1>1, SmallestSet
<1>3. T \in SUBSET S /\ ItemsIn(T) \notin Nat /\ IsFiniteSet(T) /\ T # {}
  BY <1>1, ItemsInEmpty
<1>. DEFINE U == T \ {Picked(T)}
<1>4. Picked(T) \in T /\ U \in SUBSET S /\ ~(Cardinality(T) <= Cardinality(U))
  BY <1>3, PickedIsIn, WithoutOne
<1>5. ItemsIn(U) \in Nat /\ ItemsOf(Picked(T)) \in Nat
  BY <1>2, <1>4 DEF ItemCounts
<1>6. ItemsIn(T) = ItemsOf(Picked(T)) + ItemsIn(U)
  BY <1>3, ItemsInPicked
<1>. QED  BY <1>3, <1>5, <1>6

\* The sum does not depend on the order of the elements.
LEMMA ItemsInWithout ==
    ASSUME ItemCounts, NEW S \in SUBSET Nat, IsFiniteSet(S), NEW x \in S
    PROVE  ItemsIn(S) = ItemsOf(x) + ItemsIn(S \ {x})
<1>. DEFINE Bad == {T \in SUBSET S : \E z \in T : ItemsIn(T) # ItemsOf(z) + ItemsIn(T \ {z})}
<1>. SUFFICES ASSUME Bad # {}
              PROVE  FALSE
  OBVIOUS
<1>1. \A T \in SUBSET S : IsFiniteSet(T)
  BY FS_Subset
<1>2. PICK T \in Bad : \A U \in Bad : Cardinality(T) <= Cardinality(U)
  <2>1. \A T \in Bad : IsFiniteSet(T)
    BY <1>1
  <2>. HIDE DEF Bad
  <2>. QED  BY <2>1, SmallestSet
<1>3. PICK z \in T : ItemsIn(T) # ItemsOf(z) + ItemsIn(T \ {z})
  BY <1>2
<1>4. T \in SUBSET S /\ IsFiniteSet(T) /\ T # {}
  BY <1>1, <1>2, <1>3
<1>. DEFINE y == Picked(T)
            U == T \ {y}
            V == T \ {z}
            W == U \ {z}
<1>5. y \in T /\ ItemsIn(T) = ItemsOf(y) + ItemsIn(U)
  BY <1>4, PickedIsIn, ItemsInPicked
<1>. HIDE DEF y
<1>6. y # z
  BY <1>3, <1>5
<1>7. \A Z \in {U, V, W} : Z \in SUBSET S /\ IsFiniteSet(Z) /\ ItemsIn(Z) \in Nat
  BY <1>1, <1>4, ItemsInType
<1>8. ItemsOf(z) \in Nat /\ ItemsOf(y) \in Nat
  BY <1>3, <1>4, <1>5 DEF ItemCounts
<1>9. \A Z \in {U, V} : ~(Cardinality(T) <= Cardinality(Z))
  BY <1>3, <1>4, <1>5, WithoutOne
<1>10. \A Z \in {U, V} : \A w \in Z : ItemsIn(Z) = ItemsOf(w) + ItemsIn(Z \ {w})
  BY <1>2, <1>7, <1>9
<1>11. ItemsIn(U) = ItemsOf(z) + ItemsIn(W)
  BY <1>3, <1>6, <1>10
<1>12. ItemsIn(V) = ItemsOf(y) + ItemsIn(W)
  <2>1. y \in V /\ V \ {y} = W
    BY <1>5, <1>6
  <2>. QED  BY <1>10, <2>1
<1>. QED  BY <1>3, <1>5, <1>7, <1>8, <1>11, <1>12

-----------------------------------------------------------------------------
(* The numbering of the items.                                             *)

\* The first item of order i when the orders from 1 on are numbered without a hole.
FirstItem(i) == ItemsIn(1..(i - 1)) + 1

\* The rows of order i in that numbering, and of a set of orders.
Block(i) == {i} \X (FirstItem(i) .. (FirstItem(i) + ItemsOf(i) - 1))
Blocks(ids) == UNION {Block(i) : i \in ids}

\* The sums over ranges of orders.
LEMMA Ranges ==
    ASSUME NEW a \in Nat, NEW b \in Nat
    PROVE  a..b \in SUBSET Nat /\ IsFiniteSet(a..b)
<1>1. a \in Int /\ b \in Int
  OBVIOUS
<1>. QED  BY <1>1, FS_Interval

LEMMA ItemsInRange ==
    ASSUME ItemCounts, NEW a \in Nat, NEW b \in Nat
    PROVE  ItemsIn(a..b) \in Nat
BY Ranges, ItemsInType

LEMMA LastOrder ==
    ASSUME ItemCounts, NEW a \in Nat, NEW b \in Nat, a <= b
    PROVE  ItemsIn(a..b) = ItemsOf(b) + ItemsIn(a..(b - 1))
<1>. DEFINE R == a..b
<1>1. b \in R /\ R \ {b} = a..(b - 1)
  OBVIOUS
<1>2. R \in SUBSET Nat /\ IsFiniteSet(R)
  BY Ranges
<1>. HIDE DEF R
<1>3. ItemsIn(R) = ItemsOf(b) + ItemsIn(R \ {b})
  BY <1>1, <1>2, ItemsInWithout
<1>4. ItemsIn(R) = ItemsOf(b) + ItemsIn(a..(b - 1))
  BY <1>1, <1>3
<1>. QED  BY <1>4 DEF R

\* The items up to order b are those before order a and those from a on.
LEMMA ItemsSplit ==
    ASSUME ItemCounts, NEW a \in Nat \ {0}, NEW b \in Nat, a - 1 <= b
    PROVE  ItemsIn(1..b) = ItemsIn(1..(a - 1)) + ItemsIn(a..b)
<1>. DEFINE Bad == {n \in Nat : a - 1 <= n /\ ItemsIn(1..n) # ItemsIn(1..(a - 1)) + ItemsIn(a..n)}
<1>. SUFFICES ASSUME Bad # {}
              PROVE  FALSE
  OBVIOUS
<1>1. PICK n \in Bad : \A x \in Bad : n <= x
  <2>1. Bad \in SUBSET Nat
    OBVIOUS
  <2>. HIDE DEF Bad
  <2>. QED  BY <2>1, LeastNat
<1>2. n \in Nat /\ a - 1 <= n /\ ItemsIn(1..n) # ItemsIn(1..(a - 1)) + ItemsIn(a..n)
  OBVIOUS
<1>3. CASE n = a - 1
  <2>1. a..n = {}
    BY <1>3
  <2>2. ItemsIn(1..(a - 1)) \in Nat
    BY ItemsInRange
  <2>. QED  BY <1>2, <1>3, <2>1, <2>2, ItemsInEmpty
<1>4. CASE n # a - 1
  <2>1. n - 1 \in Nat /\ a - 1 <= n - 1 /\ ~(n <= n - 1)
    BY <1>2, <1>4
  <2>2. ItemsIn(1..(n - 1)) = ItemsIn(1..(a - 1)) + ItemsIn(a..(n - 1))
    BY <1>1, <2>1
  <2>3. 1 \in Nat /\ 1 <= n /\ a \in Nat /\ a <= n /\ a - 1 \in Nat
    BY <1>2, <1>4
  <2>4. ItemsIn(1..n) = ItemsOf(n) + ItemsIn(1..(n - 1))
    BY <1>2, <2>3, LastOrder
  <2>5. ItemsIn(a..n) = ItemsOf(n) + ItemsIn(a..(n - 1))
    BY <1>2, <2>3, LastOrder
  <2>6. /\ ItemsOf(n) \in Nat /\ ItemsIn(1..(a - 1)) \in Nat
        /\ ItemsIn(a..(n - 1)) \in Nat
    BY <1>2, <2>1, <2>3, ItemsInRange DEF ItemCounts
  <2>. QED  BY <1>2, <2>2, <2>4, <2>5, <2>6
<1>. QED  BY <1>3, <1>4

\* What ItemRows lists for a range of orders behind the others.
LEMMA ItemRowsAreBlocks ==
    ASSUME ItemCounts, NEW a \in Nat \ {0}, NEW b \in Nat
    PROVE  ItemRows(a..b, FirstItem(a)) = Blocks(a..b)
<1>1. ASSUME NEW i \in a..b
      PROVE  LET before == {j \in a..b : j < i}
                 base == FirstItem(a) + ItemsIn(before)
             IN  {i} \X (base .. (base + ItemsOf(i) - 1)) = Block(i)
  <2>1. {j \in a..b : j < i} = a..(i - 1)
    OBVIOUS
  <2>2. ItemsIn(1..(i - 1)) = ItemsIn(1..(a - 1)) + ItemsIn(a..(i - 1))
    BY ItemsSplit
  <2>3. ItemsIn(1..(a - 1)) \in Nat /\ ItemsIn(a..(i - 1)) \in Nat
    <3>1. 1 \in Nat /\ a \in Nat /\ a - 1 \in Nat /\ i - 1 \in Nat
      OBVIOUS
    <3>. QED  BY <3>1, ItemsInRange
  <2>4. FirstItem(a) + ItemsIn(a..(i - 1)) = FirstItem(i)
    BY <2>2, <2>3 DEF FirstItem
  <2>. QED  BY <2>1, <2>4 DEF Block
<1>. QED  BY <1>1 DEF ItemRows, Blocks

\* Order i + 1 starts behind the items of order i.
LEMMA FirstItems ==
    ASSUME ItemCounts, NEW i \in Nat \ {0}
    PROVE  /\ FirstItem(i) \in Nat \ {0} /\ ItemsOf(i) \in Nat
           /\ FirstItem(i) + ItemsOf(i) = FirstItem(i + 1)
<1>1. 1 \in Nat /\ i \in Nat /\ i - 1 \in Nat /\ 1 <= i /\ (i + 1) - 1 = i
  OBVIOUS
<1>2. ItemsIn(1..(i - 1)) \in Nat /\ ItemsOf(i) \in Nat
  BY <1>1, ItemsInRange DEF ItemCounts
<1>3. ItemsIn(1..i) = ItemsOf(i) + ItemsIn(1..(i - 1))
  BY <1>1, LastOrder
<1>4. FirstItem(i + 1) = ItemsIn(1..i) + 1 /\ FirstItem(i) = ItemsIn(1..(i - 1)) + 1
  BY <1>1 DEF FirstItem
<1>. QED  BY <1>2, <1>3, <1>4

LEMMA FirstOfAll == FirstItem(1) = 1
<1>1. 1..(1 - 1) = {}
  OBVIOUS
<1>. QED  BY <1>1, ItemsInEmpty DEF FirstItem

\* The items of the first n orders have the ids from 1 on.
LEMMA ItemIdsOfLog ==
    ASSUME ItemCounts, NEW n \in Nat
    PROVE  ItemIds(Blocks(1..n)) = 1..(FirstItem(n + 1) - 1)
<1>1. FirstItem(1) = 1
  BY FirstOfAll
<1>2. ASSUME NEW i \in 1..n
      PROVE  FirstItem(i + 1) <= FirstItem(n + 1)
  <2>1. ItemsIn(1..n) = ItemsIn(1..i) + ItemsIn((i + 1)..n)
    <3>1. i + 1 \in Nat \ {0} /\ (i + 1) - 1 <= n /\ (i + 1) - 1 = i
      OBVIOUS
    <3>. QED  BY <3>1, ItemsSplit
  <2>2. ItemsIn(1..i) \in Nat /\ ItemsIn((i + 1)..n) \in Nat
    <3>1. 1 \in Nat /\ i \in Nat /\ i + 1 \in Nat
      OBVIOUS
    <3>. QED  BY <3>1, ItemsInRange
  <2>. QED  BY <2>1, <2>2 DEF FirstItem
<1>3. ASSUME NEW x \in ItemIds(Blocks(1..n))
      PROVE  x \in 1..(FirstItem(n + 1) - 1)
  <2>1. PICK i \in 1..n : x \in FirstItem(i) .. (FirstItem(i) + ItemsOf(i) - 1)
    BY DEF ItemIds, Blocks, Block
  <2>2. /\ FirstItem(i) \in Nat \ {0} /\ ItemsOf(i) \in Nat
        /\ FirstItem(i) + ItemsOf(i) = FirstItem(i + 1) /\ FirstItem(n + 1) \in Nat
    <3>1. i \in Nat \ {0} /\ n + 1 \in Nat \ {0}
      OBVIOUS
    <3>. QED  BY <3>1, FirstItems
  <2>. QED  BY <1>2, <2>1, <2>2
<1>4. ASSUME NEW x \in 1..(FirstItem(n + 1) - 1)
      PROVE  x \in ItemIds(Blocks(1..n))
  <2>. DEFINE Behind == {i \in Nat : i >= 1 /\ x < FirstItem(i)}
  <2>1. n + 1 \in Behind /\ Behind \in SUBSET Nat
    BY FirstItems
  <2>2. PICK k \in Behind : \A i \in Behind : k <= i
    <3>. HIDE DEF Behind
    <3>. QED  BY <2>1, LeastNat
  <2>3. k \in Nat /\ k # 1 /\ k >= 1 /\ x < FirstItem(k) /\ k <= n + 1
    BY <1>1, <2>1, <2>2
  <2>. DEFINE i == k - 1
  <2>4. i \in 1..n /\ i + 1 = k /\ ~(k <= i)
    BY <2>3
  <2>5. ~(x < FirstItem(i))
    BY <2>2, <2>4
  <2>6. /\ FirstItem(i) \in Nat \ {0} /\ ItemsOf(i) \in Nat
        /\ FirstItem(i) + ItemsOf(i) = FirstItem(k)
    BY <2>4, FirstItems
  <2>. HIDE DEF i
  <2>7. x \in FirstItem(i) .. (FirstItem(i) + ItemsOf(i) - 1)
    BY <2>3, <2>5, <2>6
  <2>8. <<i, x>> \in Block(i)
    BY <2>7 DEF Block
  <2>9. <<i, x>> \in Blocks(1..n)
    BY <2>4, <2>8 DEF Blocks
  <2>. QED  BY <2>9 DEF ItemIds
<1>. QED  BY <1>3, <1>4

LEMMA BlocksOfUnion ==
    /\ Blocks({}) = {}
    /\ \A A, B : Blocks(A \cup B) = Blocks(A) \cup Blocks(B)
BY DEF Blocks

-----------------------------------------------------------------------------
(* The inductive invariant, next to OutcomeInv.                            *)

\* A session that has an item id for its first order has the one that follows
\* the items before it, or another batch has taken its first order id.
ItemStartInv(s) ==
    /\ pc[s] = "allocate" => itemStart[s] = 0
    /\ pc[s] \in Planned \ {"resume"} => itemStart[s] # 0
    /\ pc[s] = "resume" /\ itemStart[s] = 0 => parts[job[s]][1].status = "ABSENT"
    /\ pc[s] \in Planned /\ itemStart[s] # 0 =>
          itemStart[s] = FirstItem(start[s]) \/ start[s] \in CommittedOrders \ orders[job[s]]

\* What is pending as the pinned item id is the session's own.
PendPinInv(s) ==
    /\ pendPin[s] # 0 => pc[s] \in HoldsParts /\ part[s] = 1 /\ pendPin[s] = itemStart[s]
    /\ pc[s] \in {"load", "complete"} /\ part[s] = 1 => open[s] /\ pendPin[s] # 0

\* The two ids that part 1 pins belong together.
PinnedItems(b) ==
    parts[b][1].status # "ABSENT" =>
        parts[b][1].start \in orders[b] /\ pin[b] = FirstItem(parts[b][1].start)

ItemInv ==
    /\ OutcomeInv
    /\ items = Blocks(CommittedOrders)
    /\ pendItems = [s \in Sessions |-> Blocks(pendOrders[s])]
    /\ pin \in [Batches -> Nat]
    /\ pendPin \in [Sessions -> Nat]
    /\ itemStart \in [Sessions -> Nat]
    /\ \A s \in Sessions : ItemStartInv(s) /\ PendPinInv(s)
    /\ \A b \in Batches : PinnedItems(b)

-----------------------------------------------------------------------------
(* What one step does to the items.                                        *)

ItemSessionNext(s) ==
    \/ \E b \in Batches, inTx \in CallerInTx : Call(s, b, inTx) /\ UNCHANGED itemVars
    \/ ItemStep(s)
    \/ Fault(s) /\ UNCHANGED itemVars
    \/ Crash(s) /\ DropItems(s) /\ Forget(s)

LEMMA ItemNextIsSessionNext == ItemNext => \E s \in Sessions : ItemSessionNext(s)
BY DEF ItemNext, ItemSessionNext

\* A step of the items is one of the ingestion, or reads the next item id.
LEMMA UnderStep ==
    ASSUME NEW s \in Sessions, ItemSessionNext(s)
    PROVE  SessionNext(s) \/ AllocateItemStart(s)
BY DEF ItemSessionNext, ItemStep, SessionNext, Step, ReadItemStart, RegisterPart, LoadItems,
       CompleteItems

\* The rows that a part can load continue the numbering of the committed ones.
LEMMA PartItemsContinue ==
    ASSUME ItemCounts, ItemInv, NEW s \in Sessions, pc[s] = "load",
           PartIds(s, part[s]) \cap CommittedOrders = {}
    PROVE  PartItems(s, part[s]) = Blocks(PartIds(s, part[s]))
<1>1. /\ TypeOK /\ IInv /\ SessionInv(s) /\ StartInv(s) /\ ItemStartInv(s)
      /\ pc[s] \in Planned /\ pc[s] # "resume"
  BY DEF ItemInv, OutcomeInv, IInv, Planned
<1>2. part[s] \in Parts /\ job[s] \in Batches
  BY <1>1 DEF SessionInv, OnPart
<1>3. PICK n \in Nat :
         /\ CommittedOrders = 1..n
         /\ start[s] + Offset(part[s]) = n + 1
         /\ PartIds(s, part[s]) = (n + 1)..(n + Size(part[s]))
         /\ part[s] = 1 => orders[job[s]] = {}
         /\ part[s] # 1 => start[s] \in orders[job[s]]
  BY <1>1, <1>2, Extension
<1>4. start[s] \in Nat \ {0} /\ Offset(part[s]) \in Nat /\ Offset(1) = 0 /\ Size(part[s]) \in Nat
  BY <1>1, <1>2, RangeFacts DEF TypeOK, StartInv
<1>5. itemStart[s] = FirstItem(start[s])
  <2>1. start[s] \notin CommittedOrders \ orders[job[s]]
    BY <1>3, <1>4
  <2>. QED  BY <1>1, <2>1 DEF ItemStartInv
<1>6. OrderItemOffset(s, part[s]) = ItemsIn(start[s]..n)
  <2>1. start[s] + Offset(part[s]) - 1 = n
    BY <1>3, <1>4
  <2>. QED  BY <2>1 DEF OrderItemOffset
<1>7. ItemsIn(1..n) = ItemsIn(1..(start[s] - 1)) + ItemsIn(start[s]..n)
  <2>1. start[s] - 1 <= n
    BY <1>3, <1>4
  <2>. QED  BY <1>3, <1>4, <2>1, ItemsSplit
<1>8. ItemsIn(1..(start[s] - 1)) \in Nat /\ ItemsIn(start[s]..n) \in Nat
  <2>1. 1 \in Nat /\ start[s] \in Nat /\ start[s] - 1 \in Nat
    BY <1>4
  <2>. QED  BY <2>1, ItemsInRange
<1>9. itemStart[s] + OrderItemOffset(s, part[s]) = FirstItem(n + 1)
  <2>1. (n + 1) - 1 = n
    OBVIOUS
  <2>2. FirstItem(n + 1) = ItemsIn(1..n) + 1 /\ FirstItem(start[s]) = ItemsIn(1..(start[s] - 1)) + 1
    BY <2>1 DEF FirstItem
  <2>. QED  BY <1>5, <1>6, <1>7, <1>8, <2>2
<1>10. n + 1 \in Nat \ {0} /\ n + Size(part[s]) \in Nat
  BY <1>3, <1>4
<1>11. ItemRows((n + 1)..(n + Size(part[s])), FirstItem(n + 1)) = Blocks((n + 1)..(n + Size(part[s])))
  BY <1>10, ItemRowsAreBlocks
<1>. QED  BY <1>3, <1>9, <1>11 DEF PartItems

\* Orders and items that change together keep the items those of the orders.
ItemsMatch ==
    /\ items = Blocks(CommittedOrders)
    /\ pendItems = [s \in Sessions |-> Blocks(pendOrders[s])]

LEMMA ItemsMatchKept ==
    ASSUME ItemCounts, ItemInv, NEW s \in Sessions, ItemSessionNext(s)
    PROVE  ItemsMatch'
<1>a. /\ TypeOK /\ SessionInv(s) /\ PendingInv(s)
      /\ items = Blocks(CommittedOrders)
      /\ pendItems = [t \in Sessions |-> Blocks(pendOrders[t])]
  BY DEF ItemInv, OutcomeInv, IInv
<1>b. pendOrders \in [Sessions -> SUBSET Nat] /\ orders \in [Batches -> SUBSET Nat]
  BY <1>a DEF TypeOK
<1>q. ASSUME UNCHANGED <<orders, pendOrders, items, pendItems>>
      PROVE  ItemsMatch'
  BY <1>a, <1>q DEF ItemsMatch, CommittedOrders
<1>d. ASSUME UNCHANGED <<orders, items>>,
             pendOrders' = [pendOrders EXCEPT ![s] = {}], pendItems' = [pendItems EXCEPT ![s] = {}]
      PROVE  ItemsMatch'
  <2>1. CommittedOrders' = CommittedOrders
    BY <1>d DEF CommittedOrders
  <2>2. pendItems' = [t \in Sessions |-> Blocks(pendOrders'[t])]
    BY <1>a, <1>b, <1>d, BlocksOfUnion
  <2>. QED  BY <1>a, <1>d, <2>1, <2>2 DEF ItemsMatch
<1>c. ASSUME NEW ids \in SUBSET Nat, job[s] \in Batches,
             orders' = [orders EXCEPT ![job[s]] = @ \cup ids], items' = items \cup Blocks(ids)
      PROVE  items' = Blocks(CommittedOrders')
  <2>1. CommittedOrders' = CommittedOrders \cup ids
    BY <1>b, <1>c DEF CommittedOrders
  <2>. QED  BY <1>a, <1>c, <2>1, BlocksOfUnion
<1>e. ASSUME pc[s] \notin HoldsOrders, UNCHANGED <<orders, items, pendItems>>, EndTransaction(s)
      PROVE  ItemsMatch'
  <2>1. pendOrders[s] = {}
    BY <1>a, <1>e DEF PendingInv
  <2>2. pendOrders' = pendOrders
    BY <1>b, <1>e, <2>1 DEF EndTransaction
  <2>. QED  BY <1>e, <2>2, <1>q
<1>w. ASSUME CommitItems(s), orders' = [orders EXCEPT ![job[s]] = @ \cup pendOrders[s]],
             EndTransaction(s), job[s] \in Batches
      PROVE  ItemsMatch'
  <2>1. items' = items \cup Blocks(pendOrders[s]) /\ pendOrders[s] \in SUBSET Nat
    BY <1>a, <1>b, <1>w DEF CommitItems
  <2>2. items' = Blocks(CommittedOrders')
    BY <1>c, <1>w, <2>1
  <2>3. /\ pendOrders' = [pendOrders EXCEPT ![s] = {}]
        /\ pendItems' = [pendItems EXCEPT ![s] = {}]
    BY <1>w DEF EndTransaction, CommitItems
  <2>4. pendItems' = [t \in Sessions |-> Blocks(pendOrders'[t])]
    BY <1>a, <1>b, <2>3, BlocksOfUnion
  <2>. QED  BY <2>2, <2>4 DEF ItemsMatch
<1>1. ASSUME NEW b \in Batches, NEW inTx \in CallerInTx, Call(s, b, inTx), UNCHANGED itemVars
      PROVE  ItemsMatch'
  BY <1>1, <1>q DEF Call, dbVars, pendVars, itemVars
<1>2. CASE (StartBatch(s) \/ InspectBatch(s) \/ RetryFailedBatch(s)) /\ UNCHANGED itemVars
  <2>1. pc[s] \notin HoldsOrders /\ UNCHANGED <<orders, items, pendItems>>
    BY <1>2 DEF StartBatch, InspectBatch, RetryFailedBatch, dbVars, itemVars, HoldsOrders
  <2>2. UNCHANGED pendOrders \/ EndTransaction(s)
    BY <1>2 DEF StartBatch, InspectBatch, RetryFailedBatch, pendVars
  <2>. QED  BY <2>1, <2>2, <1>q, <1>e
<1>3. CASE ReadItemStart(s) \/ (AllocateStartId(s) /\ UNCHANGED itemVars)
           \/ (ReadCompletedParts(s) /\ UNCHANGED itemVars) \/ (SelectPart(s) /\ UNCHANGED itemVars)
  BY <1>3, <1>q DEF ReadItemStart, ReadStartIds, AllocateStartId, ReadCompletedParts, SelectPart,
                    dbVars, pendVars, itemVars
<1>4. CASE AllocateItemStart(s)
  BY <1>4, <1>q DEF AllocateItemStart, vars, dbVars, pendVars
<1>5. CASE RegisterPart(s)
  BY <1>5, <1>q DEF RegisterPart, InsertPart, ReclaimPart
<1>6. CASE LoadItems(s)
  <2>1. pc[s] = "load" /\ LoadPart(s) /\ job[s] \in Batches
    BY <1>6, <1>a DEF LoadItems, LoadPart, SessionInv
  <2>2. CASE PartIds(s, part[s]) \cap SeenOrders(s) # {} /\ Goto(s, "failPart") /\ UNCHANGED <<orders, pendOrders>>
    <3>1. pc'[s] = "failPart"
      BY <2>2, <1>a DEF Goto, TypeOK
    <3>. QED  BY <1>6, <2>2, <3>1, <1>q DEF LoadItems
  <2>3. CASE /\ PartIds(s, part[s]) \cap (SeenOrders(s) \cup PendingOrders(s)) = {}
             /\ WriteOrders(s, PartIds(s, part[s])) /\ Goto(s, "complete")
    <3>1. pc'[s] = "complete"
      BY <2>3, <1>a DEF Goto, TypeOK
    <3>2. PartIds(s, part[s]) \cap CommittedOrders = {}
      BY <2>3 DEF SeenOrders
    <3>3. PartItems(s, part[s]) = Blocks(PartIds(s, part[s]))
      BY <2>1, <3>2, PartItemsContinue
    <3>. DEFINE ids == PartIds(s, part[s])
    <3>4. ids \in SUBSET Nat
      <4>1. part[s] \in Parts /\ start[s] \in Nat
        BY <2>1, <1>a DEF SessionInv, OnPart, TypeOK
      <4>2. Offset(part[s]) \in Nat
        BY <4>1, RangeFacts
      <4>3. Size(part[s]) \in Nat
        BY <4>1, RangeFacts
      <4>. QED  BY <4>1, <4>2, <4>3 DEF PartIds
    <3>5. CASE open[s]
      <4>1. /\ pendOrders' = [pendOrders EXCEPT ![s] = @ \cup ids] /\ orders' = orders
            /\ pendItems' = [pendItems EXCEPT ![s] = @ \cup Blocks(ids)] /\ items' = items
        BY <1>6, <2>3, <3>1, <3>3, <3>5 DEF LoadItems, WriteOrders
      <4>2. CommittedOrders' = CommittedOrders
        BY <4>1 DEF CommittedOrders
      <4>. HIDE DEF ids
      <4>3. pendItems' = [t \in Sessions |-> Blocks(pendOrders'[t])]
        BY <1>a, <1>b, <4>1, BlocksOfUnion
      <4>. QED  BY <1>a, <4>1, <4>2, <4>3 DEF ItemsMatch
    <3>6. CASE ~open[s]
      <4>1. /\ orders' = [orders EXCEPT ![job[s]] = @ \cup ids] /\ pendOrders' = pendOrders
            /\ items' = items \cup Blocks(ids) /\ pendItems' = pendItems
        BY <1>6, <2>3, <3>1, <3>3, <3>6 DEF LoadItems, WriteOrders
      <4>. HIDE DEF ids
      <4>2. items' = Blocks(CommittedOrders')
        BY <1>c, <2>1, <3>4, <4>1
      <4>. QED  BY <1>a, <4>1, <4>2 DEF ItemsMatch
    <3>. QED  BY <3>5, <3>6
  <2>. QED  BY <2>1, <2>2, <2>3 DEF LoadPart
<1>7. CASE CompleteItems(s)
  <2>1. pc[s] = "complete" /\ job[s] \in Batches /\ CompletePart(s)
    BY <1>7, <1>a DEF CompleteItems, CompletePart, SessionInv
  <2>2. CASE SeenPart(s, part[s]).status = "STARTED"
    <3>1. /\ EndTransaction(s) /\ orders' = [orders EXCEPT ![job[s]] = @ \cup pendOrders[s]]
          /\ pc'[s] = "heartbeat"
      BY <2>1, <2>2, <1>a DEF CompletePart, CommitWith, Goto, TypeOK
    <3>. QED  BY <1>7, <2>1, <3>1, <1>w DEF CompleteItems
  <2>3. CASE SeenPart(s, part[s]).status # "STARTED"
    <3>1. UNCHANGED <<orders, pendOrders>> /\ pc'[s] = "failPart"
      BY <2>1, <2>3, <1>a DEF CompletePart, dbVars, pendVars, Goto, TypeOK
    <3>. QED  BY <1>7, <3>1, <1>q DEF CompleteItems, itemVars
  <2>. QED  BY <2>2, <2>3
<1>8. CASE (HeartbeatBatch(s) \/ FailPart(s) \/ Reconcile(s) \/ CheckQuality(s) \/ CompleteBatch(s)
            \/ Fault(s)) /\ UNCHANGED itemVars
  BY <1>8, <1>q DEF HeartbeatBatch, FailPart, Reconcile, CheckQuality, CompleteBatch, Fault,
                    dbVars, pendVars, itemVars
<1>9. CASE Return(s) /\ CommitItems(s)
  <2>1. job[s] \in Batches
    BY <1>9, <1>a DEF Return, SessionInv
  <2>. QED  BY <1>9, <2>1, <1>w DEF Return, CommitWith
<1>10. CASE (Rollback(s) \/ Crash(s)) /\ DropItems(s)
  BY <1>10, <1>d DEF Rollback, Crash, EndTransaction, DropItems, dbVars
<1>11. CASE FailBatch(s) /\ UNCHANGED <<items, pin, pendItems, pendPin>>
  BY <1>11, <1>q DEF FailBatch
<1>. QED
  BY <1>1, <1>2, <1>3, <1>4, <1>5, <1>6, <1>7, <1>8, <1>9, <1>10, <1>11
  DEF ItemSessionNext, ItemStep

-----------------------------------------------------------------------------
(* What one step does to the item ids.                                     *)

\* A session keeps the id of its first item, forgets it at the end, or reads it.
ItemStartChange(s) ==
    \/ /\ itemStart' = itemStart /\ pc'[s] # "allocate"
       /\ pc'[s] = "resume" => AllocateStartId(s)
       /\ pc'[s] \in Planned \ {"resume"} =>
             pc[s] \in Planned /\ itemStart[s] # 0 /\ start'[s] = start[s] /\ job'[s] = job[s]
    \/ itemStart' = [itemStart EXCEPT ![s] = 0] /\ pc'[s] = "out"
    \/ ReadItemStart(s)
    \/ AllocateItemStart(s)

LEMMA ItemStartStep ==
    ASSUME ItemInv, NEW s \in Sessions, ItemSessionNext(s)
    PROVE  ItemStartChange(s)
<1>a. TypeOK /\ ItemStartInv(s)
  BY DEF ItemInv, OutcomeInv, IInv
<1>g. ASSUME NEW l \in Labels, Goto(s, l)
      PROVE  pc'[s] = l
  BY <1>g, <1>a DEF Goto, TypeOK
<1>l. Leave(s) => pc'[s] = "out"
  BY <1>g DEF Leave, Labels
<1>n. ASSUME itemStart' = itemStart, pc'[s] \notin Planned \cup {"allocate"}
      PROVE  ItemStartChange(s)
  BY <1>n DEF ItemStartChange, Planned
<1>k. ASSUME itemStart' = itemStart, pc[s] \in Planned, itemStart[s] # 0,
             pc'[s] \notin {"allocate", "resume"}, start' = start, job' = job
      PROVE  ItemStartChange(s)
  BY <1>k DEF ItemStartChange
<1>1. ASSUME NEW b \in Batches, NEW inTx \in CallerInTx, Call(s, b, inTx), UNCHANGED itemVars
      PROVE  ItemStartChange(s)
  <2>1. pc'[s] = "claim"
    BY <1>1, <1>g DEF Call, Labels
  <2>. QED  BY <1>1, <2>1, <1>n DEF itemVars, Planned
<1>2. CASE (StartBatch(s) \/ InspectBatch(s) \/ RetryFailedBatch(s)) /\ UNCHANGED itemVars
  <2>1. pc'[s] \in {"start", "inspect", "retry", "returned", "out"}
    BY <1>2, <1>g, <1>l DEF StartBatch, InspectBatch, RetryFailedBatch, Labels
  <2>. QED  BY <1>2, <2>1, <1>n DEF itemVars, Planned
<1>3. CASE AllocateStartId(s) /\ UNCHANGED itemVars
  <2>1. pc'[s] = "resume"
    BY <1>3, <1>g DEF AllocateStartId, Labels
  <2>. QED  BY <1>3, <2>1 DEF itemVars, ItemStartChange
<1>4. CASE ReadCompletedParts(s) /\ itemStart[s] # 0 /\ UNCHANGED itemVars
  <2>1. pc'[s] = "part"
    BY <1>4, <1>g DEF ReadCompletedParts, Labels
  <2>. QED  BY <1>4, <2>1, <1>k DEF ReadCompletedParts, itemVars, Planned
<1>p. ASSUME pc[s] \in Planned \ {"resume"}, UNCHANGED <<itemStart, start, job>>,
             pc'[s] \notin {"allocate", "resume"}
      PROVE  ItemStartChange(s)
  BY <1>a, <1>p, <1>k DEF ItemStartInv
<1>5. CASE (SelectPart(s) \/ HeartbeatBatch(s) \/ FailPart(s) \/ Reconcile(s) \/ CheckQuality(s)
            \/ CompleteBatch(s)) /\ UNCHANGED itemVars
  <2>1. UNCHANGED <<itemStart, start, job>> /\ pc[s] \in Planned \ {"resume"}
    BY <1>5 DEF SelectPart, HeartbeatBatch, FailPart, Reconcile, CheckQuality, CompleteBatch,
                itemVars, Planned
  <2>2. CASE SelectPart(s)
    BY <1>g, <2>1, <2>2, <1>p DEF SelectPart, Labels
  <2>3. CASE ~SelectPart(s)
    <3>1. pc'[s] \in {"part", "failPart", "rollback", "quality", "finish", "returned"}
      BY <1>5, <1>g, <2>3 DEF HeartbeatBatch, FailPart, Reconcile, CheckQuality, CompleteBatch, Labels
    <3>. QED  BY <2>1, <3>1, <1>p
  <2>. QED  BY <2>2, <2>3
<1>6. CASE RegisterPart(s) \/ LoadItems(s) \/ CompleteItems(s)
  <2>1. UNCHANGED <<itemStart, start, job>> /\ pc[s] \in Planned \ {"resume"}
    BY <1>6 DEF RegisterPart, InsertPart, ReclaimPart, LoadItems, LoadPart, CompleteItems,
                CompletePart, itemVars, Planned
  <2>2. pc'[s] \in {"load", "rollback", "failPart", "complete", "heartbeat"}
    BY <1>6, <1>g DEF RegisterPart, InsertPart, ReclaimPart, LoadItems, LoadPart, CompleteItems,
                      CompletePart, Labels
  <2>. QED  BY <2>1, <2>2, <1>p
<1>7. CASE (Return(s) \/ FailBatch(s) \/ Crash(s)) /\ Forget(s)
  BY <1>7, <1>l DEF Return, FailBatch, Crash, Forget, ItemStartChange
<1>8. CASE Rollback(s) /\ UNCHANGED itemStart
  <2>1. pc'[s] = "failBatch"
    BY <1>8, <1>g DEF Rollback, Labels
  <2>. QED  BY <1>8, <2>1, <1>n DEF Planned
<1>9. CASE Fault(s) /\ UNCHANGED itemVars
  <2>1. CASE pc'[s] = "rollback"
    BY <1>9, <2>1, <1>n DEF Planned, itemVars
  <2>2. CASE pc'[s] # "rollback"
    <3>1. /\ pc'[s] = "failPart" /\ UNCHANGED <<itemStart, start, job>>
          /\ pc[s] \in Planned \ {"resume"}
      BY <1>9, <1>g, <2>2 DEF Fault, Labels, itemVars, Planned
    <3>. QED  BY <3>1, <1>p
  <2>. QED  BY <2>1, <2>2
<1>. QED
  BY <1>1, <1>2, <1>3, <1>4, <1>5, <1>6, <1>7, <1>8, <1>9
  DEF ItemSessionNext, ItemStep, ItemStartChange

\* The pinned item id waits in the transaction that registers part 1, and is
\* committed when part 1 is completed.
PinChange(s) ==
    \/ /\ UNCHANGED <<pin, pendPin>> /\ pc[s] \notin HoldsParts
       /\ pc'[s] \in {"load", "complete"} => part'[s] # 1
    \/ /\ UNCHANGED <<pin, pendPin, itemStart>> /\ part'[s] = part[s] /\ pc'[s] \in HoldsParts
       /\ pc'[s] \in {"load", "complete"} => pc[s] = "load" /\ open'[s] = open[s]
    \/ /\ UNCHANGED pin /\ pendPin' = [pendPin EXCEPT ![s] = 0]
       /\ pc'[s] \in {"out", "failBatch"}
    \/ /\ UNCHANGED <<pin, itemStart>> /\ pendPin' = [pendPin EXCEPT ![s] = itemStart[s]]
       /\ pc[s] \in {"insert", "reclaim"} /\ pc'[s] = "load" /\ open'[s]
       /\ part[s] = 1 /\ part'[s] = 1
    \/ /\ pc[s] = "complete" /\ pc'[s] = "heartbeat"
       /\ pin' = [pin EXCEPT ![job[s]] = SeenPin(s)] /\ pendPin' = [pendPin EXCEPT ![s] = 0]

LEMMA PinStep ==
    ASSUME ItemInv, NEW s \in Sessions, ItemSessionNext(s)
    PROVE  PinChange(s)
<1>a. TypeOK /\ SessionInv(s) /\ PendPinInv(s) /\ pin \in [Batches -> Nat]
  BY DEF ItemInv, OutcomeInv, IInv
<1>g. ASSUME NEW l \in Labels, Goto(s, l)
      PROVE  pc'[s] = l
  BY <1>g, <1>a DEF Goto, TypeOK
<1>l. Leave(s) => pc'[s] = "out"
  BY <1>g DEF Leave, Labels
<1>n. ASSUME UNCHANGED <<pin, pendPin>>, pc[s] \notin HoldsParts, pc'[s] \notin {"load", "complete"}
      PROVE  PinChange(s)
  BY <1>n DEF PinChange
<1>h. ASSUME UNCHANGED <<pin, pendPin, itemStart, part>>, pc'[s] \in {"failPart", "rollback"}
      PROVE  PinChange(s)
  BY <1>h DEF PinChange, HoldsParts
<1>d. ASSUME UNCHANGED pin, pendPin' = [pendPin EXCEPT ![s] = 0], pc'[s] \in {"out", "failBatch"}
      PROVE  PinChange(s)
  BY <1>d DEF PinChange
<1>1. ASSUME NEW b \in Batches, NEW inTx \in CallerInTx, Call(s, b, inTx), UNCHANGED itemVars
      PROVE  PinChange(s)
  <2>1. pc'[s] = "claim"
    BY <1>1, <1>g DEF Call, Labels
  <2>. QED  BY <1>1, <2>1, <1>n DEF Call, itemVars, HoldsParts
<1>2. CASE (StartBatch(s) \/ InspectBatch(s) \/ RetryFailedBatch(s)) /\ UNCHANGED itemVars
  <2>1. pc'[s] \in {"start", "inspect", "retry", "returned", "out"}
    BY <1>2, <1>g, <1>l DEF StartBatch, InspectBatch, RetryFailedBatch, Labels
  <2>2. pc[s] \notin HoldsParts
    BY <1>2 DEF StartBatch, InspectBatch, RetryFailedBatch, HoldsParts
  <2>. QED  BY <1>2, <2>1, <2>2, <1>n DEF itemVars
<1>3. CASE ReadItemStart(s) \/ (AllocateStartId(s) /\ UNCHANGED itemVars)
           \/ (ReadCompletedParts(s) /\ UNCHANGED itemVars) \/ (SelectPart(s) /\ UNCHANGED itemVars)
  <2>1. UNCHANGED <<pin, pendPin>> /\ pc[s] \notin HoldsParts
    BY <1>3 DEF ReadItemStart, ReadStartIds, AllocateStartId, ReadCompletedParts, SelectPart,
                itemVars, HoldsParts
  <2>2. pc'[s] \in {"allocate", "resume", "part", "insert", "reclaim"}
    BY <1>3, <1>g DEF ReadItemStart, ReadStartIds, AllocateStartId, ReadCompletedParts, SelectPart,
                      Labels
  <2>. QED  BY <2>1, <2>2, <1>n
<1>4. CASE AllocateItemStart(s)
  BY <1>4, <1>n DEF AllocateItemStart, vars, localVars, HoldsParts
<1>5. CASE RegisterPart(s)
  <2>1. /\ pc[s] \in {"insert", "reclaim"} /\ pc'[s] \in {"load", "rollback"}
        /\ UNCHANGED <<open, part, itemStart>>
    BY <1>5, <1>g DEF RegisterPart, InsertPart, ReclaimPart, Labels
  <2>2. part[s] = 1 => open[s]
    BY <2>1, <1>a DEF SessionInv, BeforeLoad
  <2>3. CASE part[s] # 1 \/ pc'[s] = "rollback"
    BY <1>5, <2>1, <2>3 DEF RegisterPart, PinChange, HoldsParts
  <2>4. CASE part[s] = 1 /\ pc'[s] = "load"
    <3>1. pendPin' = [pendPin EXCEPT ![s] = itemStart[s]] /\ UNCHANGED pin
      BY <1>5, <2>2, <2>4 DEF RegisterPart
    <3>. QED  BY <2>1, <2>2, <2>4, <3>1 DEF PinChange
  <2>. QED  BY <2>1, <2>3, <2>4
<1>6. CASE LoadItems(s)
  <2>1. /\ UNCHANGED <<pin, pendPin, itemStart, part, open>> /\ pc[s] = "load"
        /\ pc'[s] \in {"failPart", "complete"}
    BY <1>6, <1>g DEF LoadItems, LoadPart, Labels
  <2>. QED  BY <2>1 DEF PinChange, HoldsParts
<1>7. CASE CompleteItems(s)
  <2>1. CASE SeenPart(s, part[s]).status = "STARTED"
    <3>1. pc[s] = "complete" /\ pc'[s] = "heartbeat"
      BY <1>7, <2>1, <1>g DEF CompleteItems, CompletePart, Labels
    <3>. QED  BY <1>7, <3>1 DEF CompleteItems, CommitItems, PinChange
  <2>2. CASE SeenPart(s, part[s]).status # "STARTED"
    <3>1. pc'[s] = "failPart" /\ UNCHANGED part
      BY <1>7, <2>2, <1>g DEF CompleteItems, CompletePart, Labels
    <3>. QED  BY <1>7, <3>1, <1>h DEF CompleteItems, itemVars
  <2>. QED  BY <2>1, <2>2
<1>8. CASE HeartbeatBatch(s) /\ UNCHANGED itemVars
  <2>1. pc[s] = "heartbeat" /\ pc'[s] \in {"part", "failPart"}
    BY <1>8, <1>g DEF HeartbeatBatch, Labels
  <2>. QED  BY <1>8, <2>1, <1>n DEF itemVars, HoldsParts
<1>9. CASE FailPart(s) /\ UNCHANGED itemVars
  <2>1. pc'[s] = "rollback" /\ UNCHANGED part
    BY <1>9, <1>g DEF FailPart, Labels
  <2>. QED  BY <1>9, <2>1, <1>h DEF itemVars
<1>10. CASE (Reconcile(s) \/ CheckQuality(s) \/ CompleteBatch(s)) /\ UNCHANGED itemVars
  <2>1. pc[s] \in {"part", "quality", "finish"} /\ pc'[s] \in {"quality", "rollback", "finish", "returned"}
    BY <1>10, <1>g DEF Reconcile, CheckQuality, CompleteBatch, Labels
  <2>. QED  BY <1>10, <2>1, <1>n DEF itemVars, HoldsParts
<1>11. CASE Return(s) /\ CommitItems(s)
  <2>1. pc[s] = "returned" /\ pc'[s] = "out" /\ job[s] \in Batches
    BY <1>11, <1>l, <1>a DEF Return, SessionInv
  <2>2. pendPin[s] = 0
    BY <2>1, <1>a DEF PendPinInv, HoldsParts
  <2>3. pin' = pin
    BY <1>11, <2>1, <2>2, <1>a DEF CommitItems, SeenPin
  <2>. QED  BY <1>11, <2>1, <2>3, <1>d DEF CommitItems
<1>12. CASE (Rollback(s) \/ Crash(s)) /\ DropItems(s)
  <2>1. pc'[s] \in {"failBatch", "out"}
    BY <1>12, <1>g, <1>l DEF Rollback, Crash, Labels
  <2>. QED  BY <1>12, <2>1, <1>d DEF DropItems
<1>13. CASE FailBatch(s) /\ UNCHANGED <<items, pin, pendItems, pendPin>>
  <2>1. pc[s] = "failBatch" /\ pc'[s] = "out"
    BY <1>13, <1>l DEF FailBatch
  <2>. QED  BY <1>13, <2>1, <1>n DEF HoldsParts
<1>14. CASE Fault(s) /\ UNCHANGED itemVars
  <2>1. pc'[s] \in {"rollback", "failPart"} /\ UNCHANGED part
    BY <1>14, <1>g DEF Fault, Labels
  <2>. QED  BY <1>14, <2>1, <1>h DEF itemVars
<1>. QED
  BY <1>1, <1>2, <1>3, <1>4, <1>5, <1>6, <1>7, <1>8, <1>9, <1>10, <1>11, <1>12, <1>13, <1>14
  DEF ItemSessionNext, ItemStep

-----------------------------------------------------------------------------
(* The invariant of the items.                                             *)

\* A session that reads the next item id gets the one behind all committed orders.
LEMMA NextItemStart ==
    ASSUME ItemCounts, ItemInv, NEW s \in Sessions, AllocateItemStart(s)
    PROVE  \E n \in Nat : CommittedOrders = 1..n /\ itemStart'[s] = FirstItem(n + 1)
<1>1. /\ TypeOK /\ PendingInv(s) /\ Contiguous /\ items = Blocks(CommittedOrders)
      /\ pendItems = [t \in Sessions |-> Blocks(pendOrders[t])] /\ itemStart \in [Sessions -> Nat]
  BY DEF ItemInv, OutcomeInv, IInv
<1>2. PICK n \in Nat : CommittedOrders = 1..n
  BY <1>1 DEF Contiguous
<1>3. pendItems[s] = {}
  <2>1. pendOrders[s] = {}
    BY <1>1 DEF AllocateItemStart, PendingInv, HoldsOrders
  <2>. QED  BY <1>1, <2>1, BlocksOfUnion
<1>4. SeenItemIds(s) = 1..(FirstItem(n + 1) - 1)
  <2>1. items \cup pendItems[s] = Blocks(1..n)
    BY <1>1, <1>2, <1>3
  <2>2. ItemIds(Blocks(1..n)) = 1..(FirstItem(n + 1) - 1)
    BY ItemIdsOfLog
  <2>. QED  BY <2>1, <2>2 DEF SeenItemIds
<1>5. NextOrderId(SeenItemIds(s)) = FirstItem(n + 1)
  <2>1. FirstItem(n + 1) \in Nat \ {0}
    BY FirstItems
  <2>. DEFINE m == FirstItem(n + 1) - 1
  <2>2. m \in Nat /\ m + 1 = FirstItem(n + 1)
    BY <2>1
  <2>3. NextOrderId(1..m) = m + 1
    BY <2>2, MaxOfRange
  <2>. QED  BY <1>4, <2>2, <2>3
<1>6. itemStart'[s] = FirstItem(n + 1)
  BY <1>1, <1>5 DEF AllocateItemStart
<1>. QED  BY <1>2, <1>6

LEMMA ItemIdsTyped ==
    ASSUME ItemCounts, ItemInv, NEW s \in Sessions, ItemSessionNext(s)
    PROVE  /\ pin' \in [Batches -> Nat]
           /\ pendPin' \in [Sessions -> Nat]
           /\ itemStart' \in [Sessions -> Nat]
<1>1. /\ SessionInv(s) /\ pin \in [Batches -> Nat] /\ pendPin \in [Sessions -> Nat]
      /\ itemStart \in [Sessions -> Nat] /\ ItemStartChange(s) /\ PinChange(s)
  BY ItemStartStep, PinStep DEF ItemInv, OutcomeInv, IInv
<1>2. job[s] \in Batches => SeenPin(s) \in Nat
  BY <1>1 DEF SeenPin
<1>3. pin' \in [Batches -> Nat] /\ pendPin' \in [Sessions -> Nat]
  <2>1. pc[s] = "complete" => job[s] \in Batches
    BY <1>1 DEF SessionInv
  <2>. QED  BY <1>1, <1>2, <2>1 DEF PinChange
<1>4. CASE ReadItemStart(s)
  <2>1. job[s] \in Batches
    BY <1>1, <1>4 DEF ReadItemStart, ReadStartIds, SessionInv
  <2>. QED  BY <1>1, <1>2, <1>3, <1>4, <2>1 DEF ReadItemStart
<1>5. CASE AllocateItemStart(s)
  <2>1. PICK n \in Nat : itemStart'[s] = FirstItem(n + 1)
    BY <1>5, NextItemStart
  <2>2. itemStart'[s] \in Nat
    BY <2>1, FirstItems
  <2>3. itemStart' = [itemStart EXCEPT ![s] = itemStart'[s]]
    BY <1>1, <1>5 DEF AllocateItemStart
  <2>. QED  BY <1>1, <1>3, <2>2, <2>3
<1>. QED  BY <1>1, <1>3, <1>4, <1>5 DEF ItemStartChange

\* An order of another batch is never one of this batch later on.
LEMMA TakenStays ==
    ASSUME IInv, NEW s \in Sessions, SessionNext(s), NEW b \in Batches,
           NEW i \in CommittedOrders \ orders[b]
    PROVE  i \in CommittedOrders' \ orders'[b]
<1>1. i \in CommittedOrders' /\ Reached(i)
  BY OrdersGrow DEF Reached
<1>2. ASSUME i \in orders'[b]
      PROVE  FALSE
  <2>1. i \in Nat /\ \A j : Reached(j) => j < i
    BY <1>2, OrdersGrow
  <2>. QED  BY <1>1, <2>1
<1>. QED  BY <1>1, <1>2

LEMMA ItemStartKept ==
    ASSUME ItemCounts, ItemInv, NEW s \in Sessions, ItemSessionNext(s), NEW t \in Sessions
    PROVE  ItemStartInv(t)'
<1>1. /\ TypeOK /\ IInv /\ OutcomeInv /\ ItemStartInv(t) /\ SessionInv(t) /\ ItemStartChange(s)
      /\ itemStart \in [Sessions -> Nat] /\ (SessionNext(s) \/ AllocateItemStart(s))
  BY ItemStartStep, UnderStep DEF ItemInv, OutcomeInv, IInv
<1>2. pc[t] \in Planned => job[t] \in Batches
  BY <1>1 DEF SessionInv, Planned
<1>3. CASE t # s
  <2>1. itemStart'[t] = itemStart[t]
    BY <1>1, <1>3 DEF ItemStartChange, ReadItemStart, AllocateItemStart
  <2>2. CASE SessionNext(s)
    <3>1. pc'[t] = pc[t] /\ job'[t] = job[t] /\ start'[t] = start[t]
      BY <1>1, <1>3, <2>2, OthersStay DEF Same
    <3>2. pc[t] \in Planned /\ parts[job[t]][1].status = "ABSENT" => parts'[job[t]][1].status = "ABSENT"
      BY <1>1, <1>3, <2>2, RegistersAlone
    <3>3. pc[t] \in Planned /\ start[t] \in CommittedOrders \ orders[job[t]] =>
            start[t] \in CommittedOrders' \ orders'[job[t]]
      BY <1>1, <1>2, <2>2, TakenStays
    <3>. QED  BY <1>1, <2>1, <3>1, <3>2, <3>3 DEF ItemStartInv, Planned
  <2>3. CASE AllocateItemStart(s)
    BY <1>1, <2>1, <2>3
    DEF AllocateItemStart, ItemStartInv, CommittedOrders, vars, dbVars, localVars
  <2>. QED  BY <1>1, <2>2, <2>3
<1>4. CASE t = s
  <2>1. CASE /\ itemStart' = itemStart /\ pc'[s] # "allocate"
             /\ pc'[s] = "resume" => AllocateStartId(s)
             /\ pc'[s] \in Planned \ {"resume"} =>
                   pc[s] \in Planned /\ itemStart[s] # 0 /\ start'[s] = start[s] /\ job'[s] = job[s]
    <3>1. CASE pc'[s] = "resume"
      <4>1. /\ pc[s] = "allocate" /\ parts' = parts /\ job' = job /\ itemStart[s] = 0
        BY <1>1, <1>4, <2>1, <3>1 DEF AllocateStartId, dbVars, ItemStartInv
      <4>2. parts[job[s]][1].status = "ABSENT"
        BY <1>1, <4>1 DEF IInv, ClaimInv
      <4>. QED  BY <1>4, <2>1, <3>1, <4>1, <4>2 DEF ItemStartInv
    <3>2. CASE pc'[s] \in Planned \ {"resume"}
      <4>1. /\ pc[s] \in Planned /\ itemStart'[s] = itemStart[s] /\ itemStart[s] # 0
            /\ start'[s] = start[s] /\ job'[s] = job[s]
        BY <2>1, <3>2
      <4>2. SessionNext(s)
        BY <1>1, <2>1, <4>1, <3>2 DEF AllocateItemStart
      <4>3. start[s] \in CommittedOrders \ orders[job[s]] => start[s] \in CommittedOrders' \ orders'[job[s]]
        BY <1>1, <1>2, <1>4, <4>1, <4>2, TakenStays
      <4>. QED  BY <1>1, <1>4, <3>2, <4>1, <4>3 DEF ItemStartInv, Planned
    <3>3. CASE pc'[s] \notin Planned
      BY <1>4, <2>1, <3>3 DEF ItemStartInv, Planned
    <3>. QED  BY <3>1, <3>2, <3>3
  <2>2. CASE itemStart' = [itemStart EXCEPT ![s] = 0] /\ pc'[s] = "out"
    BY <1>4, <2>2 DEF ItemStartInv, Planned
  <2>3. CASE ReadItemStart(s)
    <3>1. /\ pc[s] = "start" /\ UNCHANGED <<dbVars, pendVars, job>> /\ job[s] \in Batches
          /\ ReadStartIds(s)
      BY <1>1, <1>4, <2>3 DEF ReadItemStart, ReadStartIds, SessionInv
    <3>2. /\ pendPart[s][1] = NoWrite /\ pendPin[s] = 0 /\ PinInv(job[s]) /\ PinnedItems(job[s])
          /\ parts[job[s]][1] \in PartRow
      <4>1. PartInv(s) /\ PendPinInv(s) /\ 1 \in Parts
        BY RangeFacts DEF ItemInv, OutcomeInv, IInv
      <4>. QED  BY <1>1, <3>1, <4>1 DEF PartInv, PendPinInv, HoldsParts, ItemInv, IInv, TypeOK
    <3>3. SeenPart(s, 1) = parts[job[s]][1] /\ SeenPin(s) = pin[job[s]]
      BY <3>2 DEF SeenPart, Seen, SeenPin
    <3>4. CASE parts[job[s]][1].status # "ABSENT"
      <4>1. start' = [start EXCEPT ![s] = parts[job[s]][1].start] /\ Goto(s, "resume")
        BY <3>1, <3>3, <3>4 DEF ReadStartIds
      <4>2. pc'[s] = "resume" /\ start'[s] = parts[job[s]][1].start
        BY <1>1, <4>1 DEF Goto, TypeOK
      <4>3. itemStart'[s] = pin[job[s]]
        BY <1>1, <2>3, <3>3, <4>2 DEF ReadItemStart
      <4>4. pin[job[s]] = FirstItem(parts[job[s]][1].start) /\ parts[job[s]][1].start \in Nat \ {0}
        BY <3>2, <3>4 DEF PinnedItems, PinInv, PinOK, PartRow
      <4>5. pin[job[s]] # 0
        BY <4>4, FirstItems
      <4>. QED  BY <1>4, <4>2, <4>3, <4>4, <4>5 DEF ItemStartInv
    <3>5. CASE parts[job[s]][1].status = "ABSENT"
      <4>1. pc'[s] = "allocate"
        BY <1>1, <3>1, <3>3, <3>5 DEF ReadStartIds, Goto, TypeOK
      <4>2. itemStart'[s] = 0
        BY <1>1, <2>3, <4>1 DEF ReadItemStart
      <4>. QED  BY <1>4, <4>1, <4>2 DEF ItemStartInv, Planned
    <3>. QED  BY <3>4, <3>5
  <2>4. CASE AllocateItemStart(s)
    <3>1. /\ pc[s] = "resume" /\ itemStart[s] = 0 /\ UNCHANGED <<parts, orders, pc, job, start>>
          /\ job[s] \in Batches
      BY <1>1, <1>4, <2>4 DEF AllocateItemStart, vars, dbVars, localVars, SessionInv
    <3>2. PICK n \in Nat : CommittedOrders = 1..n /\ itemStart'[s] = FirstItem(n + 1)
      BY <2>4, NextItemStart
    <3>3. start[s] \in Nat \ {0} /\ start[s] - 1 <= n
      <4>1. start[s] \in Nat /\ start[s] >= 1 /\ Reached(start[s] - 1)
        BY <1>1, <3>1 DEF IInv, StartInv, Planned, TypeOK
      <4>. QED  BY <3>2, <4>1 DEF Reached
    <3>4. orders[job[s]] = {} /\ parts[job[s]][1].status = "ABSENT"
      BY <1>1, <1>4, <3>1 DEF ItemStartInv, IInv, PinnedWithData
    <3>5. CommittedOrders' = CommittedOrders
      BY <3>1 DEF CommittedOrders
    <3>6. itemStart'[s] = FirstItem(start[s]) \/ start[s] \in CommittedOrders \ orders[job[s]]
      <4>1. CASE start[s] = n + 1
        BY <3>2, <4>1
      <4>2. CASE start[s] # n + 1
        BY <3>2, <3>3, <3>4, <4>2
      <4>. QED  BY <4>1, <4>2
    <3>7. itemStart'[s] # 0
      BY <3>2, FirstItems
    <3>. QED  BY <1>4, <3>1, <3>5, <3>6, <3>7 DEF ItemStartInv
  <2>. QED  BY <1>1, <2>1, <2>2, <2>3, <2>4 DEF ItemStartChange
<1>. QED  BY <1>3, <1>4

LEMMA PendPinKept ==
    ASSUME ItemInv, NEW s \in Sessions, ItemSessionNext(s), NEW t \in Sessions
    PROVE  PendPinInv(t)'
<1>1. /\ TypeOK /\ PendPinInv(t) /\ PinChange(s) /\ ItemStartChange(s)
      /\ itemStart \in [Sessions -> Nat] /\ pendPin \in [Sessions -> Nat]
      /\ (SessionNext(s) \/ AllocateItemStart(s))
  BY PinStep, ItemStartStep, UnderStep DEF ItemInv, OutcomeInv, IInv
<1>2. CASE t # s
  <2>1. itemStart'[t] = itemStart[t] /\ pendPin'[t] = pendPin[t]
    BY <1>1, <1>2 DEF ItemStartChange, ReadItemStart, AllocateItemStart, PinChange
  <2>2. pc'[t] = pc[t] /\ part'[t] = part[t] /\ open'[t] = open[t]
    <3>1. CASE SessionNext(s)
      BY <1>1, <1>2, <3>1, OthersStay DEF Same
    <3>2. CASE AllocateItemStart(s)
      BY <3>2 DEF AllocateItemStart, vars, localVars
    <3>. QED  BY <1>1, <3>1, <3>2
  <2>. QED  BY <1>1, <2>1, <2>2 DEF PendPinInv
<1>3. CASE t = s
  <2>1. CASE /\ UNCHANGED <<pin, pendPin>> /\ pc[s] \notin HoldsParts
             /\ pc'[s] \in {"load", "complete"} => part'[s] # 1
    BY <1>1, <1>3, <2>1 DEF PendPinInv
  <2>2. CASE /\ UNCHANGED <<pin, pendPin, itemStart>> /\ part'[s] = part[s] /\ pc'[s] \in HoldsParts
             /\ pc'[s] \in {"load", "complete"} => pc[s] = "load" /\ open'[s] = open[s]
    BY <1>1, <1>3, <2>2 DEF PendPinInv
  <2>3. CASE pendPin' = [pendPin EXCEPT ![s] = 0] /\ pc'[s] \notin HoldsParts
    BY <1>1, <1>3, <2>3 DEF PendPinInv, HoldsParts
  <2>4. CASE /\ UNCHANGED <<pin, itemStart>> /\ pendPin' = [pendPin EXCEPT ![s] = itemStart[s]]
             /\ pc[s] \in {"insert", "reclaim"} /\ pc'[s] = "load" /\ open'[s]
             /\ part[s] = 1 /\ part'[s] = 1
    <3>1. itemStart[s] # 0
      BY <2>4 DEF ItemInv, ItemStartInv, Planned
    <3>. QED  BY <1>1, <1>3, <2>4, <3>1 DEF PendPinInv, HoldsParts
  <2>. QED  BY <1>1, <2>1, <2>2, <2>3, <2>4 DEF PinChange, HoldsParts
<1>. QED  BY <1>2, <1>3

\* A session that has loaded its first order has the item id that belongs to it.
LEMMA OwnStart ==
    ASSUME ItemInv, NEW s \in Sessions, pc[s] \in Planned, itemStart[s] # 0,
           start[s] \in orders[job[s]] \cup pendOrders[s]
    PROVE  itemStart[s] = FirstItem(start[s])
BY DEF ItemInv, OutcomeInv, IInv, ItemStartInv, PendingInv

LEMMA PinnedItemsKept ==
    ASSUME ItemInv, NEW s \in Sessions, ItemSessionNext(s), SessionNext(s), IInv',
           NEW b \in Batches
    PROVE  PinnedItems(b)'
<1>1. /\ TypeOK /\ IInv /\ OutcomeInv /\ SessionInv(s) /\ PendPinInv(s) /\ PinChange(s)
      /\ PinnedItems(b) /\ StartsAgree(s) /\ LoadedInv(s) /\ ClaimInv(s)
      /\ pin \in [Batches -> Nat] /\ 1 \in Parts /\ Offset(1) = 0
  BY PinStep, RangeFacts DEF ItemInv, OutcomeInv, IInv
<1>. DEFINE Completed == pc[s] = "complete" /\ pc'[s] = "heartbeat" /\ b = job[s]
<1>2. /\ ~Completed => pin'[b] = pin[b]
      /\ Completed => pin'[b] = IF pendPin[s] # 0 THEN pendPin[s] ELSE pin[b]
  BY <1>1 DEF PinChange, SeenPin, HoldsParts
<1>3. CASE parts[b][1].status # "ABSENT"
  <2>1. /\ parts'[b][1].start = parts[b][1].start /\ parts[b][1].start \in orders'[b]
        /\ parts[b][1].start \in orders[b] /\ pin[b] = FirstItem(parts[b][1].start)
    BY <1>1, <1>3, PinStays, OrdersGrow DEF PinnedItems
  <2>2. CASE Completed /\ pendPin[s] # 0
    <3>1. start[s] = parts[b][1].start /\ pc[s] \in Planned
      BY <1>1, <1>3, <2>2 DEF StartsAgree, Planned
    <3>2. pendPin[s] = itemStart[s] /\ itemStart[s] # 0
      BY <1>1, <2>2 DEF PendPinInv
    <3>3. itemStart[s] = FirstItem(start[s])
      BY <2>1, <2>2, <3>1, <3>2, OwnStart
    <3>. QED  BY <1>2, <2>1, <2>2, <3>1, <3>2, <3>3 DEF PinnedItems
  <2>3. CASE ~(Completed /\ pendPin[s] # 0)
    BY <1>2, <2>1, <2>3 DEF PinnedItems
  <2>. QED  BY <2>2, <2>3
<1>4. CASE parts[b][1].status = "ABSENT"
  <2>. SUFFICES ASSUME parts'[b][1].status # "ABSENT"
                PROVE  parts'[b][1].start \in orders'[b] /\ pin'[b] = FirstItem(parts'[b][1].start)
    BY DEF PinnedItems
  <2>1. RowChange(s, b, 1)
    BY <1>1, RowsStep
  <2>2. ASSUME 1 = part[s], pc[s] \in {"insert", "reclaim"}, ~open[s]
        PROVE  FALSE
    BY <1>1, <2>2 DEF SessionInv, BeforeLoad
  <2>3. ASSUME b = job[s], 1 = part[s], pc[s] = "failPart", ~open[s]
        PROVE  FALSE
    <3>1. SeenPart(s, 1) = parts[b][1]
      BY <1>1, <2>3 DEF SessionInv, NoPartWrites, SeenPart, Seen
    <3>. QED  BY <1>1, <1>4, <2>3, <3>1, SeenStart
  <2>4. /\ Completed /\ part[s] = 1
        /\ parts'[b][1] = [SeenPart(s, 1) EXCEPT !.status = "COMPLETED"]
    BY <1>4, <2>1, <2>2, <2>3 DEF RowChange
  <2>5. SeenPart(s, 1) \in PartRow /\ SeenPart(s, 1).start = start[s]
    <3>1. start[s] \in Nat
      BY <1>1 DEF TypeOK
    <3>2. SeenPart(s, 1) \in PartRow /\ SeenPart(s, 1).start = start[s] + Offset(1)
      BY <1>1, <2>4, SeenStart
    <3>. QED  BY <1>1, <3>1, <3>2
  <2>6. parts'[b][1].start = start[s]
    BY <2>4, <2>5 DEF PartRow
  <2>7. start[s] \in orders'[b]
    <3>1. start'[s] = start[s] /\ job'[s] = job[s]
      BY <1>1, <2>4, FlowStep DEF Flow
    <3>2. LoadedInv(s)' /\ PendingInv(s)'
      BY DEF IInv
    <3>3. pendOrders'[s] = {}
      BY <2>4, <3>2 DEF PendingInv, HoldsOrders
    <3>. QED  BY <2>4, <3>1, <3>2, <3>3 DEF LoadedInv
  <2>8. pendPin[s] # 0 /\ pendPin[s] = itemStart[s]
    BY <1>1, <2>4 DEF PendPinInv
  <2>9. itemStart[s] = FirstItem(start[s])
    BY <1>1, <2>4, <2>8, OwnStart DEF LoadedInv, Planned
  <2>. QED  BY <1>2, <2>4, <2>6, <2>7, <2>8, <2>9
<1>. QED  BY <1>3, <1>4

LEMMA ItemInvInit ==
    ASSUME RunnerCalls, ItemInit
    PROVE  ItemInv
<1>1. OutcomeInv
  BY OutcomeInit DEF ItemInit
<1>2. ItemsMatch
  <2>1. CommittedOrders = {} /\ pendOrders = [s \in Sessions |-> {}]
    BY DEF ItemInit, Init, CommittedOrders
  <2>. QED  BY <2>1, BlocksOfUnion DEF ItemInit, ItemsMatch
<1>3. /\ pin \in [Batches -> Nat] /\ pendPin \in [Sessions -> Nat]
      /\ itemStart \in [Sessions -> Nat]
  BY DEF ItemInit
<1>4. ASSUME NEW s \in Sessions
      PROVE  ItemStartInv(s) /\ PendPinInv(s)
  BY DEF ItemInit, Init, ItemStartInv, PendPinInv, Planned
<1>5. ASSUME NEW b \in Batches
      PROVE  PinnedItems(b)
  <2>1. 1 \in Parts
    BY RangeFacts
  <2>. QED  BY <2>1 DEF ItemInit, Init, PinnedItems
<1>. QED  BY <1>1, <1>2, <1>3, <1>4, <1>5 DEF ItemInv, ItemsMatch

LEMMA ItemInvStep ==
    ASSUME ItemCounts, ItemInv, [ItemNext]_<<vars, itemVars>>
    PROVE  ItemInv'
<1>1. ASSUME NEW s \in Sessions, ItemSessionNext(s)
      PROVE  ItemInv'
  <2>1. OutcomeInv'
    <3>1. [Next]_vars
      BY <1>1, UnderStep DEF SessionNext, Next, AllocateItemStart
    <3>. QED  BY <3>1, OutcomeStep DEF ItemInv
  <2>2. ItemsMatch' /\ pin' \in [Batches -> Nat] /\ pendPin' \in [Sessions -> Nat]
        /\ itemStart' \in [Sessions -> Nat]
    BY <1>1, ItemsMatchKept, ItemIdsTyped
  <2>3. ASSUME NEW t \in Sessions
        PROVE  ItemStartInv(t)' /\ PendPinInv(t)'
    BY <1>1, ItemStartKept, PendPinKept
  <2>4. ASSUME NEW b \in Batches
        PROVE  PinnedItems(b)'
    <3>1. CASE SessionNext(s)
      BY <1>1, <2>1, <3>1, PinnedItemsKept DEF OutcomeInv
    <3>2. CASE AllocateItemStart(s)
      BY <3>2 DEF AllocateItemStart, ItemInv, PinnedItems, vars, dbVars
    <3>. QED  BY <1>1, <3>1, <3>2, UnderStep
  <2>. QED  BY <2>1, <2>2, <2>3, <2>4 DEF ItemInv, ItemsMatch
<1>2. CASE UNCHANGED <<vars, itemVars>>
  <2>1. OutcomeInv'
    BY <1>2, OutcomeStep DEF ItemInv
  <2>. USE <1>2 DEF vars, itemVars, dbVars, pendVars, localVars
  <2>2. ItemsMatch' /\ pin' = pin /\ pendPin' = pendPin /\ itemStart' = itemStart
    BY DEF ItemInv, ItemsMatch, CommittedOrders
  <2>3. ASSUME NEW t \in Sessions
        PROVE  ItemStartInv(t)' /\ PendPinInv(t)'
    BY DEF ItemInv, ItemStartInv, PendPinInv, CommittedOrders
  <2>4. ASSUME NEW b \in Batches
        PROVE  PinnedItems(b)'
    BY DEF ItemInv, PinnedItems
  <2>. QED  BY <2>1, <2>2, <2>3, <2>4 DEF ItemInv, ItemsMatch
<1>. QED  BY <1>1, <1>2, ItemNextIsSessionNext

\* ItemInv is an invariant of the ingestion with its order items, as the pipeline
\* runner calls it.
THEOREM ItemInductive ==
    ASSUME RunnerCalls, ItemCounts
    PROVE  ItemSpec => []ItemInv
<1>1. ItemInit => ItemInv
  BY ItemInvInit
<1>2. ItemInv /\ [ItemNext]_<<vars, itemVars>> => ItemInv'
  BY ItemInvStep
<1>. QED  BY <1>1, <1>2, PTL DEF ItemSpec

\* The committed items are those of the committed orders, numbered without a hole
\* in the order of the order ids, whatever the number of items of an order:
\* although the two ids of a batch are read in two statements and a retry
\* regenerates the items of the parts before its own to find the third.
THEOREM ItemsBelongToOrders ==
    ASSUME RunnerCalls, ItemCounts
    PROVE  ItemSpec => []ItemsFollowOrders
<1>1. ItemInv => ItemsFollowOrders
  <2>. SUFFICES ASSUME ItemInv
                PROVE  items = ItemRows(CommittedOrders, 1)
    BY DEF ItemsFollowOrders
  <2>1. PICK n \in Nat : CommittedOrders = 1..n
    BY DEF ItemInv, OutcomeInv, IInv, Contiguous
  <2>2. ItemRows(1..n, FirstItem(1)) = Blocks(1..n)
    BY ItemRowsAreBlocks
  <2>. QED  BY <2>1, <2>2, FirstOfAll DEF ItemInv
<1>. QED  BY <1>1, ItemInductive, PTL
=============================================================================
