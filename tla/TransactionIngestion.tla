------------------------ MODULE TransactionIngestion ------------------------
(***************************************************************************)
(* run_transaction_ingestion(): one logical ingestion batch is claimed,    *)
(* split into physical parts of batch_size orders, and every part is       *)
(* checkpointed so that a retry skips it.                                  *)
(*                                                                         *)
(* Several sessions (processes, each with one database connection) run the *)
(* function, for the same batch or for different ones.  One action is one  *)
(* database statement, or one `with connection.transaction()` block.  Such *)
(* a block is a transaction of its own only when the connection is idle;   *)
(* inside an open transaction it is a savepoint and stays uncommitted.     *)
(* `open` is that distinction, and it is what decides which checkpoints    *)
(* survive a failure.                                                      *)
(***************************************************************************)
EXTENDS Integers, FiniteSets, FiniteSetsExt, Postgres

CONSTANTS
    Batches,        \* logical batches (batch_id, derived from logical_run_id)
    Sessions,       \* processes that call run_transaction_ingestion
    NoBatch,        \* the batch of a session that is outside the function
    Orders,         \* config.orders
    BatchSize,      \* config.batch_size
    ItemsOf(_),     \* number of items of an order: drawn from config.seed + order_id
    MaxAttempts,    \* ingestion_batches.max_attempts
    CallerInTx      \* may the caller's connection be idle (FALSE) / in a
                    \* transaction (TRUE) when it calls?

NumParts == (Orders + BatchSize - 1) \div BatchSize
Parts == 1..NumParts

ASSUME ConfigAssumption ==
    /\ Orders \in Nat \ {0}
    /\ BatchSize \in Nat \ {0}
    /\ MaxAttempts \in Nat \ {0}
    /\ CallerInTx \subseteq BOOLEAN
    /\ NoBatch \notin Batches

\* The number of items of a set of orders.
ItemsIn(ids) == MapThenSumSet(ItemsOf, ids)

\* Orders before part k, and the number of orders in part k.
Offset(k) == (k - 1) * BatchSize
Size(k) == IF Orders - Offset(k) < BatchSize THEN Orders - Offset(k) ELSE BatchSize

BatchStatus == {"ABSENT", "STARTED", "FAILED", "COMPLETED"}
BatchRow == [status : BatchStatus, attempts : 0..MaxAttempts]
PartRow == [status : BatchStatus, start : Nat]

ASSUME NoWriteAssumption == NoWrite \notin BatchRow /\ NoWrite \notin PartRow

VARIABLES
    batches,     \* retail.ingestion_batches, committed
    parts,       \* retail.ingestion_batch_parts, committed
    orders,      \* the order_ids in retail.orders, by the batch that loaded them
    quality,     \* retail.ingestion_quality_results: the verdicts stored per batch
    open,        \* is the session's connection inside a transaction?
    pendBatch,   \* the session's uncommitted writes to its batch's rows
    pendPart,
    pendOrders,
    pendQuality,
    pc, job,     \* where the session is, and for which batch
    start,       \* start_order_id
    part,        \* part_number
    counted      \* how often each part has been added to orders_loaded

dbVars == <<batches, parts, orders, quality>>
pendVars == <<pendBatch, pendPart, pendOrders, pendQuality>>
localVars == <<pc, job, start, part, counted>>
vars == <<dbVars, open, pendVars, localVars>>

Labels == {"out", "claim", "inspect", "retry", "start", "allocate", "resume", "part",
           "insert", "reclaim", "load", "complete", "heartbeat", "failPart",
           "quality", "finish", "rollback", "failBatch", "returned"}

NoPartWrites == [k \in Parts |-> NoWrite]
NothingCounted == [k \in Parts |-> 0]

Init ==
    /\ batches = [b \in Batches |-> [status |-> "ABSENT", attempts |-> 0]]
    /\ parts = [b \in Batches |-> [k \in Parts |-> [status |-> "ABSENT", start |-> 0]]]
    /\ orders = [b \in Batches |-> {}]
    /\ quality = [b \in Batches |-> {}]
    /\ open = [s \in Sessions |-> FALSE]
    /\ pendBatch = [s \in Sessions |-> NoWrite]
    /\ pendPart = [s \in Sessions |-> NoPartWrites]
    /\ pendOrders = [s \in Sessions |-> {}]
    /\ pendQuality = [s \in Sessions |-> {}]
    /\ pc = [s \in Sessions |-> "out"]
    /\ job = [s \in Sessions |-> NoBatch]
    /\ start = [s \in Sessions |-> 0]
    /\ part = [s \in Sessions |-> 1]
    /\ counted = [s \in Sessions |-> NothingCounted]

-----------------------------------------------------------------------------
(* What a session sees and what it has to wait for.                        *)

CommittedOrders == UNION {orders[b] : b \in Batches}
PendingOrders(s) == UNION {pendOrders[t] : t \in Sessions \ {s}}

SeenBatch(s) == Seen(pendBatch[s], batches[job[s]])
SeenPart(s, k) == Seen(pendPart[s][k], parts[job[s]][k])
SeenOrders(s) == CommittedOrders \cup pendOrders[s]

BatchLocked(s) == \E t \in Sessions \ {s} : job[t] = job[s] /\ pendBatch[t] # NoWrite
PartLocked(s, k) == \E t \in Sessions \ {s} : job[t] = job[s] /\ pendPart[t][k] # NoWrite

\* SELECT COALESCE(MAX(order_id), 0) + 1
NextOrderId(ids) == IF ids = {} THEN 1 ELSE Max(ids) + 1

\* Slip: part_offset = part_number * batch_size.
PartIdsShifted(s, k) == (start[s] + k * BatchSize) .. (start[s] + k * BatchSize + Size(k) - 1)

\* The order_ids of part k, and of the whole batch, as the session computes them.
PartIds(s, k) == (start[s] + Offset(k)) .. (start[s] + Offset(k) + Size(k) - 1)
BatchIds(s) == start[s] .. (start[s] + Orders - 1)

OrdersLoaded(s) == MapThenSumSet(LAMBDA k : counted[s][k] * Size(k), Parts)

-----------------------------------------------------------------------------
(* Writes: uncommitted inside a transaction, durable at once outside one.  *)

WriteBatch(s, row) ==
    IF open[s]
    THEN pendBatch' = [pendBatch EXCEPT ![s] = row] /\ UNCHANGED batches
    ELSE batches' = [batches EXCEPT ![job[s]] = row] /\ UNCHANGED pendBatch

\* Slip: the part's checkpoint is durable at once, whatever transaction is open.
WritePartDurably(s, k, row) ==
    parts' = [parts EXCEPT ![job[s]][k] = row] /\ UNCHANGED pendPart

WritePart(s, k, row) ==
    IF open[s]
    THEN pendPart' = [pendPart EXCEPT ![s][k] = row] /\ UNCHANGED parts
    ELSE parts' = [parts EXCEPT ![job[s]][k] = row] /\ UNCHANGED pendPart

WriteOrders(s, ids) ==
    IF open[s]
    THEN pendOrders' = [pendOrders EXCEPT ![s] = @ \cup ids] /\ UNCHANGED orders
    ELSE orders' = [orders EXCEPT ![job[s]] = @ \cup ids] /\ UNCHANGED pendOrders

\* Ends the session's transaction: its pending writes go, open becomes FALSE.
EndTransaction(s) ==
    /\ open' = [open EXCEPT ![s] = FALSE]
    /\ pendBatch' = [pendBatch EXCEPT ![s] = NoWrite]
    /\ pendPart' = [pendPart EXCEPT ![s] = NoPartWrites]
    /\ pendOrders' = [pendOrders EXCEPT ![s] = {}]
    /\ pendQuality' = [pendQuality EXCEPT ![s] = {}]

\* COMMIT, with writes as the session's last word on its batch's parts.
CommitWith(s, writes) ==
    /\ batches' = [batches EXCEPT ![job[s]] = SeenBatch(s)]
    /\ parts' = [parts EXCEPT ![job[s]] = Merged(writes, @)]
    /\ orders' = [orders EXCEPT ![job[s]] = @ \cup pendOrders[s]]
    /\ quality' = [quality EXCEPT ![job[s]] = @ \cup pendQuality[s]]
    /\ EndTransaction(s)

Goto(s, label) == pc' = [pc EXCEPT ![s] = label]

\* A SELECT on an idle connection opens a transaction.
OpenTransaction(s) == open' = [open EXCEPT ![s] = TRUE]

\* The function is left; its local variables are gone.
Leave(s) ==
    /\ Goto(s, "out")
    /\ job' = [job EXCEPT ![s] = NoBatch]
    /\ start' = [start EXCEPT ![s] = 0]
    /\ part' = [part EXCEPT ![s] = 1]
    /\ counted' = [counted EXCEPT ![s] = NothingCounted]

-----------------------------------------------------------------------------
(* Claiming the logical batch.                                             *)

\* The pipeline runner calls with its transaction open, a script on an idle
\* connection.
Call(s, b, inTx) ==
    /\ pc[s] = "out"
    /\ Goto(s, "claim")
    /\ job' = [job EXCEPT ![s] = b]
    /\ open' = [open EXCEPT ![s] = inTx]
    /\ UNCHANGED <<dbVars, pendVars, start, part, counted>>

\* start_batch: INSERT ... ON CONFLICT DO NOTHING.
StartBatch(s) ==
    /\ pc[s] = "claim"
    /\ ~BatchLocked(s)
    /\ \/ /\ SeenBatch(s).status = "ABSENT"
          /\ WriteBatch(s, [status |-> "STARTED", attempts |-> 1])
          /\ Goto(s, "start")
       \/ /\ SeenBatch(s).status # "ABSENT"
          /\ Goto(s, "inspect")
          /\ UNCHANGED <<batches, pendBatch>>
    /\ UNCHANGED <<parts, orders, quality, open, pendPart, pendOrders,
                   pendQuality, job, start, part, counted>>

\* get_batch: a completed batch is skipped, only a FAILED one is retried.
InspectBatch(s) ==
    /\ pc[s] = "inspect"
    /\ \/ /\ SeenBatch(s).status \in {"COMPLETED", "FAILED"}
          /\ Goto(s, IF SeenBatch(s).status = "FAILED" THEN "retry" ELSE "returned")
          /\ OpenTransaction(s)
          /\ UNCHANGED <<pendVars, job, start, part, counted>>
       \/ /\ SeenBatch(s).status = "STARTED"
          /\ EndTransaction(s)
          /\ Leave(s)
    /\ UNCHANGED dbVars

\* Slip: the UPDATE has no condition but the batch_id.
MayRetryAny(row) == row.status # "ABSENT"

\* Slip: the retry limit is not looked at.
MayRetryUnlimited(row) == row.status = "FAILED"

\* WHERE status = 'FAILED' AND attempt_count < max_attempts
MayRetry(row) == row.status = "FAILED" /\ row.attempts < MaxAttempts

\* retry_failed_batch: the conditional UPDATE.
RetryFailedBatch(s) ==
    /\ pc[s] = "retry"
    /\ ~BatchLocked(s)
    /\ \/ /\ MayRetry(SeenBatch(s))
          /\ WriteBatch(s, [status |-> "STARTED", attempts |-> SeenBatch(s).attempts + 1])
          /\ Goto(s, "start")
          /\ UNCHANGED <<parts, orders, quality, open, pendPart, pendOrders,
                         pendQuality, job, start, part, counted>>
       \/ /\ ~MayRetry(SeenBatch(s))
          /\ EndTransaction(s)
          /\ Leave(s)
          /\ UNCHANGED dbVars

-----------------------------------------------------------------------------
(* Where the batch starts and which parts are done.                        *)

\* Slip: every attempt takes fresh ids.
ReadNoStartIds(s) ==
    /\ pc[s] = "start"
    /\ OpenTransaction(s)
    /\ Goto(s, "allocate")
    /\ UNCHANGED <<dbVars, pendVars, job, start, part, counted>>

\* get_batch_part_start_ids: a batch whose part 1 is registered keeps its
\* order_ids.  The reference data are read first, so the transaction is open
\* from here on.
ReadStartIds(s) ==
    /\ pc[s] = "start"
    /\ OpenTransaction(s)
    /\ \/ /\ SeenPart(s, 1).status # "ABSENT"
          /\ start' = [start EXCEPT ![s] = SeenPart(s, 1).start]
          /\ Goto(s, "resume")
       \/ /\ SeenPart(s, 1).status = "ABSENT"
          /\ Goto(s, "allocate")
          /\ UNCHANGED start
    /\ UNCHANGED <<dbVars, pendVars, job, part, counted>>

\* Slip: a new batch takes ids past those any running session has planned, as
\* a sequence would.
ReservedOrderId(s) ==
    NextOrderId(SeenOrders(s) \cup {start[t] + Orders - 1 : t \in {u \in Sessions : start[u] > 0}})

FreshOrderId(s) == NextOrderId(SeenOrders(s))

\* get_next_order_id, in a statement of its own.
AllocateStartId(s) ==
    /\ pc[s] = "allocate"
    /\ start' = [start EXCEPT ![s] = FreshOrderId(s)]
    /\ Goto(s, "resume")
    /\ UNCHANGED <<dbVars, open, pendVars, job, part, counted>>

\* get_completed_batch_parts
ReadCompletedParts(s) ==
    /\ pc[s] = "resume"
    /\ counted' = [counted EXCEPT ![s] =
                     [k \in Parts |-> IF SeenPart(s, k).status = "COMPLETED" THEN 1 ELSE 0]]
    /\ Goto(s, "part")
    /\ UNCHANGED <<dbVars, open, pendVars, job, start, part>>

-----------------------------------------------------------------------------
(* One physical part.                                                      *)

\* Slip: the loop does not move past a part that is done.
SamePart(s) == part[s]

NextPart(s) == part[s] + 1

\* start_batch_part's SELECT: skip a COMPLETED part.
SelectPart(s) ==
    /\ pc[s] = "part"
    /\ part[s] \in Parts
    /\ \/ /\ SeenPart(s, part[s]).status = "COMPLETED"
          /\ part' = [part EXCEPT ![s] = NextPart(s)]
          /\ UNCHANGED pc
       \/ /\ SeenPart(s, part[s]).status # "COMPLETED"
          /\ Goto(s, IF SeenPart(s, part[s]).status = "ABSENT" THEN "insert" ELSE "reclaim")
          /\ UNCHANGED part
    /\ UNCHANGED <<dbVars, open, pendVars, job, start, counted>>

StartedPart(s) == [status |-> "STARTED", start |-> start[s] + Offset(part[s])]

\* start_batch_part's INSERT: a row that appeared meanwhile is a unique violation.
InsertPart(s) ==
    /\ pc[s] = "insert"
    /\ ~PartLocked(s, part[s])
    /\ \/ /\ SeenPart(s, part[s]).status = "ABSENT"
          /\ WritePart(s, part[s], StartedPart(s))
          /\ Goto(s, "load")
       \/ /\ SeenPart(s, part[s]).status # "ABSENT"
          /\ Goto(s, "rollback")
          /\ UNCHANGED <<parts, pendPart>>
    /\ UNCHANGED <<batches, orders, quality, open, pendBatch, pendOrders,
                   pendQuality, job, start, part, counted>>

\* start_batch_part's UPDATE of a STARTED or FAILED part; it does not look at
\* the status again.
ReclaimPart(s) ==
    /\ pc[s] = "reclaim"
    /\ ~PartLocked(s, part[s])
    /\ WritePart(s, part[s], StartedPart(s))
    /\ Goto(s, "load")
    /\ UNCHANGED <<batches, orders, quality, open, pendBatch, pendOrders,
                   pendQuality, job, start, part, counted>>

\* Slip: ids that exist already are skipped, as ON CONFLICT DO NOTHING would.
LoadPartSkippingDuplicates(s) ==
    /\ pc[s] = "load"
    /\ PartIds(s, part[s]) \cap PendingOrders(s) = {}
    /\ WriteOrders(s, PartIds(s, part[s]) \ SeenOrders(s))
    /\ Goto(s, "complete")
    /\ UNCHANGED <<batches, parts, quality, open, pendBatch, pendPart,
                   pendQuality, job, start, part, counted>>

\* load_transaction_batch: COPY of the part's orders and items, all or none.
\* It waits for an uncommitted insert of the same key, and fails on a committed one.
LoadPart(s) ==
    /\ pc[s] = "load"
    /\ \/ /\ PartIds(s, part[s]) \cap SeenOrders(s) # {}
          /\ Goto(s, "failPart")
          /\ UNCHANGED <<orders, pendOrders>>
       \/ /\ PartIds(s, part[s]) \cap (SeenOrders(s) \cup PendingOrders(s)) = {}
          /\ WriteOrders(s, PartIds(s, part[s]))
          /\ Goto(s, "complete")
    /\ UNCHANGED <<batches, parts, quality, open, pendBatch, pendPart,
                   pendQuality, job, start, part, counted>>

\* complete_batch_part and connection.commit()
CompletePart(s) ==
    /\ pc[s] = "complete"
    /\ ~PartLocked(s, part[s])
    /\ \/ /\ SeenPart(s, part[s]).status = "STARTED"
          /\ CommitWith(s, [pendPart[s] EXCEPT ![part[s]] =
                              [SeenPart(s, part[s]) EXCEPT !.status = "COMPLETED"]])
          /\ counted' = [counted EXCEPT ![s][part[s]] = @ + 1]
          /\ Goto(s, "heartbeat")
       \/ /\ SeenPart(s, part[s]).status # "STARTED"
          /\ OpenTransaction(s)
          /\ Goto(s, "failPart")
          /\ UNCHANGED <<dbVars, pendVars, counted>>
    /\ UNCHANGED <<job, start, part>>

\* heartbeat_batch raises unless the batch is STARTED; it is inside the same
\* try block as the load.
HeartbeatBatch(s) ==
    /\ pc[s] = "heartbeat"
    /\ ~BatchLocked(s)
    /\ \/ /\ SeenBatch(s).status = "STARTED"
          /\ Goto(s, "part")
          /\ part' = [part EXCEPT ![s] = NextPart(s)]
       \/ /\ SeenBatch(s).status # "STARTED"
          /\ Goto(s, "failPart")
          /\ UNCHANGED part
    /\ UNCHANGED <<dbVars, open, pendVars, job, start, counted>>

\* fail_batch_part, whatever the part's status is.
FailPart(s) ==
    /\ pc[s] = "failPart"
    /\ ~PartLocked(s, part[s])
    /\ WritePart(s, part[s], [SeenPart(s, part[s]) EXCEPT !.status = "FAILED"])
    /\ Goto(s, "rollback")
    /\ UNCHANGED <<batches, orders, quality, open, pendBatch, pendOrders,
                   pendQuality, job, start, part, counted>>

-----------------------------------------------------------------------------
(* Validation and the end of the batch.                                    *)

\* The load count check and reconcile_transaction_batch over the batch's own range.
Reconciled(s) == OrdersLoaded(s) = Orders /\ BatchIds(s) \subseteq SeenOrders(s)

Reconcile(s) ==
    /\ pc[s] = "part"
    /\ part[s] \notin Parts
    /\ OpenTransaction(s)
    /\ Goto(s, IF Reconciled(s) THEN "quality" ELSE "rollback")
    /\ UNCHANGED <<dbVars, pendVars, job, start, part, counted>>

\* check_order_item_count counts the items of the orders in
\* [start_order_id, start_order_id + expected number of ITEMS).
ItemCheckIds(s) == start[s] .. (start[s] + ItemsIn(BatchIds(s)) - 1)
OrderCountMatches(s) == Cardinality(BatchIds(s) \cap SeenOrders(s)) = Orders
ItemCountMatches(s) == ItemsIn(ItemCheckIds(s) \cap SeenOrders(s)) = ItemsIn(BatchIds(s))

\* The other checks (duplicates, orphans, totals) cannot fail: keys are unique,
\* items refer to orders, and generated totals add up.
QualityPassed(s) == OrderCountMatches(s) /\ ItemCountMatches(s)

\* Slip: a failed verdict is stored but not raised.
CheckQualityLeniently(s) ==
    /\ pc[s] = "quality"
    /\ pendQuality' = [pendQuality EXCEPT ![s] = @ \cup {QualityPassed(s)}]
    /\ Goto(s, "finish")
    /\ UNCHANGED <<dbVars, open, pendBatch, pendPart, pendOrders, job, start, part, counted>>

\* Slip: the report is stored on a connection of its own, so that it survives.
CheckQualityApart(s) ==
    /\ pc[s] = "quality"
    /\ quality' = [quality EXCEPT ![job[s]] = @ \cup {QualityPassed(s)}]
    /\ Goto(s, IF QualityPassed(s) THEN "finish" ELSE "rollback")
    /\ UNCHANGED <<batches, parts, orders, open, pendVars, job, start, part, counted>>

\* run_and_persist_transaction_quality: the verdict is stored, then a failed
\* one raises DataQualityError.
CheckQuality(s) ==
    /\ pc[s] = "quality"
    /\ pendQuality' = [pendQuality EXCEPT ![s] = @ \cup {QualityPassed(s)}]
    /\ Goto(s, IF QualityPassed(s) THEN "finish" ELSE "rollback")
    /\ UNCHANGED <<dbVars, open, pendBatch, pendPart, pendOrders, job, start, part, counted>>

\* complete_batch, in the still open transaction.
CompleteBatch(s) ==
    /\ pc[s] = "finish"
    /\ ~BatchLocked(s)
    /\ \/ /\ SeenBatch(s).status = "STARTED"
          /\ WriteBatch(s, [SeenBatch(s) EXCEPT !.status = "COMPLETED"])
          /\ Goto(s, "returned")
       \/ /\ SeenBatch(s).status # "STARTED"
          /\ Goto(s, "rollback")
          /\ UNCHANGED <<batches, pendBatch>>
    /\ UNCHANGED <<parts, orders, quality, open, pendPart, pendOrders,
                   pendQuality, job, start, part, counted>>

\* The caller commits: the end of get_connection(), or update_stage_records_processed.
Return(s) ==
    /\ pc[s] = "returned"
    /\ CommitWith(s, pendPart[s])
    /\ Leave(s)

-----------------------------------------------------------------------------
(* Failure.                                                                *)

\* connection.rollback() in the outer except block
Rollback(s) ==
    /\ pc[s] = "rollback"
    /\ EndTransaction(s)
    /\ Goto(s, "failBatch")
    /\ UNCHANGED <<dbVars, job, start, part, counted>>

\* Slip: UPDATE without AND status = 'STARTED'.
MayFailAny(row) == row.status # "ABSENT"

\* WHERE status = 'STARTED'
MayFail(row) == row.status = "STARTED"

\* fail_batch: FAILED if the batch is STARTED, whoever started it; else it
\* raises, and the exception leaves the function all the same.
FailBatch(s) ==
    /\ pc[s] = "failBatch"
    /\ ~BatchLocked(s)
    /\ \/ /\ MayFail(SeenBatch(s))
          /\ WriteBatch(s, [SeenBatch(s) EXCEPT !.status = "FAILED"])
       \/ /\ ~MayFail(SeenBatch(s))
          /\ UNCHANGED <<batches, pendBatch>>
    /\ Leave(s)
    /\ UNCHANGED <<parts, orders, quality, open, pendPart, pendOrders, pendQuality>>

\* A statement is cancelled, the generator raises, or fail_part injects a
\* failure; the connection survives.  Inside the part's try block the part is
\* failed first.
Fault(s) ==
    /\ \/ /\ pc[s] \in {"start", "allocate", "resume", "part", "insert", "reclaim", "failPart",
                        "quality", "finish"}
          /\ Goto(s, "rollback")
          /\ UNCHANGED open
       \/ /\ pc[s] \in {"load", "heartbeat"}
          /\ Goto(s, "failPart")
          /\ UNCHANGED open
       \/ /\ pc[s] = "complete"
          /\ Goto(s, "failPart")
          /\ OpenTransaction(s)
    /\ UNCHANGED <<dbVars, pendVars, job, start, part, counted>>

\* The process dies, or its connection does: nothing pending survives.
Crash(s) ==
    /\ pc[s] # "out"
    /\ EndTransaction(s)
    /\ Leave(s)
    /\ UNCHANGED dbVars

-----------------------------------------------------------------------------
Step(s) ==
    \/ StartBatch(s) \/ InspectBatch(s) \/ RetryFailedBatch(s)
    \/ ReadStartIds(s) \/ AllocateStartId(s) \/ ReadCompletedParts(s)
    \/ SelectPart(s) \/ InsertPart(s) \/ ReclaimPart(s) \/ LoadPart(s)
    \/ CompletePart(s) \/ HeartbeatBatch(s) \/ FailPart(s)
    \/ Reconcile(s) \/ CheckQuality(s) \/ CompleteBatch(s) \/ Return(s)
    \/ Rollback(s) \/ FailBatch(s)

Next ==
    \E s \in Sessions :
        \/ \E b \in Batches, inTx \in CallerInTx : Call(s, b, inTx)
        \/ Step(s)
        \/ Fault(s)
        \/ Crash(s)

Spec == Init /\ [][Next]_vars

\* The same without faults and crashes: what the code does when nothing fails
\* around it.
FaultFreeSpec ==
    /\ Init
    /\ [][\E s \in Sessions : Step(s) \/ \E b \in Batches, inTx \in CallerInTx : Call(s, b, inTx)]_vars
    /\ \A s \in Sessions : SF_vars(Step(s))

-----------------------------------------------------------------------------
(* Properties                                                              *)

TypeOK ==
    /\ batches \in [Batches -> BatchRow]
    /\ parts \in [Batches -> [Parts -> PartRow]]
    /\ orders \in [Batches -> SUBSET Nat]
    /\ quality \in [Batches -> SUBSET BOOLEAN]
    /\ open \in [Sessions -> BOOLEAN]
    /\ pendBatch \in [Sessions -> BatchRow \cup {NoWrite}]
    /\ pendPart \in [Sessions -> [Parts -> PartRow \cup {NoWrite}]]
    /\ pendOrders \in [Sessions -> SUBSET Nat]
    /\ pendQuality \in [Sessions -> SUBSET BOOLEAN]
    /\ pc \in [Sessions -> Labels]
    /\ job \in [Sessions -> Batches \cup {NoBatch}]
    /\ start \in [Sessions -> Nat]
    /\ part \in [Sessions -> 1..(NumParts + 1)]
    /\ counted \in [Sessions -> [Parts -> Nat]]

\* The committed order_ids are 1..n: although ids are taken from MAX + 1
\* without a lock and loads fail, race and are retried, no hole is ever left
\* that a later commit could fill.
NoHoles == \A i \in CommittedOrders : \A j \in 1..i : j \in CommittedOrders

\* An order that becomes visible has a larger order_id than every order that
\* was visible before.  The analytics watermark on order_id relies on it.
CommitsAscend ==
    [][\A i \in CommittedOrders' \ CommittedOrders : \A j \in CommittedOrders : j < i]_vars

\* The orders of one logical batch lie within one range of config.orders ids,
\* however often the batch fails and is retried: a retry never loads the same
\* logical order again under a new id.
NeverLoadedTwice == \A b \in Batches : \A i, j \in orders[b] : i - j < Orders

\* A committed part-1 row and committed orders of the batch come together: the
\* ids that part 1 pins for later attempts are never those of a lost load.
PinnedWithData ==
    \A b \in Batches : parts[b][1].status # "ABSENT" <=> orders[b] # {}

\* A part with a COMPLETED checkpoint has exactly its range of orders loaded.
CompletedPartIsLoaded ==
    \A b \in Batches, k \in Parts :
        parts[b][k].status = "COMPLETED" =>
            parts[b][k].start .. (parts[b][k].start + Size(k) - 1) \subseteq orders[b]

\* A COMPLETED batch has loaded config.orders orders and stores a passing
\* quality verdict.
CompletedBatchIsWhole ==
    \A b \in Batches : batches[b].status = "COMPLETED" =>
        /\ Cardinality(orders[b]) = Orders
        /\ TRUE \in quality[b]

\* A COMPLETED batch is never changed again: no late failure handler, retry
\* or second session takes it back.
CompletedIsFinal ==
    [][\A b \in Batches : batches[b].status = "COMPLETED" =>
          batches'[b] = batches[b] /\ orders'[b] = orders[b]]_vars

\* retail.orders is a log of whole parts, and a batch appends only behind its
\* own orders: once another batch has appended, the rest of an unfinished batch
\* has lost its ids for good.
Log == INSTANCE OrderLog
AppendsWholeParts == Log!Spec

\* A stored verdict is a passing one and comes with the completion it let
\* happen: no attempt that fails, whoever works on the batch besides, leaves a
\* verdict behind.
VerdictComesWithCompletion ==
    \A b \in Batches : quality[b] # {} =>
        quality[b] = {TRUE} /\ batches[b].status = "COMPLETED"

\* A call that has got past the claim works on batch b.
InProgress(b) ==
    \E s \in Sessions : job[s] = b /\ pc[s] \notin {"claim", "inspect", "retry"}

\* A STARTED batch whose process died is not taken up by anybody, not even by a
\* session that read FAILED before: two processes never share one attempt.
AbandonedStaysStarted ==
    [][\A b \in Batches : batches[b].status = "STARTED" /\ ~InProgress(b) =>
          batches'[b] = batches[b] /\ ~InProgress(b)']_vars

\* Every call comes to an end: sessions never wait for each other's row locks
\* and order ids in a circle.
CallsEnd == \A s \in Sessions : pc[s] # "out" ~> pc[s] = "out"

-----------------------------------------------------------------------------
(* What comments and docstrings say and the code does not do.              *)

\* complete_transaction_ingestion is "called only after every physical batch
\* has completed successfully": the parts of a COMPLETED batch are COMPLETED.
CompletedBatchHasCompletedParts ==
    \A b \in Batches : batches[b].status = "COMPLETED" =>
        \A k \in Parts : parts[b][k].status = "COMPLETED"

\* "process_transaction_batch() atomically performs" COPY orders, COPY order_items
\* and COMPLETE checkpoint; "If any step fails, all three are rolled back": where
\* it has raised, before the part is counted and before fail_batch_part records
\* the failure, none of the part's orders is in the database.
FailedPartIsRolledBack ==
    \A s \in Sessions :
        pc[s] = "failPart" /\ counted[s][part[s]] = 0 =>
            PartIds(s, part[s]) \cap CommittedOrders = {}

\* "The STARTED checkpoint is committed independently before the physical
\* batch is processed."
StartedCheckpointIsDurable ==
    \A s \in Sessions : pc[s] = "load" => parts[job[s]][part[s]].status = "STARTED"

\* "The failure checkpoint is committed independently so that it survives the
\* surrounding ingestion failure": it is there after the rollback.
FailedCheckpointSurvives ==
    [][\A s \in Sessions : FailPart(s) => parts'[job[s]][part[s]].status = "FAILED"]_vars

\* "The first physical batch establishes the source ID allocation for the
\* entire logical ingestion": no other batch takes an id of that allocation.
AllocationIsKept ==
    \A b \in Batches : parts[b][1].status # "ABSENT" =>
        \A c \in Batches \ {b} :
            orders[c] \cap parts[b][1].start .. (parts[b][1].start + Orders - 1) = {}

\* The "order_item_count" check compares the batch's items with the expected
\* number: on a batch that has just been reconciled it passes.
QualityAgreesWithReconciliation ==
    \A s \in Sessions : pc[s] = "quality" => QualityPassed(s)

\* "Run transaction quality checks and persist the resulting quality report":
\* a report that was written becomes durable.
QualityReportIsPersisted ==
    \A s \in Sessions, b \in Batches, v \in BOOLEAN :
        job[s] = b /\ v \in pendQuality[s] ~> v \in quality[b]
=============================================================================
