------------------------------ MODULE OrderItems ------------------------------
(***************************************************************************)
(* retail.order_items next to TransactionIngestion: every step of the      *)
(* ingestion joined with what it does to the order items.                  *)
(*                                                                         *)
(* Order-item ids are allocated like order ids, by MAX + 1, but in another *)
(* statement, and the ids of a later part follow from regenerating the     *)
(* items of the parts before it.  AnalyticsBuild treats the items of an    *)
(* order as one unit; ItemsFollowOrders is what justifies it.              *)
(***************************************************************************)
EXTENDS TransactionIngestion

VARIABLES
    items,      \* retail.order_items, committed: <<order_id, order_item_id>>
    pin,        \* start_order_item_id of the committed row of part 1; 0: no row
    pendItems,  \* the session's uncommitted writes to them
    pendPin,
    itemStart   \* start_order_item_id; 0: not read

itemVars == <<items, pin, pendItems, pendPin, itemStart>>

ItemInit ==
    /\ Init
    /\ items = {}
    /\ pin = [b \in Batches |-> 0]
    /\ pendItems = [s \in Sessions |-> {}]
    /\ pendPin = [s \in Sessions |-> 0]
    /\ itemStart = [s \in Sessions |-> 0]

ItemIds(rows) == {row[2] : row \in rows}

SeenItemIds(s) == ItemIds(items \cup pendItems[s])
PendingItemIds(s) == UNION {ItemIds(pendItems[t]) : t \in Sessions \ {s}}
SeenPin(s) == IF pendPin[s] # 0 THEN pendPin[s] ELSE pin[job[s]]

\* The rows of consecutive orders whose first item has the id first.
ItemRows(ids, first) ==
    UNION {LET before == {j \in ids : j < i}
               base == first + ItemsIn(before)
           IN  {i} \X (base .. (base + ItemsOf(i) - 1)) : i \in ids}

\* Slip: the id of a part's first item assumes the most items an order can have.
WidestItemOffset(s, k) == 5 * Offset(k)

\* calculate_order_item_offset: the number of items before part k, found by
\* generating its orders again.
OrderItemOffset(s, k) == ItemsIn(start[s] .. (start[s] + Offset(k) - 1))

PartItems(s, k) == ItemRows(PartIds(s, k), itemStart[s] + OrderItemOffset(s, k))

-----------------------------------------------------------------------------
(* What the steps of TransactionIngestion do to the items.                 *)

Forget(s) == itemStart' = [itemStart EXCEPT ![s] = 0]

DropItems(s) ==
    /\ pendItems' = [pendItems EXCEPT ![s] = {}]
    /\ pendPin' = [pendPin EXCEPT ![s] = 0]
    /\ UNCHANGED <<items, pin>>

CommitItems(s) ==
    /\ items' = items \cup pendItems[s]
    /\ pin' = [pin EXCEPT ![job[s]] = SeenPin(s)]
    /\ pendItems' = [pendItems EXCEPT ![s] = {}]
    /\ pendPin' = [pendPin EXCEPT ![s] = 0]

\* Slip: the item ids are not taken from part 1.
ReadItemStartFresh(s) ==
    /\ ReadStartIds(s)
    /\ itemStart' = [itemStart EXCEPT ![s] = IF pc'[s] = "resume" THEN NextOrderId(SeenItemIds(s)) ELSE 0]
    /\ UNCHANGED <<items, pin, pendItems, pendPin>>

\* get_batch_part_start_ids reads both ids of part 1.
ReadItemStart(s) ==
    /\ ReadStartIds(s)
    /\ itemStart' = [itemStart EXCEPT ![s] = IF pc'[s] = "resume" THEN SeenPin(s) ELSE 0]
    /\ UNCHANGED <<items, pin, pendItems, pendPin>>

\* get_next_order_item_id, the statement after get_next_order_id.
AllocateItemStart(s) ==
    /\ pc[s] = "resume" /\ itemStart[s] = 0
    /\ itemStart' = [itemStart EXCEPT ![s] = NextOrderId(SeenItemIds(s))]
    /\ UNCHANGED <<vars, items, pin, pendItems, pendPin>>

\* The row of part 1 pins start_order_item_id for later attempts.
RegisterPart(s) ==
    /\ InsertPart(s) \/ ReclaimPart(s)
    /\ IF part[s] # 1 \/ pc'[s] = "rollback" THEN UNCHANGED <<pin, pendPin>>
       ELSE IF open[s] THEN pendPin' = [pendPin EXCEPT ![s] = itemStart[s]] /\ UNCHANGED pin
       ELSE pin' = [pin EXCEPT ![job[s]] = itemStart[s]] /\ UNCHANGED pendPin
    /\ UNCHANGED <<items, pendItems, itemStart>>

\* The COPY of the items follows that of the orders in one block.  It waits
\* for an uncommitted insert of the same id; an id that exists is a failure of
\* the part (Fault).
LoadItems(s) ==
    /\ LoadPart(s)
    /\ LET new == PartItems(s, part[s])
       IN  IF pc'[s] = "failPart" THEN UNCHANGED <<items, pendItems>>
           ELSE /\ ItemIds(new) \cap (SeenItemIds(s) \cup PendingItemIds(s)) = {}
                /\ IF open[s]
                   THEN pendItems' = [pendItems EXCEPT ![s] = @ \cup new] /\ UNCHANGED items
                   ELSE items' = items \cup new /\ UNCHANGED pendItems
    /\ UNCHANGED <<pin, pendPin, itemStart>>

CompleteItems(s) ==
    /\ CompletePart(s)
    /\ IF pc'[s] = "heartbeat" THEN CommitItems(s) /\ UNCHANGED itemStart
       ELSE UNCHANGED itemVars

ItemStep(s) ==
    \/ ReadItemStart(s)
    \/ AllocateItemStart(s)
    \/ ReadCompletedParts(s) /\ itemStart[s] # 0 /\ UNCHANGED itemVars
    \/ RegisterPart(s)
    \/ LoadItems(s)
    \/ CompleteItems(s)
    \/ Return(s) /\ CommitItems(s) /\ Forget(s)
    \/ Rollback(s) /\ DropItems(s) /\ UNCHANGED itemStart
    \/ FailBatch(s) /\ Forget(s) /\ UNCHANGED <<items, pin, pendItems, pendPin>>
    \/ /\ \/ StartBatch(s) \/ InspectBatch(s) \/ RetryFailedBatch(s) \/ AllocateStartId(s)
          \/ SelectPart(s) \/ HeartbeatBatch(s) \/ FailPart(s)
          \/ Reconcile(s) \/ CheckQuality(s) \/ CompleteBatch(s)
       /\ UNCHANGED itemVars

ItemNext ==
    \E s \in Sessions :
        \/ \E b \in Batches, inTx \in CallerInTx : Call(s, b, inTx) /\ UNCHANGED itemVars
        \/ ItemStep(s)
        \/ Fault(s) /\ UNCHANGED itemVars
        \/ Crash(s) /\ DropItems(s) /\ Forget(s)

ItemSpec == ItemInit /\ [][ItemNext]_<<vars, itemVars>>

\* A session that is scheduled makes progress; a lock wait ends because
\* PostgreSQL queues the waiters, hence strong fairness.
FairItemSpec == ItemSpec /\ \A s \in Sessions : SF_<<vars, itemVars>>(ItemStep(s))

-----------------------------------------------------------------------------
(* Properties                                                              *)

\* The items of retail.order_items are those of the committed orders, all of
\* them, numbered without a hole in the order of the order ids, although the
\* two ids of a batch are read in different statements and a retry numbers its
\* parts from what part 1 pinned.
ItemsFollowOrders == items = ItemRows(CommittedOrders, 1)
=============================================================================
