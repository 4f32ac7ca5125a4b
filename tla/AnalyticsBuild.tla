--------------------------- MODULE AnalyticsBuild ---------------------------
(***************************************************************************)
(* build_analytics() as a pipeline stage: dimensions, facts past the       *)
(* watermarks, marts, watermarks, all in one transaction that is committed *)
(* when the stage has succeeded, or when the retries are used up and the   *)
(* caller leaves get_connection().  An attempt that fails keeps what its   *)
(* earlier savepoints wrote.                                               *)
(*                                                                         *)
(* Ingestion commits orders with their items meanwhile; order_ids are      *)
(* contiguous and ascend (TransactionIngestion), so the committed source   *)
(* is a number.  The items of an order are one unit, and the item          *)
(* watermark is counted in orders.  Several builds may run at once: the    *)
(* upserts of the dimensions lock their rows until the transaction ends.   *)
(***************************************************************************)
EXTENDS Integers, FiniteSets, FiniteSetsExt, Postgres

CONSTANTS
    Builders,       \* processes that build analytics
    MaxOrders,      \* bound: orders ever ingested
    DateOf,         \* the date of each order
    NumMarts,       \* marts, refreshed one after the other (four in the code)
    StageAttempts   \* DEFAULT_RETRY_CONFIG.max_attempts

ASSUME AnalyticsAssumption ==
    /\ MaxOrders \in Nat
    /\ DateOf \in [1..MaxOrders -> Nat]
    /\ NumMarts \in Nat \ {0}
    /\ StageAttempts \in Nat \ {0}

OrderIds == 1..MaxOrders
Marts == 1..NumMarts
MartRow == [orders : SUBSET OrderIds, items : SUBSET OrderIds]

ASSUME NoMartAssumption == NoWrite \notin MartRow /\ NoWrite \notin 0..MaxOrders

VARIABLES
    source,   \* orders committed in retail.orders, with their items
    wh,       \* the committed warehouse
    pend,     \* each builder's uncommitted writes to it
    at        \* each builder's program counter and local variables

vars == <<source, wh, pend, at>>

Labels == {"out", "dates", "dims", "orders", "loadOrders", "items", "loadItems",
           "marts", "watermarks", "commit", "failed", "giveUp"}

NothingPending == [dates |-> {}, dims |-> FALSE, orders |-> {}, items |-> {},
                   marts |-> [m \in Marts |-> NoWrite],
                   orderMark |-> NoWrite, itemMark |-> NoWrite]
Outside == [pc |-> "out", attempt |-> 0, base |-> 0, orders |-> {}, items |-> {}, mart |-> 1]

Init ==
    /\ source = 0
    /\ wh = [dates |-> {}, orders |-> {}, items |-> {},
             marts |-> [m \in Marts |-> [orders |-> {}, items |-> {}]],
             orderMark |-> 0, itemMark |-> 0]
    /\ pend = [b \in Builders |-> NothingPending]
    /\ at = [b \in Builders |-> Outside]

-----------------------------------------------------------------------------
Others(b) == Builders \ {b}

SeenDates(b) == wh.dates \cup pend[b].dates
SeenOrders(b) == wh.orders \cup pend[b].orders
SeenItems(b) == wh.items \cup pend[b].items
OrderMark(b) == Seen(pend[b].orderMark, wh.orderMark)
ItemMark(b) == Seen(pend[b].itemMark, wh.itemMark)

Goto(b, label) == at' = [at EXCEPT ![b].pc = label]

\* COMMIT
Commit(b) ==
    /\ wh' = [dates |-> SeenDates(b), orders |-> SeenOrders(b), items |-> SeenItems(b),
              marts |-> Merged(pend[b].marts, wh.marts),
              orderMark |-> OrderMark(b), itemMark |-> ItemMark(b)]
    /\ pend' = [pend EXCEPT ![b] = NothingPending]
    /\ at' = [at EXCEPT ![b] = Outside]

\* Ingestion commits orders together with their items.
Ingest ==
    /\ \E n \in (source + 1)..MaxOrders : source' = n
    /\ UNCHANGED <<wh, pend, at>>

-----------------------------------------------------------------------------
(* One attempt.                                                            *)

StartBuild(b) ==
    /\ at[b].pc = "out"
    /\ at' = [at EXCEPT ![b].pc = "dates", ![b].attempt = 1, ![b].base = source]
    /\ UNCHANGED <<source, wh, pend>>

Interval(dates) == IF dates = {} THEN {} ELSE Min(dates)..Max(dates)

\* _ensure_date_dimension_covers_orders: dim_date becomes the interval of its
\* own dates and those of the orders committed so far.
NeededDates(b) == Interval(SeenDates(b) \cup {DateOf[i] : i \in 1..source}) \ SeenDates(b)

CoverDates(b) ==
    /\ at[b].pc = "dates"
    /\ \A c \in Others(b) : NeededDates(b) \cap pend[c].dates = {}
    /\ pend' = [pend EXCEPT ![b].dates = @ \cup NeededDates(b)]
    /\ Goto(b, "dims")
    /\ UNCHANGED <<source, wh>>

\* Slip: the upserts lock nothing, as ON CONFLICT DO NOTHING would.
LoadDimensionsWithoutLock(b) ==
    /\ at[b].pc = "dims"
    /\ Goto(b, "orders")
    /\ UNCHANGED <<source, wh, pend>>

\* INSERT ... ON CONFLICT DO UPDATE of every dimension row: waits for any other
\* build that has done so and locks the rows until the transaction ends.
LoadDimensions(b) ==
    /\ at[b].pc = "dims"
    /\ \A c \in Others(b) : ~pend[c].dims
    /\ pend' = [pend EXCEPT ![b].dims = TRUE]
    /\ Goto(b, "orders")
    /\ UNCHANGED <<source, wh>>

\* get_orders: the orders past the watermark.
ReadOrders(b) ==
    /\ at[b].pc = "orders"
    /\ at' = [at EXCEPT ![b].pc = "loadOrders", ![b].orders = (OrderMark(b) + 1)..source]
    /\ UNCHANGED <<source, wh, pend>>

Undated(b) == {i \in at[b].orders : DateOf[i] \notin SeenDates(b)}

\* load_fact_orders: raises when an order's date is not in dim_date.
LoadOrders(b) ==
    /\ at[b].pc = "loadOrders"
    /\ \/ /\ Undated(b) = {}
          /\ \A c \in Others(b) : at[b].orders \cap pend[c].orders = {}
          /\ pend' = [pend EXCEPT ![b].orders = @ \cup (at[b].orders \ wh.orders)]
          /\ Goto(b, "items")
       \/ /\ Undated(b) # {}
          /\ Goto(b, "failed")
          /\ UNCHANGED pend
    /\ UNCHANGED <<source, wh>>

\* get_order_items, in a later statement: it may see orders that ReadOrders
\* did not.
ReadItems(b) ==
    /\ at[b].pc = "items"
    /\ at' = [at EXCEPT ![b].pc = "loadItems", ![b].items = (ItemMark(b) + 1)..source]
    /\ UNCHANGED <<source, wh, pend>>

\* Slip: items of unknown orders fall out of the JOIN.
LoadKnownItems(b) ==
    /\ at[b].pc = "loadItems"
    /\ pend' = [pend EXCEPT ![b].items = @ \cup ((at[b].items \cap SeenOrders(b)) \ wh.items)]
    /\ at' = [at EXCEPT ![b].pc = "marts", ![b].mart = 1]
    /\ UNCHANGED <<source, wh>>

\* load_fact_order_items: raises when an item's order is not a fact.
LoadItems(b) ==
    /\ at[b].pc = "loadItems"
    /\ \/ /\ at[b].items \subseteq SeenOrders(b)
          /\ \A c \in Others(b) : at[b].items \cap pend[c].items = {}
          /\ pend' = [pend EXCEPT ![b].items = @ \cup (at[b].items \ wh.items)]
          /\ at' = [at EXCEPT ![b].pc = "marts", ![b].mart = 1]
       \/ /\ ~(at[b].items \subseteq SeenOrders(b))
          /\ Goto(b, "failed")
          /\ UNCHANGED pend
    /\ UNCHANGED <<source, wh>>

\* A mart's order columns and item columns are aggregated separately over all
\* facts.
Counted(b) == [orders |-> SeenOrders(b), items |-> SeenItems(b)]

\* Slip: the remaining marts are left for the next build.
RefreshFirstMart(b) ==
    /\ at[b].pc = "marts"
    /\ \A c \in Others(b) : pend[c].marts[1] = NoWrite
    /\ pend' = [pend EXCEPT ![b].marts[1] = Counted(b)]
    /\ Goto(b, "watermarks")
    /\ UNCHANGED <<source, wh>>

\* refresh_daily_sales and the other three, each in a savepoint: DELETE and
\* INSERT ... SELECT over the facts.  The deleted rows stay locked.
RefreshMart(b) ==
    /\ at[b].pc = "marts"
    /\ \A c \in Others(b) : pend[c].marts[at[b].mart] = NoWrite
    /\ pend' = [pend EXCEPT ![b].marts[at[b].mart] = Counted(b)]
    /\ at' = IF at[b].mart = NumMarts
             THEN [at EXCEPT ![b].pc = "watermarks"]
             ELSE [at EXCEPT ![b].mart = @ + 1]
    /\ UNCHANGED <<source, wh>>

\* Slip: the watermarks move to the end of the source as it is now.
AdvanceToSource(b) ==
    /\ at[b].pc = "watermarks"
    /\ \A c \in Others(b) : pend[c].orderMark = NoWrite /\ pend[c].itemMark = NoWrite
    /\ pend' = [pend EXCEPT ![b].orderMark = source, ![b].itemMark = source]
    /\ Goto(b, "commit")
    /\ UNCHANGED <<source, wh>>

\* A watermark moves to the largest id that was read, if any was.
Advanced(read, mark) == IF read = {} THEN mark ELSE Max(read)

\* advance_watermark, for orders and for order items.
AdvanceWatermarks(b) ==
    /\ at[b].pc = "watermarks"
    /\ \A c \in Others(b) : pend[c].orderMark = NoWrite /\ pend[c].itemMark = NoWrite
    /\ pend' = [pend EXCEPT ![b].orderMark = Advanced(at[b].orders, @),
                            ![b].itemMark = Advanced(at[b].items, @)]
    /\ Goto(b, "commit")
    /\ UNCHANGED <<source, wh>>

\* The stage has succeeded: update_stage_records_processed commits.
FinishBuild(b) ==
    /\ at[b].pc = "commit"
    /\ Commit(b)
    /\ UNCHANGED source

-----------------------------------------------------------------------------
(* Failure.                                                                *)

\* Slips: one attempt too many; no limit.
RetryOnceMore(b) ==
    /\ at[b].pc = "failed"
    /\ \/ /\ at[b].attempt <= StageAttempts
          /\ at' = [at EXCEPT ![b].pc = "dates", ![b].attempt = @ + 1, ![b].base = source]
       \/ /\ at[b].attempt > StageAttempts
          /\ Goto(b, "giveUp")
    /\ UNCHANGED <<source, wh, pend>>
RetryForever(b) ==
    /\ at[b].pc = "failed"
    /\ at' = [at EXCEPT ![b].pc = "dates", ![b].base = source]
    /\ UNCHANGED <<source, wh, pend>>

\* The retry runs in the same transaction and keeps what is pending.
RetryBuild(b) ==
    /\ at[b].pc = "failed"
    /\ \/ /\ at[b].attempt < StageAttempts
          /\ at' = [at EXCEPT ![b].pc = "dates", ![b].attempt = @ + 1, ![b].base = source]
       \/ /\ at[b].attempt = StageAttempts
          /\ Goto(b, "giveUp")
    /\ UNCHANGED <<source, wh, pend>>

\* The run is FAILED, and get_connection() commits what the attempts wrote.
GiveUp(b) ==
    /\ at[b].pc = "giveUp"
    /\ Commit(b)
    /\ UNCHANGED source

InSavepoint == {"dates", "dims", "loadOrders", "loadItems", "marts"}

\* An exception in a savepoint: the transaction stays usable.
Raise(b) ==
    /\ at[b].pc \in InSavepoint
    /\ Goto(b, "failed")
    /\ UNCHANGED <<source, wh, pend>>

\* A later dimension fails after an earlier one has locked its rows.
RaiseInDimensions(b) ==
    /\ at[b].pc = "dims"
    /\ \A c \in Others(b) : ~pend[c].dims
    /\ pend' = [pend EXCEPT ![b].dims = TRUE]
    /\ Goto(b, "failed")
    /\ UNCHANGED <<source, wh>>

\* A retry may need dates another build has added while that one waits for the
\* dimension rows; PostgreSQL fails a statement of such a circle.
Deadlocked(b, c) ==
    /\ at[b].pc = "dims" /\ pend[c].dims
    /\ at[c].pc = "dates" /\ NeededDates(c) \cap pend[b].dates # {}

BreakDeadlock(b) ==
    /\ \E c \in Others(b) : Deadlocked(b, c) \/ Deadlocked(c, b)
    /\ Goto(b, "failed")
    /\ UNCHANGED <<source, wh, pend>>

\* The process dies, or a statement fails outside the savepoints (a watermark
\* or a source read) and with it every later one: all is rolled back.
Crash(b) ==
    /\ at[b].pc # "out"
    /\ pend' = [pend EXCEPT ![b] = NothingPending]
    /\ at' = [at EXCEPT ![b] = Outside]
    /\ UNCHANGED <<source, wh>>

-----------------------------------------------------------------------------
Step(b) ==
    \/ CoverDates(b) \/ LoadDimensions(b) \/ ReadOrders(b) \/ LoadOrders(b)
    \/ ReadItems(b) \/ LoadItems(b) \/ RefreshMart(b) \/ AdvanceWatermarks(b)
    \/ FinishBuild(b) \/ RetryBuild(b) \/ GiveUp(b) \/ BreakDeadlock(b)

Next ==
    \/ Ingest
    \/ \E b \in Builders : StartBuild(b) \/ Step(b) \/ Raise(b) \/ RaiseInDimensions(b) \/ Crash(b)

Spec == Init /\ [][Next]_vars

\* Builders are scheduled, lock queues are served and deadlocks are broken.
FairSpec == Spec /\ \A b \in Builders : SF_vars(Step(b))

-----------------------------------------------------------------------------
(* Properties                                                              *)

AtRow == [pc : Labels, attempt : 0..StageAttempts, base : 0..MaxOrders,
          orders : SUBSET OrderIds, items : SUBSET OrderIds, mart : Marts]
PendRow == [dates : SUBSET Nat, dims : BOOLEAN,
            orders : SUBSET OrderIds, items : SUBSET OrderIds,
            marts : [Marts -> MartRow \cup {NoWrite}],
            orderMark : (0..MaxOrders) \cup {NoWrite},
            itemMark : (0..MaxOrders) \cup {NoWrite}]
Warehouse == [dates : SUBSET Nat, orders : SUBSET OrderIds, items : SUBSET OrderIds,
              marts : [Marts -> MartRow],
              orderMark : 0..MaxOrders, itemMark : 0..MaxOrders]

TypeOK ==
    /\ source \in 0..MaxOrders
    /\ wh \in Warehouse
    /\ pend \in [Builders -> PendRow]
    /\ at \in [Builders -> AtRow]

\* Nothing below a watermark is missing: every order and item up to it is a
\* fact and counted in every mart.  Builds will never read them again.
WatermarksAreCovered ==
    /\ 1..wh.orderMark \subseteq wh.orders
    /\ 1..wh.itemMark \subseteq wh.items
    /\ \A m \in Marts : /\ 1..wh.orderMark \subseteq wh.marts[m].orders
                        /\ 1..wh.itemMark \subseteq wh.marts[m].items

\* Orders and items are read by two statements, with ingestion committing in
\* between; still both watermarks always stand at the same order.
WatermarksAgree == wh.orderMark = wh.itemMark

\* A mart never counts an order without its items, although the facts may hold
\* one after a failed build.
MartsHaveWholeOrders == \A m \in Marts : wh.marts[m].orders \subseteq wh.marts[m].items

\* The watermark is written without a look at its old value, yet no build takes
\* back what another has reached.
WatermarksNeverRegress ==
    [][wh'.orderMark >= wh.orderMark /\ wh'.itemMark >= wh.itemMark]_vars

\* When a build succeeds, all that was committed when its last attempt began is
\* in the facts, in every mart and below the watermark.
BuildIsComplete ==
    [][\A b \in Builders : FinishBuild(b) =>
          /\ 1..at[b].base \subseteq wh'.items
          /\ at[b].base <= wh'.orderMark
          /\ \A m \in Marts : 1..at[b].base \subseteq wh'.marts[m].orders]_vars

\* Every build ends: builds wait for each other in a circle at most until the
\* database breaks it, and retries are bounded.
BuildsEnd == \A b \in Builders : at[b].pc # "out" ~> at[b].pc = "out"
=============================================================================
