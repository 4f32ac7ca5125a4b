----------------------------- MODULE ReferenceData -----------------------------
(***************************************************************************)
(* The reference data of retail from its bootstrap to the warehouse.       *)
(*                                                                         *)
(* Every attempt of the ingestion stage first counts the reference rows    *)
(* and, when there are too few, inserts all of them, on the connection and *)
(* in the transaction the ingestion goes on with.  So the rows become      *)
(* durable with part 1, are lost in ingestion's rollback, and are          *)
(* committed in part when the stage gives up in the middle of a bootstrap. *)
(* Sessions may be configured for different sizes.                         *)
(*                                                                         *)
(* A build reads the tables one statement after the other, then the orders *)
(* and the order items; builds run one after the other (AnalyticsBuild,    *)
(* LoadDimensions).  Orders have one item.                                 *)
(***************************************************************************)
EXTENDS Integers, Sequences, FiniteSets, FiniteSetsExt

CONSTANTS
    Sessions,
    Wanted,      \* GeneratorConfig of each session: the rows of each table
    RootCategories,  \* len(ROOT_CATEGORIES): the categories there are to generate
    MaxOrders    \* bound: orders ever committed

\* bootstrap_reference_data inserts in this order, _load_dimensions reads in that.
InsertOrder == <<"categories", "suppliers", "stores", "products", "customers">>
ReadOrder == <<"categories", "suppliers", "products", "customers", "stores">>
Tables == {InsertOrder[k] : k \in DOMAIN InsertOrder}

ASSUME ReferenceAssumption ==
    /\ IsFiniteSet(Sessions)
    /\ Wanted \in [Sessions -> [Tables -> Nat \ {0}]]
    /\ RootCategories \in Nat \ {0}
    /\ MaxOrders \in Nat

Ids == 1 .. Max({RootCategories} \cup {Wanted[s][t] : s \in Sessions, t \in Tables})
NoStore == 0
NoRows == [t \in Tables |-> {}]

VARIABLES
    rows,     \* the committed ids of each reference table
    orders,   \* the committed orders: customer, store and product of its item
    mine,     \* the reference rows a session has inserted and not committed
    todo,     \* the generated rows its bootstrap has yet to insert
    known,    \* what the ingestion has read of the tables
    pc,
    wh,       \* the committed warehouse
    work,     \* the warehouse as the running build sees it, and the last order
              \* and item the build has read
    step      \* where the running build is

vars == <<rows, orders, mine, todo, known, pc, wh, work, step>>
sourceVars == <<rows, orders, mine, todo, known, pc>>
buildVars == <<wh, work, step>>

Init ==
    /\ rows = NoRows
    /\ orders = <<>>
    /\ mine = [s \in Sessions |-> NoRows]
    /\ todo = [s \in Sessions |-> NoRows]
    /\ known = [s \in Sessions |-> NoRows]
    /\ pc = [s \in Sessions |-> "out"]
    /\ wh = [dims |-> NoRows, facts |-> {}, items |-> {}, orderMark |-> 0, itemMark |-> 0,
             lastOrder |-> 0, lastItem |-> 0]
    /\ work = wh
    /\ step = "out"

-----------------------------------------------------------------------------
(* An attempt of the ingestion stage.                                      *)

Visible(s, t) == rows[t] \cup mine[s][t]

Goto(s, label) == pc' = [pc EXCEPT ![s] = label]

Call(s) ==
    /\ pc[s] = "out"
    /\ Goto(s, "check")
    /\ UNCHANGED <<rows, orders, mine, todo, known, buildVars>>

\* Slip: tables that are not empty will do.
AnyRows(s) == \A t \in Tables : Visible(s, t) # {}

\* reference_data_is_ready: the tables have at least the configured sizes.
Ready(s) == \A t \in Tables : Cardinality(Visible(s, t)) >= Wanted[s][t]

\* generate_categories takes no count: config.categories is only looked at by
\* Ready, and a session that wants more bootstraps in every attempt.
Supply(s, t) == IF t = "categories" THEN RootCategories ELSE Wanted[s][t]

\* generate_categories, generate_products and the others: ids from 1.
Generated(s) == [t \in Tables |-> 1..Supply(s, t)]

CheckReference(s) ==
    /\ pc[s] = "check"
    /\ IF Ready(s)
       THEN Goto(s, "claim") /\ UNCHANGED todo
       ELSE Goto(s, "load") /\ todo' = [todo EXCEPT ![s] = Generated(s)]
    /\ UNCHANGED <<rows, orders, mine, known, buildVars>>

\* Slip: the tables are loaded in no particular order.
NextRowsUnordered(s) == {<<t, Min(todo[s][t])>> : t \in {u \in Tables : todo[s][u] # {}}}

\* Slip: the ids are numbered from zero.
NextRowsFromZero(s) ==
    LET open == {k \in DOMAIN InsertOrder : todo[s][InsertOrder[k]] # {}}
        t == InsertOrder[Min(open)]
    IN  IF open = {} THEN {} ELSE {<<t, Min(todo[s][t]) - 1>>}

\* Table after table, in ascending ids.
NextRows(s) ==
    LET open == {k \in DOMAIN InsertOrder : todo[s][InsertOrder[k]] # {}}
        t == InsertOrder[Min(open)]
    IN  IF open = {} THEN {} ELSE {<<t, Min(todo[s][t])>>}

\* The sessions whose uncommitted insert of the same id an insert waits for.
WaitsFor(s, t, i) == {r \in Sessions \ {s} : i \in mine[r][t]}

\* INSERT ... ON CONFLICT DO NOTHING
InsertRow(s) ==
    /\ pc[s] = "load"
    /\ \E row \in NextRows(s) :
          LET t == row[1]  i == row[2] IN
          /\ WaitsFor(s, t, i) = {}
          /\ mine' = [mine EXCEPT ![s][t] = IF i \in rows[t] THEN @ ELSE @ \cup {i}]
          /\ todo' = [todo EXCEPT ![s][t] = @ \ {i}]
    /\ UNCHANGED <<rows, orders, known, pc, buildVars>>

FinishBootstrap(s) ==
    /\ pc[s] = "load" /\ todo[s] = NoRows
    /\ Goto(s, "claim")
    /\ UNCHANGED <<rows, orders, mine, todo, known, buildVars>>

\* The batch is claimed; the ids to choose from are read.
ReadReference(s) ==
    /\ pc[s] = "claim"
    /\ known' = [known EXCEPT ![s] = [t \in Tables |->
                   IF t \in {"customers", "stores", "products"} THEN Visible(s, t) ELSE {}]]
    /\ Goto(s, "ingest")
    /\ UNCHANGED <<rows, orders, mine, todo, buildVars>>

CommitRows(s) ==
    /\ rows' = [t \in Tables |-> Visible(s, t)]
    /\ mine' = [mine EXCEPT ![s] = NoRows]

\* A part is loaded and committed; an order chooses among the rows read.
CommitPart(s) ==
    /\ pc[s] = "ingest" /\ Len(orders) < MaxOrders
    /\ \E c \in known[s]["customers"], st \in known[s]["stores"], p \in known[s]["products"] :
          orders' = Append(orders, [customer |-> c, store |-> st, product |-> p])
    /\ CommitRows(s)
    /\ UNCHANGED <<todo, known, pc, buildVars>>

\* The local variables of an attempt end with it.
Leave(s, label) ==
    /\ Goto(s, label)
    /\ todo' = [todo EXCEPT ![s] = NoRows]
    /\ known' = [known EXCEPT ![s] = NoRows]

\* The stage has succeeded (the batch may have been COMPLETED before), or a
\* failing one has used up its attempts: get_connection commits.
Exit(s) ==
    /\ pc[s] \in {"claim", "ingest", "failed"}
    /\ CommitRows(s)
    /\ Leave(s, "out")
    /\ UNCHANGED <<orders, buildVars>>

\* A failure before ingestion's own handler: the transaction stays open.
FailOutsideIngestion(s) ==
    /\ pc[s] \in {"check", "load", "claim"}
    /\ Leave(s, "failed")
    /\ UNCHANGED <<rows, orders, mine, buildVars>>

\* A failure inside it, empty tables included: connection.rollback().
FailIngestion(s) ==
    /\ pc[s] = "ingest"
    /\ mine' = [mine EXCEPT ![s] = NoRows]
    /\ Leave(s, "failed")
    /\ UNCHANGED <<rows, orders, buildVars>>

\* Slip: a retry goes straight to the ingestion.
RetryIngestionOnly(s) ==
    /\ pc[s] = "failed"
    /\ Goto(s, "claim")
    /\ UNCHANGED <<rows, orders, mine, todo, known, buildVars>>

\* run_with_retry repeats the whole of _ensure_reference_data_and_ingest.
Retry(s) ==
    /\ pc[s] = "failed"
    /\ Goto(s, "check")
    /\ UNCHANGED <<rows, orders, mine, todo, known, buildVars>>

\* The process or its connection dies, or PostgreSQL aborts the transaction.
Crash(s) ==
    /\ pc[s] # "out"
    /\ mine' = [mine EXCEPT ![s] = NoRows]
    /\ Leave(s, "out")
    /\ UNCHANGED <<rows, orders, buildVars>>
-----------------------------------------------------------------------------
(* A build.                                                                *)

StepAfter(t) ==
    LET k == CHOOSE k \in DOMAIN ReadOrder : ReadOrder[k] = t
    IN  IF k = Len(ReadOrder) THEN "orders" ELSE ReadOrder[k + 1]

StartBuild ==
    /\ step = "out"
    /\ step' = ReadOrder[1]
    /\ UNCHANGED <<sourceVars, wh, work>>

\* A dimension is read and upserted.
LoadDimension ==
    /\ step \in Tables
    /\ work' = [work EXCEPT !.dims[step] = @ \cup rows[step]]
    /\ step' = StepAfter(step)
    /\ UNCHANGED <<sourceVars, wh>>

NewOrders == (work.orderMark + 1) .. Len(orders)
LoadedOrders == {f.order : f \in work.facts}

\* An order's store_key is NULL when the LEFT JOIN finds no store.
Fact(i) ==
    [order |-> i, customer |-> orders[i].customer,
     store |-> IF orders[i].store \in work.dims["stores"] THEN orders[i].store ELSE NoStore]

\* load_fact_orders: raises when a customer is unknown; a fact that exists
\* already is left as it is, for its source row is not newer.
LoadFactOrders ==
    /\ step = "orders"
    /\ IF \A i \in NewOrders : orders[i].customer \in work.dims["customers"]
       THEN /\ work' = [work EXCEPT !.facts = @ \cup {Fact(i) : i \in NewOrders \ LoadedOrders},
                                    !.lastOrder = Len(orders)]
            /\ step' = "items"
       ELSE step' = "failed" /\ UNCHANGED work
    /\ UNCHANGED <<sourceVars, wh>>

\* The items past their watermark, read now, and those the JOINs resolve.
NewItems == (work.itemMark + 1) .. Len(orders)
ResolvedItems == {i \in NewItems : i \in LoadedOrders /\ orders[i].product \in work.dims["products"]}

\* Slip: the JOINs alone, without the counts of unresolved rows before them.
LoadFactItemsUnchecked ==
    /\ step = "items"
    /\ work' = [work EXCEPT !.items = @ \cup ResolvedItems, !.lastItem = Len(orders)]
    /\ step' = "watermarks"
    /\ UNCHANGED <<sourceVars, wh>>

\* load_fact_order_items: raises when an item's order or product is unknown.
LoadFactItems ==
    /\ step = "items"
    /\ IF ResolvedItems = NewItems
       THEN /\ work' = [work EXCEPT !.items = @ \cup NewItems, !.lastItem = Len(orders)]
            /\ step' = "watermarks"
       ELSE step' = "failed" /\ UNCHANGED work
    /\ UNCHANGED <<sourceVars, wh>>

AdvanceWatermarks ==
    /\ step = "watermarks"
    /\ work' = [work EXCEPT !.orderMark = work.lastOrder, !.itemMark = work.lastItem]
    /\ step' = "commit"
    /\ UNCHANGED <<sourceVars, wh>>

\* The stage has succeeded, or its attempts are used up.
CommitBuild ==
    /\ step \in {"commit", "failed"}
    /\ wh' = [work EXCEPT !.lastOrder = 0, !.lastItem = 0]
    /\ work' = wh'
    /\ step' = "out"
    /\ UNCHANGED sourceVars

RetryBuild ==
    /\ step = "failed"
    /\ step' = ReadOrder[1]
    /\ UNCHANGED <<sourceVars, wh, work>>

RaiseInBuild ==
    /\ step \in Tables \cup {"orders", "items", "watermarks"}
    /\ step' = "failed"
    /\ UNCHANGED <<sourceVars, wh, work>>

CrashBuild ==
    /\ step # "out"
    /\ work' = wh
    /\ step' = "out"
    /\ UNCHANGED <<sourceVars, wh>>

-----------------------------------------------------------------------------
Attempt(s) ==
    \/ CheckReference(s) \/ InsertRow(s) \/ FinishBootstrap(s) \/ ReadReference(s)
    \/ CommitPart(s) \/ Exit(s) \/ FailOutsideIngestion(s) \/ FailIngestion(s) \/ Retry(s)

Build ==
    \/ StartBuild \/ LoadDimension \/ LoadFactOrders \/ LoadFactItems \/ AdvanceWatermarks
    \/ CommitBuild \/ RetryBuild \/ RaiseInBuild \/ CrashBuild

Next ==
    \/ \E s \in Sessions : Call(s) \/ Attempt(s) \/ Crash(s)
    \/ Build

Spec == Init /\ [][Next]_vars

-----------------------------------------------------------------------------
(* Properties                                                              *)

Rows == [Tables -> SUBSET Ids]
Marks == 0..MaxOrders
Warehouse == [dims : Rows, items : SUBSET (1..MaxOrders), orderMark : Marks, itemMark : Marks,
              lastOrder : Marks, lastItem : Marks,
              facts : SUBSET [order : 1..MaxOrders, customer : Ids, store : Ids \cup {NoStore}]]

TypeOK ==
    /\ rows \in Rows
    /\ orders \in Seq([customer : Ids, store : Ids, product : Ids]) /\ Len(orders) <= MaxOrders
    /\ mine \in [Sessions -> Rows]
    /\ todo \in [Sessions -> Rows] /\ known \in [Sessions -> Rows]
    /\ pc \in [Sessions -> {"out", "check", "load", "claim", "ingest", "failed"}]
    /\ wh \in Warehouse /\ work \in Warehouse
    /\ step \in Tables \cup {"out", "orders", "items", "watermarks", "commit", "failed"}

\* An ingestion chooses among the whole reference data of its configuration,
\* although the check only counts, a given-up bootstrap leaves some of the
\* rows behind, and a rollback takes back what an earlier attempt had inserted.
IngestsOnWholeReference ==
    \A s \in Sessions : pc[s] = "ingest" =>
        \A t \in {"customers", "stores", "products"} : Generated(s)[t] \subseteq known[s][t]

\* Bootstraps never wait for each other in a circle.
Blocked(s) ==
    IF pc[s] = "load" THEN UNION {WaitsFor(s, row[1], row[2]) : row \in NextRows(s)} ELSE {}
NoCircularWait ==
    \A ring \in SUBSET Sessions : ring # {} => \E s \in ring : Blocked(s) \cap ring = {}

\* Up to the watermarks no order and no item is missing, whenever its
\* customer and product arrived between the statements of the build.
NoOrderIsDropped ==
    /\ 1..wh.orderMark \subseteq {f.order : f \in wh.facts}
    /\ 1..wh.itemMark \subseteq wh.items

-----------------------------------------------------------------------------
(* What the code's comments say and it does not do.                        *)

\* "Fail loudly [...] instead of silently dropping it from the JOIN below":
\* the store of an order, which every generated order has, is not lost.
OrdersKnowTheirStore == \A f \in wh.facts : f.store = orders[f.order].store

\* "Load order matters: products reference categories and suppliers, so those
\* load first": there is no product without any category.
ProductsKnowTheirCategory == wh.dims["products"] # {} => wh.dims["categories"] # {}
=============================================================================
