-------------------------- MODULE CustomerDimension --------------------------
(***************************************************************************)
(* analytics.dim_customer as a type 2 slowly changing dimension on         *)
(* customer_segment, with what depends on it: the customer_key of each     *)
(* order fact and the customer mart.                                       *)
(*                                                                         *)
(* retail.customers is changed by the source system at any time; a build   *)
(* reads it in one statement, loads the dimension in another, and reads    *)
(* the orders later still.  Builds run one after the other: each holds the *)
(* dimension's row locks until it ends (AnalyticsBuild, LoadDimensions).   *)
(***************************************************************************)
EXTENDS Integers, Sequences

CONSTANTS
    Customers,
    Segments,
    NoValue,     \* the segment and city of a customer that does not exist yet
    Cities,      \* stands for the attributes that are not versioned
    MaxTime,     \* bound: changes in the source
    MaxOrders    \* bound: orders ever placed

ASSUME CustomerAssumption ==
    /\ MaxTime \in Nat /\ MaxOrders \in Nat
    /\ NoValue \notin Segments

Times == 1..MaxTime
SourceRow == [segment : Segments \cup {NoValue}, city : Cities \cup {NoValue}, updated : 0..MaxTime]
Absent == [segment |-> NoValue, city |-> NoValue, updated |-> 0]
NobodyStaged == [c \in Customers |-> Absent]

VARIABLES
    now,      \* the source's clock: it ticks with every change
    source,   \* retail.customers
    history,  \* the segment of each customer at each time until now
    orders,   \* retail.orders: the customer and time of each order_id
    wh,       \* the committed warehouse: dimension, facts, customer mart
    work,     \* the warehouse as the running build sees it
    staged,   \* the customers the running build has read
    pc        \* where the running build is

vars == <<now, source, history, orders, wh, work, staged, pc>>
sourceVars == <<now, source, history, orders>>
buildVars == <<wh, work, staged, pc>>

Init ==
    /\ now = 0
    /\ source = [c \in Customers |-> Absent]
    /\ history = [c \in Customers |-> <<>>]
    /\ orders = <<>>
    /\ wh = [dim |-> [c \in Customers |-> <<>>], facts |-> <<>>, mart |-> {}]
    /\ work = wh
    /\ staged = NobodyStaged
    /\ pc = "out"

-----------------------------------------------------------------------------
(* The source system.                                                      *)

Exists(row) == row.segment # NoValue

\* A customer is created, or its segment or another attribute changes.
ChangeCustomer(c) ==
    /\ now < MaxTime
    /\ now' = now + 1
    /\ \E segment \in Segments, city \in Cities :
          /\ source[c].segment # segment \/ source[c].city # city
          /\ source' = [source EXCEPT ![c] = [segment |-> segment, city |-> city, updated |-> now']]
    /\ history' = [d \in Customers |-> Append(history[d], source'[d].segment)]
    /\ UNCHANGED <<orders, buildVars>>

PlaceOrder(c) ==
    /\ Len(orders) < MaxOrders
    /\ Exists(source[c])
    /\ orders' = Append(orders, [customer |-> c, at |-> now])
    /\ UNCHANGED <<now, source, history, buildVars>>

-----------------------------------------------------------------------------
(* load_customers: three statements over the staged rows.  The versions of *)
(* a customer are in the order of their customer_key.                      *)

\* A customer's version with is_current = TRUE, if it has one.
CurrentOf(versions) == {k \in DOMAIN versions : versions[k].current}

\* Slip: valid_to is forgotten.
ClosedWithoutEnd(versions, row) ==
    [k \in DOMAIN versions |->
        IF versions[k].current /\ versions[k].segment # row.segment
        THEN [versions[k] EXCEPT !.current = FALSE]
        ELSE versions[k]]

\* 1. A changed segment in a newer row closes the current version.
Closed(versions, row) ==
    [k \in DOMAIN versions |->
        IF /\ versions[k].current
           /\ versions[k].segment # row.segment
           /\ versions[k].updated < row.updated
        THEN [versions[k] EXCEPT !.current = FALSE, !.to = row.updated]
        ELSE versions[k]]

NewVersion(row, from) ==
    [segment |-> row.segment, city |-> row.city, updated |-> row.updated,
     from |-> from, to |-> 0, current |-> TRUE]

\* Slips: only new customers get a version; valid_from is the load time.
OpenedForNew(versions, row) ==
    IF versions = <<>> THEN <<NewVersion(row, row.updated)>> ELSE versions
OpenedNow(versions, row) ==
    IF CurrentOf(versions) = {} THEN Append(versions, NewVersion(row, now)) ELSE versions

\* Slip: a segment the customer had before gets its old version back.
OpenedAgain(versions, row) ==
    LET same == {k \in DOMAIN versions : versions[k].segment = row.segment} IN
    IF CurrentOf(versions) # {} THEN versions
    ELSE IF same = {} THEN Append(versions, NewVersion(row, row.updated))
    ELSE [versions EXCEPT ![CHOOSE k \in same : TRUE].current = TRUE,
                          ![CHOOSE k \in same : TRUE].to = 0]

\* 2. A customer without a current version gets one (to = 0: not closed).
Opened(versions, row) ==
    IF CurrentOf(versions) = {} THEN Append(versions, NewVersion(row, row.updated)) ELSE versions

\* Slips: closed versions are refreshed too; nothing is refreshed.
RefreshedAll(versions, row) ==
    [k \in DOMAIN versions |->
        IF versions[k].segment = row.segment /\ versions[k].updated < row.updated
        THEN [versions[k] EXCEPT !.city = row.city, !.updated = row.updated]
        ELSE versions[k]]
NotRefreshed(versions, row) == versions

\* 3. The other attributes are overwritten in the current version.
Refreshed(versions, row) ==
    [k \in DOMAIN versions |->
        IF /\ versions[k].current
           /\ versions[k].segment = row.segment
           /\ versions[k].updated < row.updated
        THEN [versions[k] EXCEPT !.city = row.city, !.updated = row.updated]
        ELSE versions[k]]

-----------------------------------------------------------------------------
(* A build, as far as it concerns customers.                               *)

\* get_customers
ReadCustomers ==
    /\ pc = "out"
    /\ staged' = source
    /\ pc' = "customers"
    /\ UNCHANGED <<sourceVars, wh, work>>

LoadCustomers ==
    /\ pc = "customers"
    /\ work' = [work EXCEPT !.dim = [c \in Customers |->
                  IF Exists(staged[c])
                  THEN Refreshed(Opened(Closed(@[c], staged[c]), staged[c]), staged[c])
                  ELSE @[c]]]
    /\ pc' = "orders"
    /\ UNCHANGED <<sourceVars, wh, staged>>

NewOrders == (Len(work.facts) + 1)..Len(orders)
Unresolved == {i \in NewOrders : CurrentOf(work.dim[orders[i].customer]) = {}}

\* load_fact_orders: a new fact refers to the version that is current in the
\* dimension; an order of a customer the dimension lacks fails the stage.
LoadOrders ==
    /\ pc = "orders"
    /\ \/ /\ Unresolved = {}
          /\ work' = [work EXCEPT !.facts = [i \in DOMAIN orders |->
                        IF i \in NewOrders
                        THEN [customer |-> orders[i].customer,
                              version |-> CHOOSE k \in CurrentOf(work.dim[orders[i].customer]) : TRUE]
                        ELSE @[i]]]
          /\ pc' = "mart"
       \/ /\ Unresolved # {}
          /\ pc' = "failed"
          /\ UNCHANGED work
    /\ UNCHANGED <<sourceVars, wh, staged>>

\* refresh_customer_performance: one row per customer_key with facts.
RefreshCustomerMart ==
    /\ pc = "mart"
    /\ work' = [work EXCEPT !.mart = {work.facts[i] : i \in DOMAIN work.facts}]
    /\ pc' = "commit"
    /\ UNCHANGED <<sourceVars, wh, staged>>

\* The stage has succeeded, or the retries of a failing one are used up: what
\* the build has written is committed.
Commit ==
    /\ pc \in {"commit", "failed"}
    /\ wh' = work
    /\ staged' = NobodyStaged
    /\ pc' = "out"
    /\ UNCHANGED <<sourceVars, work>>

\* A failed attempt is repeated in the same transaction.
Retry ==
    /\ pc = "failed"
    /\ staged' = source
    /\ pc' = "customers"
    /\ UNCHANGED <<sourceVars, wh, work>>

\* An exception inside one of the loaders' savepoints.
Raise ==
    /\ pc \in {"customers", "orders", "mart"}
    /\ pc' = "failed"
    /\ UNCHANGED <<sourceVars, wh, work, staged>>

\* The process dies and its transaction is rolled back.
Crash ==
    /\ pc # "out"
    /\ work' = wh
    /\ staged' = NobodyStaged
    /\ pc' = "out"
    /\ UNCHANGED <<sourceVars, wh>>

-----------------------------------------------------------------------------
Next ==
    \/ \E c \in Customers : ChangeCustomer(c) \/ PlaceOrder(c)
    \/ ReadCustomers \/ LoadCustomers \/ LoadOrders \/ RefreshCustomerMart
    \/ Commit \/ Retry \/ Raise \/ Crash

Spec == Init /\ [][Next]_vars

-----------------------------------------------------------------------------
(* Properties                                                              *)

\* A version is current exactly when it is not closed
\* (chk_dim_customer_current_open).
Version == [segment : Segments, city : Cities, updated : Times, from : Times,
            to : {0}, current : {TRUE}]
           \cup [segment : Segments, city : Cities, updated : Times, from : Times,
                 to : Times, current : {FALSE}]
Key == [customer : Customers, version : 1..MaxTime]
Warehouse == [dim : [Customers -> Seq(Version)], facts : Seq(Key), mart : SUBSET Key]

TypeOK ==
    /\ now \in 0..MaxTime
    /\ source \in [Customers -> SourceRow]
    /\ history \in [Customers -> Seq(Segments \cup {NoValue})]
    /\ orders \in Seq([customer : Customers, at : Times])
    /\ wh \in Warehouse /\ work \in Warehouse
    /\ staged \in [Customers -> SourceRow]
    /\ pc \in {"out", "customers", "orders", "mart", "commit", "failed"}

\* The versions of a customer are a chain: only the last is current, each is
\* valid until the next one starts, and neighbours differ in the segment.
VersionsAreAChain ==
    \A c \in Customers :
        LET versions == wh.dim[c] IN
        /\ versions # <<>> => CurrentOf(versions) = {Len(versions)}
        /\ \A k \in 1..(Len(versions) - 1) :
              /\ versions[k].from < versions[k].to
              /\ versions[k].to = versions[k + 1].from
              /\ versions[k].segment # versions[k + 1].segment

\* A version's segment was the customer's when the version starts and when it
\* was last refreshed, whatever the source did between the read and the load.
VersionsWereTrue ==
    \A c \in Customers : \A k \in DOMAIN wh.dim[c] :
        LET v == wh.dim[c][k] IN
        /\ history[c][v.from] = v.segment
        /\ history[c][v.updated] = v.segment

\* The past is not rewritten: closed versions stay as they are, versions keep
\* their segment and start, and a fact keeps its version.
PastIsKept ==
    [][/\ \A c \in Customers : \A k \in DOMAIN wh.dim[c] :
             LET v == wh.dim[c][k]  w == wh'.dim[c][k] IN
             /\ ~v.current => w = v
             /\ w.segment = v.segment /\ w.from = v.from
       /\ \A i \in DOMAIN wh.facts : wh'.facts[i] = wh.facts[i]]_vars

\* A later order of a customer never refers to an earlier version than an
\* order before it, although the version is chosen when a fact is loaded, and
\* customers and orders are read at different times.
FactsFollowVersions ==
    \A i, j \in DOMAIN wh.facts :
        i < j /\ wh.facts[i].customer = wh.facts[j].customer
            => wh.facts[i].version <= wh.facts[j].version

\* After a successful build the current versions show every customer as the
\* build has read it, the attributes that are not versioned included.
BuildIsCurrent ==
    [][Commit /\ pc = "commit" =>
          \A c \in Customers : Exists(staged[c]) =>
              \E k \in CurrentOf(wh'.dim[c]) :
                  /\ wh'.dim[c][k].segment = staged[c].segment
                  /\ wh'.dim[c][k].city = staged[c].city]_vars

-----------------------------------------------------------------------------
(* What the code's comments say and it does not do.                        *)

\* "so historical queries can see which segment a customer was in as of any
\* past date", from the first version to the last refresh.
SegmentsAsOfAnyDate ==
    \A c \in Customers : \A k \in DOMAIN wh.dim[c] :
        LET v == wh.dim[c][k] IN
        \A t \in v.from..(IF v.current THEN v.updated ELSE v.to - 1) :
            history[c][t] = v.segment

\* "historical analysis needs to know which segment a customer was in at the
\* time of a given order": the version an order refers to has that segment.
OrdersKnowTheirSegment ==
    \A i \in DOMAIN wh.facts :
        LET f == wh.facts[i] IN
        wh.dim[f.customer][f.version].segment = history[f.customer][orders[i].at]

\* "Grain: One row per customer."
MartHasOneRowPerCustomer ==
    \A f, g \in wh.mart : f.customer = g.customer => f = g
=============================================================================
