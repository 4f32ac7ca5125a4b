------------------------ MODULE AnalyticsBuildProofs ------------------------
(***************************************************************************)
(* TLAPS proofs about AnalyticsBuild, for every number of builders, orders *)
(* and marts, any dates and any number of attempts.                        *)
(*                                                                         *)
(* The argument.  Whoever has locked the dimension rows is alone with the  *)
(* facts, marts and watermarks until its transaction ends; the others have *)
(* at most dates pending.  So the watermark a build reads from is still    *)
(* the committed one when it writes, and what it reads is a range that     *)
(* begins behind the watermark and ends behind every order that is a fact, *)
(* whichever failed attempt has loaded it.                                 *)
(***************************************************************************)
EXTENDS AnalyticsBuild, NumberSets

-----------------------------------------------------------------------------
(* The inductive invariant.                                                *)

\* The dates from the first to the last an order can have.
LastDate == CHOOSE d \in Nat : \A i \in OrderIds : DateOf[i] <= d
Calendar == 0..LastDate

DatesInv ==
    /\ wh.dates \subseteq Calendar
    /\ \A b \in Builders : pend[b].dates \subseteq Calendar

Unlocked == {"out", "dates", "dims", "failed", "giveUp"}
HasOrders == {"loadOrders", "items", "loadItems", "marts", "watermarks", "commit"}
HasItems == {"loadItems", "marts", "watermarks", "commit"}

\* One builder at a time holds the dimension rows, and only it has written to
\* facts, marts and watermarks; the watermarks come last.
LockInv ==
    /\ \A b, c \in Builders : pend[b].dims /\ pend[c].dims => b = c
    /\ \A b \in Builders :
          /\ ~pend[b].dims => /\ at[b].pc \in Unlocked
                              /\ pend[b].orders = {} /\ pend[b].items = {}
                              /\ \A m \in Marts : pend[b].marts[m] = NoWrite
          /\ at[b].pc # "commit" => pend[b].orderMark = NoWrite /\ pend[b].itemMark = NoWrite

WarehouseInv ==
    /\ wh.orders \subseteq 1..source
    /\ wh.items \subseteq wh.orders
    /\ wh.orderMark <= source
    /\ WatermarksAgree
    /\ WatermarksAreCovered
    /\ MartsHaveWholeOrders

\* A mart that covers the watermark and has whole orders.
SoundMart(row) ==
    /\ 1..wh.orderMark \subseteq row.orders
    /\ row.orders \subseteq row.items

PendingInv(b) ==
    /\ at[b].base <= source
    /\ pend[b].orders \subseteq 1..source
    /\ pend[b].items \subseteq SeenOrders(b)
    /\ \A m \in Marts : pend[b].marts[m] # NoWrite => SoundMart(pend[b].marts[m])

\* What has been read reaches from the watermark to n, behind every fact.
OrdersReadTo(b, n) ==
    /\ at[b].orders = (wh.orderMark + 1)..n
    /\ wh.orderMark <= n /\ at[b].base <= n
    /\ SeenOrders(b) \subseteq 1..n
    /\ at[b].pc # "loadOrders" => 1..n \subseteq SeenOrders(b)

ItemsReadTo(b, n) ==
    /\ at[b].items = (wh.orderMark + 1)..n
    /\ wh.orderMark <= n
    /\ SeenOrders(b) \subseteq 1..n
    /\ at[b].pc # "loadItems" => 1..n \subseteq SeenItems(b)

ReadInv(b) ==
    /\ at[b].pc \in HasOrders => \E n \in 0..source : OrdersReadTo(b, n)
    /\ at[b].pc \in HasItems => \E n \in 0..source : ItemsReadTo(b, n)

\* A mart of the running attempt counts all facts the attempt sees.
UpToDate(b, m) ==
    /\ pend[b].marts[m] # NoWrite
    /\ SeenOrders(b) \subseteq pend[b].marts[m].orders
    /\ SeenItems(b) \subseteq pend[b].marts[m].items

RefreshInv(b) ==
    /\ at[b].pc = "marts" => \A m \in 1..(at[b].mart - 1) : UpToDate(b, m)
    /\ at[b].pc \in {"watermarks", "commit"} => \A m \in Marts : UpToDate(b, m)
    /\ at[b].pc = "commit" => /\ pend[b].orderMark = Advanced(at[b].orders, NoWrite)
                              /\ pend[b].itemMark = Advanced(at[b].items, NoWrite)

BuilderInv(b) == PendingInv(b) /\ ReadInv(b) /\ RefreshInv(b)

IInv ==
    /\ TypeOK
    /\ DatesInv
    /\ LockInv
    /\ WarehouseInv
    /\ \A b \in Builders : BuilderInv(b)

-----------------------------------------------------------------------------
(* Types and dates.                                                        *)

LEMMA LastDateIsLast == LastDate \in Nat /\ \A i \in OrderIds : DateOf[i] <= LastDate
  BY AnalyticsAssumption, ValuesAreBounded DEF LastDate, OrderIds

\* The interval of some dates lies within any interval that has the dates.
LEMMA IntervalInCalendar ==
    ASSUME NEW S \in SUBSET Calendar
    PROVE  Interval(S) \subseteq Calendar
<1>1. CASE S = {}
  BY <1>1 DEF Interval
<1>2. CASE S # {}
  <2>1. S \in SUBSET Nat /\ \A x \in S : x <= LastDate
    BY LastDateIsLast DEF Calendar
  <2>2. Min(S) \in S /\ Max(S) \in S
    BY <1>2, <2>1, MinOfNats, MaxOfNats, LastDateIsLast
  <2>3. Min(S)..Max(S) \subseteq 0..LastDate
    <3>1. Min(S) \in Nat /\ Max(S) \in Nat /\ Max(S) <= LastDate
      BY <2>1, <2>2
    <3>2. \A i, j \in Nat : j <= LastDate => i..j \subseteq 0..LastDate
      BY LastDateIsLast
    <3>. QED  BY <3>1, <3>2
  <2>. QED  BY <1>2, <2>3 DEF Interval, Calendar
<1>. QED  BY <1>1, <1>2

LEMMA NeededInCalendar ==
    ASSUME TypeOK, DatesInv, NEW b \in Builders
    PROVE  NeededDates(b) \subseteq Calendar
<1>1. {DateOf[i] : i \in 1..source} \subseteq Calendar
  <2>1. 1..source \subseteq OrderIds
    BY AnalyticsAssumption DEF TypeOK, OrderIds
  <2>2. \A i \in OrderIds : DateOf[i] \in Nat /\ DateOf[i] <= LastDate
    BY LastDateIsLast, AnalyticsAssumption DEF OrderIds
  <2>. QED  BY <2>1, <2>2, LastDateIsLast DEF Calendar
<1>2. SeenDates(b) \subseteq Calendar
  BY DEF DatesInv, SeenDates
<1>. DEFINE S == SeenDates(b) \cup {DateOf[i] : i \in 1..source}
<1>3. S \in SUBSET Calendar
  BY <1>1, <1>2
<1>4. Interval(S) \subseteq Calendar
  <2>. HIDE DEF S
  <2>. QED  BY <1>3, IntervalInCalendar
<1>. QED  BY <1>4 DEF NeededDates

\* What is committed is a warehouse.
LEMMA CommitType ==
    ASSUME TypeOK, NEW b \in Builders, Commit(b)
    PROVE  wh' \in Warehouse
<1>1. pend[b] \in PendRow /\ wh \in Warehouse
  BY DEF TypeOK
<1>2. Merged(pend[b].marts, wh.marts) \in [Marts -> MartRow]
  BY <1>1 DEF Merged, Seen, PendRow, Warehouse
<1>3. OrderMark(b) \in 0..MaxOrders /\ ItemMark(b) \in 0..MaxOrders
  BY <1>1 DEF OrderMark, ItemMark, Seen, PendRow, Warehouse
<1>. QED  BY <1>1, <1>2, <1>3 DEF Commit, Warehouse, SeenDates, SeenOrders, SeenItems, PendRow

LEMMA NothingPendingType == NothingPending \in PendRow
  BY DEF NothingPending, PendRow, Marts

LEMMA OutsideType == Outside \in AtRow
  BY AnalyticsAssumption DEF Outside, AtRow, Labels, Marts

LEMMA PendStaysTyped ==
    ASSUME TypeOK, NEW b \in Builders, NEW row \in PendRow, pend' = [pend EXCEPT ![b] = row]
    PROVE  pend' \in [Builders -> PendRow]
  BY DEF TypeOK

LEMMA AtStaysTyped ==
    ASSUME TypeOK, NEW b \in Builders, NEW row \in AtRow, at' = [at EXCEPT ![b] = row]
    PROVE  at' \in [Builders -> AtRow]
  BY DEF TypeOK

LEMMA GotoType ==
    ASSUME TypeOK, NEW b \in Builders, NEW label \in Labels, Goto(b, label)
    PROVE  at' \in [Builders -> AtRow]
  BY DEF TypeOK, Goto, AtRow

LEMMA StartRowType ==
    ASSUME NEW row \in AtRow, NEW a \in 0..StageAttempts, NEW n \in 0..MaxOrders
    PROVE  [row EXCEPT !.pc = "dates", !.attempt = a, !.base = n] \in AtRow
  BY DEF AtRow, Labels

LEMMA AdvancedType ==
    ASSUME NEW S \in SUBSET OrderIds, NEW m \in (0..MaxOrders) \cup {NoWrite}
    PROVE  Advanced(S, m) \in (0..MaxOrders) \cup {NoWrite}
<1>1. CASE S = {}
  BY <1>1 DEF Advanced
<1>2. CASE S # {}
  <2>1. MaxOrders \in Nat
    BY AnalyticsAssumption
  <2>2. S \in SUBSET Nat /\ \A x \in S : x <= MaxOrders
    BY <2>1 DEF OrderIds
  <2>3. Max(S) \in S
    BY <1>2, <2>1, <2>2, MaxOfNats
  <2>4. OrderIds \subseteq 0..MaxOrders
    BY <2>1 DEF OrderIds
  <2>. QED  BY <1>2, <2>3, <2>4 DEF Advanced
<1>. QED  BY <1>1, <1>2

\* The step of a builder that changes neither the source nor the warehouse.
LEMMA BuilderTypeStep ==
    ASSUME TypeOK, DatesInv, NEW b \in Builders,
           \/ StartBuild(b) \/ CoverDates(b) \/ LoadDimensions(b) \/ ReadOrders(b) \/ LoadOrders(b)
           \/ ReadItems(b) \/ LoadItems(b) \/ RefreshMart(b) \/ AdvanceWatermarks(b)
           \/ RetryBuild(b) \/ BreakDeadlock(b) \/ Raise(b) \/ RaiseInDimensions(b) \/ Crash(b)
    PROVE  TypeOK'
<1>c. MaxOrders \in Nat /\ StageAttempts \in Nat \ {0} /\ NumMarts \in Nat \ {0}
  BY AnalyticsAssumption
<1>t. source \in 0..MaxOrders /\ wh \in Warehouse /\ pend[b] \in PendRow /\ at[b] \in AtRow
  BY DEF TypeOK
<1>u. SUFFICES pend' \in [Builders -> PendRow] /\ at' \in [Builders -> AtRow]
  BY DEF TypeOK, StartBuild, CoverDates, LoadDimensions, ReadOrders, LoadOrders, ReadItems,
         LoadItems, RefreshMart, AdvanceWatermarks, RetryBuild, BreakDeadlock, Raise,
         RaiseInDimensions, Crash
<1>p. pend \in [Builders -> PendRow] /\ at \in [Builders -> AtRow]
  BY DEF TypeOK
<1>l. {"dates", "dims", "orders", "loadOrders", "items", "loadItems", "marts", "watermarks",
       "commit", "failed", "giveUp"} \subseteq Labels
  BY DEF Labels
<1>1. CASE StartBuild(b)
  <2>. DEFINE row == [at[b] EXCEPT !.pc = "dates", !.attempt = 1, !.base = source]
  <2>1. row \in AtRow
    <3>1. 1 \in 0..StageAttempts
      BY <1>c
    <3>. QED  BY <1>t, <3>1, StartRowType
  <2>2. at' = [at EXCEPT ![b] = row]
    BY <1>1 DEF StartBuild
  <2>. QED  BY <1>1, <1>p, <2>1, <2>2 DEF StartBuild
<1>2. CASE CoverDates(b)
  <2>1. NeededDates(b) \subseteq Nat
    BY NeededInCalendar, LastDateIsLast DEF Calendar
  <2>. DEFINE row == [pend[b] EXCEPT !.dates = @ \cup NeededDates(b)]
  <2>2. row \in PendRow
    BY <1>t, <2>1 DEF PendRow
  <2>3. pend' = [pend EXCEPT ![b] = row]
    BY <1>2 DEF CoverDates
  <2>4. Goto(b, "dims")
    BY <1>2 DEF CoverDates
  <2>. QED  BY <1>p, <1>l, <2>2, <2>3, <2>4, GotoType
<1>3. CASE LoadDimensions(b) \/ RaiseInDimensions(b)
  <2>. DEFINE row == [pend[b] EXCEPT !.dims = TRUE]
  <2>1. row \in PendRow
    BY <1>t DEF PendRow
  <2>2. pend' = [pend EXCEPT ![b] = row]
    BY <1>3 DEF LoadDimensions, RaiseInDimensions
  <2>3. Goto(b, "orders") \/ Goto(b, "failed")
    BY <1>3 DEF LoadDimensions, RaiseInDimensions
  <2>. QED  BY <1>p, <1>l, <2>1, <2>2, <2>3, GotoType
<1>4. CASE ReadOrders(b)
  <2>1. OrderMark(b) \in Nat
    BY <1>t, <1>c DEF OrderMark, Seen, PendRow, Warehouse
  <2>. DEFINE row == [at[b] EXCEPT !.pc = "loadOrders", !.orders = (OrderMark(b) + 1)..source]
  <2>2. (OrderMark(b) + 1)..source \subseteq OrderIds
    BY <1>t, <1>c, <2>1 DEF OrderIds
  <2>3. row \in AtRow
    BY <1>t, <1>l, <2>2 DEF AtRow
  <2>4. at' = [at EXCEPT ![b] = row]
    BY <1>4 DEF ReadOrders
  <2>. QED  BY <1>4, <1>p, <2>3, <2>4 DEF ReadOrders
<1>5. CASE ReadItems(b)
  <2>1. ItemMark(b) \in Nat
    BY <1>t, <1>c DEF ItemMark, Seen, PendRow, Warehouse
  <2>. DEFINE row == [at[b] EXCEPT !.pc = "loadItems", !.items = (ItemMark(b) + 1)..source]
  <2>2. (ItemMark(b) + 1)..source \subseteq OrderIds
    BY <1>t, <1>c, <2>1 DEF OrderIds
  <2>3. row \in AtRow
    BY <1>t, <1>l, <2>2 DEF AtRow
  <2>4. at' = [at EXCEPT ![b] = row]
    BY <1>5 DEF ReadItems
  <2>. QED  BY <1>5, <1>p, <2>3, <2>4 DEF ReadItems
<1>6. CASE LoadOrders(b)
  <2>. DEFINE row == [pend[b] EXCEPT !.orders = @ \cup (at[b].orders \ wh.orders)]
  <2>1. row \in PendRow
    BY <1>t DEF PendRow, AtRow
  <2>2. pend' = [pend EXCEPT ![b] = row] \/ UNCHANGED pend
    BY <1>6 DEF LoadOrders
  <2>3. Goto(b, "items") \/ Goto(b, "failed")
    BY <1>6 DEF LoadOrders
  <2>. QED  BY <1>p, <1>l, <2>1, <2>2, <2>3, GotoType
<1>7. CASE LoadItems(b)
  <2>. DEFINE row == [pend[b] EXCEPT !.items = @ \cup (at[b].items \ wh.items)]
              next == [at[b] EXCEPT !.pc = "marts", !.mart = 1]
  <2>1. row \in PendRow
    BY <1>t DEF PendRow, AtRow
  <2>2. next \in AtRow
    <3>1. 1 \in Marts
      BY <1>c DEF Marts
    <3>. QED  BY <1>t, <1>l, <3>1 DEF AtRow
  <2>3. CASE Goto(b, "failed") /\ UNCHANGED pend
    BY <1>p, <1>l, <2>3, GotoType
  <2>4. CASE pend' = [pend EXCEPT ![b] = row] /\ at' = [at EXCEPT ![b] = next]
    <3>. HIDE DEF row, next
    <3>. QED  BY <1>p, <2>1, <2>2, <2>4
  <2>. QED  BY <1>7, <2>3, <2>4 DEF LoadItems
<1>8. CASE RefreshMart(b)
  <2>1. Counted(b) \in MartRow
    BY <1>t DEF Counted, MartRow, SeenOrders, SeenItems, PendRow, Warehouse
  <2>. DEFINE row == [pend[b] EXCEPT !.marts[at[b].mart] = Counted(b)]
              next == [at[b] EXCEPT !.mart = @ + 1]
  <2>2. row \in PendRow
    BY <1>t, <2>1 DEF PendRow
  <2>3. pend' = [pend EXCEPT ![b] = row]
    BY <1>8 DEF RefreshMart
  <2>4. CASE at[b].mart = NumMarts
    <3>1. Goto(b, "watermarks")
      BY <1>8, <2>4 DEF RefreshMart, Goto
    <3>. QED  BY <1>p, <1>l, <2>2, <2>3, <3>1, GotoType
  <2>5. CASE at[b].mart # NumMarts
    <3>1. next \in AtRow
      BY <1>t, <1>c, <2>5 DEF AtRow, Marts
    <3>2. at' = [at EXCEPT ![b] = next]
      BY <1>8, <2>5 DEF RefreshMart
    <3>. HIDE DEF row, next
    <3>. QED  BY <1>p, <2>2, <2>3, <3>1, <3>2
  <2>. QED  BY <2>4, <2>5
<1>9. CASE AdvanceWatermarks(b)
  <2>. DEFINE row == [pend[b] EXCEPT !.orderMark = Advanced(at[b].orders, @),
                                     !.itemMark = Advanced(at[b].items, @)]
  <2>1. /\ Advanced(at[b].orders, pend[b].orderMark) \in (0..MaxOrders) \cup {NoWrite}
        /\ Advanced(at[b].items, pend[b].itemMark) \in (0..MaxOrders) \cup {NoWrite}
    BY <1>t, AdvancedType DEF AtRow, PendRow
  <2>2. row \in PendRow
    BY <1>t, <2>1 DEF PendRow
  <2>3. pend' = [pend EXCEPT ![b] = row] /\ Goto(b, "commit")
    BY <1>9 DEF AdvanceWatermarks
  <2>. HIDE DEF row
  <2>. QED  BY <1>p, <1>l, <2>2, <2>3, GotoType
<1>10. CASE RetryBuild(b)
  <2>. DEFINE row == [at[b] EXCEPT !.pc = "dates", !.attempt = @ + 1, !.base = source]
  <2>1. CASE Goto(b, "giveUp")
    BY <1>10, <1>p, <1>l, <2>1, GotoType DEF RetryBuild
  <2>2. CASE at[b].attempt < StageAttempts /\ at' = [at EXCEPT ![b] = row]
    <3>1. at[b].attempt + 1 \in 0..StageAttempts
      BY <1>t, <1>c, <2>2 DEF AtRow
    <3>2. row \in AtRow
      BY <1>t, <3>1, StartRowType
    <3>. HIDE DEF row
    <3>. QED  BY <1>10, <1>p, <2>2, <3>2 DEF RetryBuild
  <2>. QED  BY <1>10, <2>1, <2>2 DEF RetryBuild
<1>11. CASE BreakDeadlock(b) \/ Raise(b)
  <2>1. Goto(b, "failed") /\ UNCHANGED pend
    BY <1>11 DEF BreakDeadlock, Raise
  <2>. QED  BY <1>p, <1>l, <2>1, GotoType
<1>12. CASE Crash(b)
  BY <1>12, <1>p, NothingPendingType, OutsideType DEF Crash
<1>. QED
  BY <1>1, <1>2, <1>3, <1>4, <1>5, <1>6, <1>7, <1>8, <1>9, <1>10, <1>11, <1>12

LEMMA TypeStep ==
    ASSUME TypeOK, DatesInv, [Next]_vars
    PROVE  TypeOK'
<1>1. CASE UNCHANGED vars
  BY <1>1 DEF vars, TypeOK
<1>2. CASE Ingest
  BY <1>2, AnalyticsAssumption DEF Ingest, TypeOK
<1>3. ASSUME NEW b \in Builders, FinishBuild(b) \/ GiveUp(b)
      PROVE  TypeOK'
  <2>1. Commit(b) /\ UNCHANGED source
    BY <1>3 DEF FinishBuild, GiveUp
  <2>2. wh' \in Warehouse
    BY <2>1, CommitType
  <2>. QED  BY <2>1, <2>2, NothingPendingType, OutsideType DEF Commit, TypeOK
<1>. QED
  BY <1>1, <1>2, <1>3, BuilderTypeStep DEF Next, Step

-----------------------------------------------------------------------------
(* What a step leaves alone.                                               *)

\* The steps of a builder other than the end of its transaction by COMMIT.
Working(b) ==
    \/ StartBuild(b) \/ CoverDates(b) \/ LoadDimensions(b) \/ ReadOrders(b) \/ LoadOrders(b)
    \/ ReadItems(b) \/ LoadItems(b) \/ RefreshMart(b) \/ AdvanceWatermarks(b)
    \/ RetryBuild(b) \/ BreakDeadlock(b) \/ Raise(b) \/ RaiseInDimensions(b) \/ Crash(b)
Committing(b) == FinishBuild(b) \/ GiveUp(b)

LEMMA StepCases ==
    ASSUME [Next]_vars
    PROVE  UNCHANGED vars \/ Ingest \/ \E b \in Builders : Working(b) \/ Committing(b)
  BY DEF Next, Step, Working, Committing

LEMMA OthersStay ==
    ASSUME TypeOK, NEW b \in Builders, Working(b) \/ Committing(b), NEW c \in Builders \ {b}
    PROVE  pend'[c] = pend[c] /\ at'[c] = at[c]
<1>t. pend \in [Builders -> PendRow] /\ at \in [Builders -> AtRow]
  BY DEF TypeOK
<1>1. CASE StartBuild(b) \/ CoverDates(b) \/ LoadDimensions(b) \/ ReadOrders(b) \/ LoadOrders(b)
  BY <1>t, <1>1 DEF StartBuild, CoverDates, LoadDimensions, ReadOrders, LoadOrders, Goto
<1>2. CASE ReadItems(b) \/ LoadItems(b) \/ AdvanceWatermarks(b) \/ RetryBuild(b)
  BY <1>t, <1>2 DEF ReadItems, LoadItems, AdvanceWatermarks, RetryBuild, Goto
<1>3. CASE RefreshMart(b)
  BY <1>t, <1>3 DEF RefreshMart
<1>4. CASE BreakDeadlock(b) \/ Raise(b) \/ RaiseInDimensions(b) \/ Crash(b)
  BY <1>t, <1>4 DEF BreakDeadlock, Raise, RaiseInDimensions, Crash, Goto
<1>5. CASE Committing(b)
  BY <1>t, <1>5 DEF Committing, FinishBuild, GiveUp, Commit
<1>. QED  BY <1>1, <1>2, <1>3, <1>4, <1>5 DEF Working

LEMMA WorkingStays ==
    ASSUME NEW b \in Builders, Working(b)
    PROVE  UNCHANGED <<source, wh>>
  BY DEF Working, StartBuild, CoverDates, LoadDimensions, ReadOrders, LoadOrders,
         ReadItems, LoadItems, RefreshMart, AdvanceWatermarks, RetryBuild, BreakDeadlock, Raise,
         RaiseInDimensions, Crash

LEMMA DatesStep ==
    ASSUME TypeOK, DatesInv, [Next]_vars
    PROVE  DatesInv'
<1>1. CASE UNCHANGED vars
  BY <1>1 DEF vars, DatesInv, Calendar
<1>2. CASE Ingest
  BY <1>2 DEF Ingest, DatesInv
<1>3. ASSUME NEW b \in Builders, Working(b)
      PROVE  DatesInv'
  <2>1. pend'[b].dates \subseteq Calendar
    <3>t. pend \in [Builders -> PendRow] /\ pend[b].dates \subseteq Calendar
      BY DEF TypeOK, DatesInv
    <3>1. CASE CoverDates(b)
      <4>1. pend'[b].dates = pend[b].dates \cup NeededDates(b)
        BY <3>1, <3>t DEF CoverDates, PendRow
      <4>. QED  BY <4>1, <3>t, NeededInCalendar
    <3>2. CASE ~CoverDates(b)
      <4>1. pend'[b].dates = pend[b].dates \/ pend'[b] = NothingPending
        BY <3>2, <1>3, <3>t DEF Working, StartBuild, LoadDimensions, ReadOrders, LoadOrders,
           ReadItems, LoadItems, RefreshMart, AdvanceWatermarks, RetryBuild, BreakDeadlock, Raise,
           RaiseInDimensions, Crash, PendRow
      <4>. QED  BY <4>1, <3>t DEF NothingPending
    <3>. QED  BY <3>1, <3>2
  <2>. QED  BY <1>3, <2>1, OthersStay, WorkingStays DEF DatesInv
<1>4. ASSUME NEW b \in Builders, Committing(b)
      PROVE  DatesInv'
  <2>1. pend'[b] = NothingPending /\ wh'.dates = SeenDates(b)
    BY <1>4 DEF Committing, FinishBuild, GiveUp, Commit, TypeOK
  <2>. QED  BY <1>4, <2>1, OthersStay DEF DatesInv, SeenDates, NothingPending
<1>. QED  BY <1>1, <1>2, <1>3, <1>4, StepCases

-----------------------------------------------------------------------------
(* The lock of the dimension rows.                                         *)

\* The part of LockInv about one builder.
Alone(b) ==
    /\ ~pend[b].dims => /\ at[b].pc \in Unlocked
                        /\ pend[b].orders = {} /\ pend[b].items = {}
                        /\ \A m \in Marts : pend[b].marts[m] = NoWrite
    /\ at[b].pc # "commit" => pend[b].orderMark = NoWrite /\ pend[b].itemMark = NoWrite

LEMMA NothingIsAlone ==
    ASSUME NEW b \in Builders, pend'[b] = NothingPending, at'[b] = Outside
    PROVE  ~pend'[b].dims /\ Alone(b)'
  BY DEF Alone, NothingPending, Outside, Unlocked

LEMMA AloneStep ==
    ASSUME TypeOK, LockInv, NEW b \in Builders, Working(b) \/ Committing(b)
    PROVE  /\ Alone(b)'
           /\ pend'[b].dims => pend[b].dims \/ \A c \in Others(b) : ~pend[c].dims
<1>t. /\ pend \in [Builders -> PendRow] /\ at \in [Builders -> AtRow]
      /\ pend[b] \in PendRow /\ at[b] \in AtRow
  BY DEF TypeOK
<1>a. Alone(b)
  BY DEF LockInv, Alone
<1>. USE DEF Alone, Unlocked
<1>1. CASE CoverDates(b)
  <2>1. /\ pend'[b] = [pend[b] EXCEPT !.dates = @ \cup NeededDates(b)]
        /\ at'[b].pc = "dims" /\ at[b].pc = "dates"
    BY <1>1, <1>t DEF CoverDates, Goto, AtRow
  <2>. QED  BY <2>1, <1>a, <1>t DEF PendRow
<1>6. CASE StartBuild(b) \/ RetryBuild(b) \/ Raise(b)
  <2>1. /\ pend'[b] = pend[b]
        /\ at'[b].pc \in {"dates", "giveUp", "failed"}
        /\ at[b].pc # "commit"
    BY <1>6, <1>t DEF StartBuild, RetryBuild, Raise, Goto, AtRow, InSavepoint
  <2>. QED  BY <2>1, <1>a
<1>7. CASE BreakDeadlock(b)
  <2>1. pend'[b] = pend[b] /\ at'[b].pc = "failed" /\ at[b].pc \in {"dims", "dates"}
    BY <1>7, <1>t DEF BreakDeadlock, Deadlocked, Goto, AtRow
  <2>. QED  BY <2>1, <1>a
<1>2. CASE LoadDimensions(b) \/ RaiseInDimensions(b)
  <2>1. pend'[b] = [pend[b] EXCEPT !.dims = TRUE]
    BY <1>2, <1>t DEF LoadDimensions, RaiseInDimensions
  <2>2. pend'[b].orderMark = pend[b].orderMark /\ pend'[b].itemMark = pend[b].itemMark
    BY <2>1, <1>t DEF PendRow
  <2>3. pend'[b].dims
    BY <2>1, <1>t DEF PendRow
  <2>4. at[b].pc = "dims" /\ \A c \in Others(b) : ~pend[c].dims
    BY <1>2 DEF LoadDimensions, RaiseInDimensions
  <2>. QED  BY <2>2, <2>3, <2>4, <1>a
<1>3. CASE ReadOrders(b) \/ LoadOrders(b) \/ ReadItems(b) \/ LoadItems(b) \/ RefreshMart(b)
  <2>1. /\ pend'[b].dims = pend[b].dims
        /\ pend'[b].orderMark = pend[b].orderMark /\ pend'[b].itemMark = pend[b].itemMark
        /\ at[b].pc \notin Unlocked \cup {"commit"}
    BY <1>3, <1>t DEF ReadOrders, LoadOrders, ReadItems, LoadItems, RefreshMart, PendRow
  <2>. QED  BY <2>1, <1>a
<1>4. CASE AdvanceWatermarks(b)
  <2>1. /\ pend'[b].dims = pend[b].dims
        /\ at[b].pc = "watermarks" /\ at'[b].pc = "commit"
    BY <1>4, <1>t DEF AdvanceWatermarks, Goto, PendRow, AtRow
  <2>. QED  BY <2>1, <1>a
<1>5. CASE Crash(b) \/ Committing(b)
  <2>1. pend'[b] = NothingPending /\ at'[b] = Outside
    BY <1>5, <1>t DEF Crash, Committing, FinishBuild, GiveUp, Commit
  <2>. QED  BY <2>1, NothingIsAlone
<1>. QED  BY <1>1, <1>2, <1>3, <1>4, <1>5, <1>6, <1>7 DEF Working

LEMMA LockStep ==
    ASSUME TypeOK, LockInv, [Next]_vars
    PROVE  LockInv'
<1>1. CASE UNCHANGED vars
  BY <1>1 DEF vars, LockInv
<1>2. CASE Ingest
  BY <1>2 DEF Ingest, LockInv
<1>3. ASSUME NEW b \in Builders, Working(b) \/ Committing(b)
      PROVE  LockInv'
  <2>1. \A c \in Builders \ {b} : pend'[c] = pend[c] /\ at'[c] = at[c]
    BY <1>3, OthersStay
  <2>2. /\ Alone(b)'
        /\ pend'[b].dims => pend[b].dims \/ \A c \in Others(b) : ~pend[c].dims
    BY <1>3, AloneStep
  <2>3. \A c \in Builders : Alone(c)'
    BY <2>1, <2>2 DEF LockInv, Alone
  <2>4. \A c, d \in Builders : pend'[c].dims /\ pend'[d].dims => c = d
    BY <2>1, <2>2 DEF LockInv, Others
  <2>. QED  BY <2>3, <2>4 DEF LockInv, Alone
<1>. QED  BY <1>1, <1>2, <1>3, StepCases

-----------------------------------------------------------------------------
(* What a build has read and written.                                      *)

LEMMA OwnPart ==
    ASSUME IInv, NEW b \in Builders
    PROVE  /\ source \in Nat /\ wh \in Warehouse
           /\ pend \in [Builders -> PendRow] /\ at \in [Builders -> AtRow]
           /\ pend[b] \in PendRow /\ at[b] \in AtRow
           /\ wh.orderMark \in Nat /\ at[b].base \in Nat
           /\ Alone(b) /\ BuilderInv(b)
<1>1. MaxOrders \in Nat
  BY AnalyticsAssumption
<1>2. source \in Nat /\ wh \in Warehouse /\ pend \in [Builders -> PendRow] /\ at \in [Builders -> AtRow]
  BY <1>1 DEF IInv, TypeOK
<1>3. wh.orderMark \in Nat /\ at[b].base \in Nat
  BY <1>1, <1>2 DEF Warehouse, AtRow
<1>. QED  BY <1>2, <1>3 DEF IInv, LockInv, Alone

\* A builder without the lock has nothing to keep but its base.
LEMMA IdleInv ==
    ASSUME NEW c \in Builders, ~pend'[c].dims, Alone(c)', at'[c].base <= source'
    PROVE  BuilderInv(c)'
<1>1. at'[c].pc \in Unlocked /\ pend'[c].orders = {} /\ pend'[c].items = {}
  BY DEF Alone
<1>2. \A m \in Marts : pend'[c].marts[m] = NoWrite
  BY DEF Alone
<1>3. PendingInv(c)'
  BY <1>1, <1>2 DEF PendingInv
<1>4. ReadInv(c)' /\ RefreshInv(c)'
  BY <1>1 DEF ReadInv, RefreshInv, Unlocked, HasOrders, HasItems
<1>. QED  BY <1>3, <1>4 DEF BuilderInv

\* Facts and watermark stay and the source grows.
LEMMA KeptInv ==
    ASSUME IInv, NEW c \in Builders, pend'[c] = pend[c], at'[c] = at[c],
           wh'.orders = wh.orders, wh'.items = wh.items, wh'.orderMark = wh.orderMark,
           source' \in Nat, source <= source'
    PROVE  BuilderInv(c)'
<1>t. source \in Nat /\ wh.orderMark \in Nat /\ at[c].base \in Nat /\ BuilderInv(c)
  BY OwnPart
<1>1. 1..source \subseteq 1..source' /\ 0..source \subseteq 0..source'
  BY <1>t
<1>2. /\ SeenOrders(c)' = SeenOrders(c)
      /\ SeenItems(c)' = SeenItems(c)
  BY DEF SeenOrders, SeenItems
<1>3. PendingInv(c)'
  <2>1. at'[c].base <= source' /\ pend'[c].orders \subseteq 1..source'
    BY <1>t, <1>1 DEF BuilderInv, PendingInv
  <2>2. \A m \in Marts : pend'[c].marts[m] # NoWrite => SoundMart(pend[c].marts[m])'
    BY <1>t DEF BuilderInv, PendingInv, SoundMart
  <2>. QED  BY <1>t, <1>2, <2>1, <2>2 DEF BuilderInv, PendingInv, SoundMart
<1>4. \A n \in 0..source : OrdersReadTo(c, n) => OrdersReadTo(c, n)'
  BY <1>2 DEF OrdersReadTo
<1>5. \A n \in 0..source : ItemsReadTo(c, n) => ItemsReadTo(c, n)'
  BY <1>2 DEF ItemsReadTo
<1>6. ReadInv(c)'
  BY <1>t, <1>1, <1>4, <1>5 DEF BuilderInv, ReadInv
<1>7. RefreshInv(c)'
  BY <1>t, <1>2 DEF BuilderInv, RefreshInv, UpToDate
<1>. QED  BY <1>3, <1>6, <1>7 DEF BuilderInv

\* Before it reads orders, and after a failure, an attempt has only what is
\* pending from earlier ones.
LEMMA PausedInv ==
    ASSUME IInv, NEW b \in Builders, UNCHANGED <<source, wh>>,
           pend'[b].orders = pend[b].orders, pend'[b].items = pend[b].items,
           pend'[b].marts = pend[b].marts,
           at'[b].base <= source, at'[b].pc \notin HasOrders
    PROVE  BuilderInv(b)'
<1>t. BuilderInv(b)
  BY OwnPart
<1>1. PendingInv(b)'
  BY <1>t DEF BuilderInv, PendingInv, SoundMart, SeenOrders
<1>2. ReadInv(b)' /\ RefreshInv(b)'
  BY DEF ReadInv, RefreshInv, HasOrders, HasItems
<1>. QED  BY <1>1, <1>2 DEF BuilderInv

\* Once the items are loaded, orders and items have been read to the same n and
\* the facts are those up to n.
LEMMA ReadToTheSame ==
    ASSUME IInv, NEW b \in Builders, at[b].pc \in {"marts", "watermarks", "commit"}
    PROVE  \E n \in 0..source : /\ at[b].orders = (wh.orderMark + 1)..n
                               /\ at[b].items = (wh.orderMark + 1)..n
                               /\ wh.orderMark <= n /\ at[b].base <= n
                               /\ SeenOrders(b) = 1..n /\ SeenItems(b) = 1..n
<1>t. BuilderInv(b) /\ source \in Nat
  BY OwnPart
<1>1. PICK n \in 0..source : OrdersReadTo(b, n)
  BY <1>t DEF BuilderInv, ReadInv, HasOrders
<1>2. PICK k \in 0..source : ItemsReadTo(b, k)
  BY <1>t DEF BuilderInv, ReadInv, HasItems
<1>3. 1..n \subseteq SeenOrders(b) /\ SeenOrders(b) \subseteq 1..n
  BY <1>1 DEF OrdersReadTo
<1>4. SeenOrders(b) \subseteq 1..k /\ 1..k \subseteq SeenItems(b)
  BY <1>2 DEF ItemsReadTo
<1>5. SeenItems(b) \subseteq SeenOrders(b)
  BY <1>t DEF BuilderInv, PendingInv, SeenItems, SeenOrders, IInv, WarehouseInv
<1>6. 1..n = 1..k
  BY <1>3, <1>4, <1>5
<1>7. n = k
  <2>1. n \in Nat /\ k \in Nat
    BY <1>t
  <2>2. \A i, j \in Nat : 1..i \subseteq 1..j => i <= j
    <3>. TAKE i \in Nat, j \in Nat
    <3>. HAVE 1..i \subseteq 1..j
    <3>1. CASE i = 0
      BY <3>1
    <3>2. CASE i # 0
      <4>1. i \in 1..i
        BY <3>2
      <4>. QED  BY <4>1
    <3>. QED  BY <3>1, <3>2
  <2>3. n <= k /\ k <= n
    BY <1>6, <2>1, <2>2
  <2>. QED  BY <2>1, <2>3
<1>. QED  BY <1>1, <1>2, <1>3, <1>4, <1>5, <1>7 DEF OrdersReadTo, ItemsReadTo

-----------------------------------------------------------------------------
(* The steps of a builder keep BuilderInv.                                 *)

LEMMA PausingInv ==
    ASSUME IInv, NEW b \in Builders,
           \/ StartBuild(b) \/ CoverDates(b) \/ LoadDimensions(b)
           \/ RetryBuild(b) \/ BreakDeadlock(b) \/ Raise(b) \/ RaiseInDimensions(b)
           \/ LoadOrders(b) /\ Undated(b) # {}
           \/ LoadItems(b) /\ ~(at[b].items \subseteq SeenOrders(b))
    PROVE  BuilderInv(b)'
<1>t. /\ source \in Nat /\ pend \in [Builders -> PendRow] /\ at \in [Builders -> AtRow]
      /\ pend[b] \in PendRow /\ at[b] \in AtRow /\ BuilderInv(b)
  BY OwnPart
<1>b. at[b].base <= source
  BY <1>t DEF BuilderInv, PendingInv
<1>1. CASE StartBuild(b)
  <2>1. at'[b].base = source /\ at'[b].pc = "dates" /\ UNCHANGED <<source, wh, pend>>
    BY <1>1, <1>t DEF StartBuild, AtRow
  <2>. QED  BY <2>1, <1>t, PausedInv DEF HasOrders
<1>2. CASE CoverDates(b)
  <2>1. pend'[b] = [pend[b] EXCEPT !.dates = @ \cup NeededDates(b)]
    BY <1>2, <1>t DEF CoverDates
  <2>2. at'[b].base = at[b].base /\ at'[b].pc = "dims" /\ UNCHANGED <<source, wh>>
    BY <1>2, <1>t DEF CoverDates, Goto, AtRow
  <2>3. /\ pend'[b].orders = pend[b].orders /\ pend'[b].items = pend[b].items
        /\ pend'[b].marts = pend[b].marts
    BY <2>1, <1>t DEF PendRow
  <2>. QED  BY <2>2, <2>3, <1>b, PausedInv DEF HasOrders
<1>3. CASE LoadDimensions(b) \/ RaiseInDimensions(b)
  <2>1. pend'[b] = [pend[b] EXCEPT !.dims = TRUE]
    BY <1>3, <1>t DEF LoadDimensions, RaiseInDimensions
  <2>2. at'[b].base = at[b].base /\ at'[b].pc \in {"orders", "failed"} /\ UNCHANGED <<source, wh>>
    BY <1>3, <1>t DEF LoadDimensions, RaiseInDimensions, Goto, AtRow
  <2>3. /\ pend'[b].orders = pend[b].orders /\ pend'[b].items = pend[b].items
        /\ pend'[b].marts = pend[b].marts
    BY <2>1, <1>t DEF PendRow
  <2>. QED  BY <2>2, <2>3, <1>b, PausedInv DEF HasOrders
<1>4. CASE RetryBuild(b)
  <2>1. /\ at'[b].base = source \/ at'[b].base = at[b].base
        /\ at'[b].pc \in {"dates", "giveUp"} /\ UNCHANGED <<source, wh, pend>>
    BY <1>4, <1>t DEF RetryBuild, Goto, AtRow
  <2>. QED  BY <2>1, <1>t, <1>b, PausedInv DEF HasOrders
<1>5. ASSUME Goto(b, "failed"), UNCHANGED <<source, wh, pend>>
      PROVE  BuilderInv(b)'
  <2>1. at'[b].base = at[b].base /\ at'[b].pc = "failed"
    BY <1>5, <1>t DEF Goto, AtRow
  <2>. QED  BY <1>5, <2>1, <1>b, PausedInv DEF HasOrders
<1>6. CASE BreakDeadlock(b) \/ Raise(b)
  BY <1>5, <1>6 DEF BreakDeadlock, Raise
<1>7. CASE LoadOrders(b) /\ Undated(b) # {}
  BY <1>5, <1>7 DEF LoadOrders
<1>8. CASE LoadItems(b) /\ ~(at[b].items \subseteq SeenOrders(b))
  BY <1>5, <1>8 DEF LoadItems
<1>. QED  BY <1>1, <1>2, <1>3, <1>4, <1>6, <1>7, <1>8

LEMMA ReadOrdersInv ==
    ASSUME IInv, NEW b \in Builders, ReadOrders(b)
    PROVE  BuilderInv(b)'
<1>t. /\ source \in Nat /\ at \in [Builders -> AtRow] /\ at[b] \in AtRow
      /\ wh.orderMark \in Nat /\ BuilderInv(b) /\ Alone(b)
  BY OwnPart
<1>1. OrderMark(b) = wh.orderMark
  BY <1>t DEF ReadOrders, Alone, OrderMark, Seen
<1>2. /\ at'[b].pc = "loadOrders" /\ at'[b].orders = (wh.orderMark + 1)..source
      /\ at'[b].base = at[b].base
      /\ UNCHANGED <<source, wh, pend>>
  BY <1>1, <1>t DEF ReadOrders, AtRow
<1>3. PendingInv(b)'
  BY <1>2, <1>t DEF BuilderInv, PendingInv, SoundMart, SeenOrders
<1>4. OrdersReadTo(b, source)'
  <2>1. wh.orderMark <= source /\ wh.orders \subseteq 1..source /\ at[b].base <= source
        /\ pend[b].orders \subseteq 1..source
    BY <1>t DEF IInv, WarehouseInv, BuilderInv, PendingInv
  <2>. QED  BY <2>1, <1>2 DEF OrdersReadTo, SeenOrders
<1>5. ReadInv(b)'
  <2>1. source \in 0..source
    BY <1>t
  <2>2. \E n \in 0..source' : OrdersReadTo(b, n)'
    BY <1>2, <1>4, <2>1
  <2>. QED  BY <1>2, <2>2 DEF ReadInv, HasItems
<1>6. RefreshInv(b)'
  BY <1>2 DEF RefreshInv
<1>. QED  BY <1>3, <1>5, <1>6 DEF BuilderInv

LEMMA LoadOrdersInv ==
    ASSUME IInv, NEW b \in Builders, LoadOrders(b), Undated(b) = {}
    PROVE  BuilderInv(b)'
<1>t. /\ source \in Nat /\ pend \in [Builders -> PendRow] /\ at \in [Builders -> AtRow]
      /\ pend[b] \in PendRow /\ at[b] \in AtRow
      /\ wh.orderMark \in Nat /\ BuilderInv(b)
  BY OwnPart
<1>1. pend'[b] = [pend[b] EXCEPT !.orders = @ \cup (at[b].orders \ wh.orders)]
  BY <1>t DEF LoadOrders
<1>2. /\ pend'[b].orders = pend[b].orders \cup (at[b].orders \ wh.orders)
      /\ pend'[b].items = pend[b].items /\ pend'[b].marts = pend[b].marts
  BY <1>1, <1>t DEF PendRow
<1>3. at'[b] = [at[b] EXCEPT !.pc = "items"] /\ UNCHANGED <<source, wh>>
  BY <1>t DEF LoadOrders, Goto
<1>4. /\ at[b].pc = "loadOrders" /\ at'[b].pc = "items"
      /\ at'[b].orders = at[b].orders /\ at'[b].base = at[b].base
  BY <1>3, <1>t DEF LoadOrders, AtRow
<1>5. PICK n \in 0..source : OrdersReadTo(b, n)
  BY <1>t, <1>4 DEF BuilderInv, ReadInv, HasOrders
<1>6. SeenOrders(b)' = SeenOrders(b) \cup at[b].orders
  BY <1>2, <1>3 DEF SeenOrders
<1>7. at[b].orders \subseteq 1..n /\ 1..n \subseteq SeenOrders(b) \cup at[b].orders
  <2>1. at[b].orders = (wh.orderMark + 1)..n /\ n \in Nat
    BY <1>5, <1>t DEF OrdersReadTo
  <2>2. 1..n \subseteq 1..wh.orderMark \cup (wh.orderMark + 1)..n
    BY <2>1, <1>t
  <2>3. 1..wh.orderMark \subseteq SeenOrders(b)
    BY DEF IInv, WarehouseInv, WatermarksAreCovered, SeenOrders
  <2>4. (wh.orderMark + 1)..n \subseteq 1..n
    BY <2>1, <1>t
  <2>. QED  BY <2>1, <2>2, <2>3, <2>4
<1>8. OrdersReadTo(b, n)'
  BY <1>3, <1>4, <1>5, <1>6, <1>7 DEF OrdersReadTo
<1>9. PendingInv(b)'
  <2>1. 1..n \subseteq 1..source
    BY <1>t, <1>5
  <2>2. pend'[b].orders \subseteq 1..source'
    BY <2>1, <1>2, <1>3, <1>7, <1>t DEF BuilderInv, PendingInv
  <2>3. pend'[b].items \subseteq SeenOrders(b)'
    BY <1>2, <1>6, <1>t DEF BuilderInv, PendingInv
  <2>. QED  BY <2>2, <2>3, <1>2, <1>3, <1>4, <1>t DEF BuilderInv, PendingInv, SoundMart
<1>10. ReadInv(b)' /\ RefreshInv(b)'
  <2>1. \E k \in 0..source' : OrdersReadTo(b, k)'
    BY <1>3, <1>5, <1>8
  <2>. QED  BY <1>4, <2>1 DEF ReadInv, RefreshInv, HasItems
<1>. QED  BY <1>9, <1>10 DEF BuilderInv

LEMMA ReadItemsInv ==
    ASSUME IInv, NEW b \in Builders, ReadItems(b)
    PROVE  BuilderInv(b)'
<1>t. /\ source \in Nat /\ at \in [Builders -> AtRow] /\ at[b] \in AtRow
      /\ wh.orderMark \in Nat /\ BuilderInv(b) /\ Alone(b)
  BY OwnPart
<1>1. ItemMark(b) = wh.orderMark
  BY <1>t DEF ReadItems, Alone, ItemMark, Seen, IInv, WarehouseInv, WatermarksAgree
<1>2. /\ at[b].pc = "items" /\ at'[b].pc = "loadItems"
      /\ at'[b].items = (wh.orderMark + 1)..source
      /\ at'[b].orders = at[b].orders /\ at'[b].base = at[b].base
      /\ UNCHANGED <<source, wh, pend>>
  BY <1>1, <1>t DEF ReadItems, AtRow
<1>3. PendingInv(b)'
  BY <1>2, <1>t DEF BuilderInv, PendingInv, SoundMart, SeenOrders
<1>4. PICK n \in 0..source : OrdersReadTo(b, n)
  BY <1>t, <1>2 DEF BuilderInv, ReadInv, HasOrders
<1>5. OrdersReadTo(b, n)'
  BY <1>2, <1>4 DEF OrdersReadTo, SeenOrders
<1>6. ItemsReadTo(b, source)'
  <2>1. wh.orderMark <= source /\ wh.orders \subseteq 1..source /\ pend[b].orders \subseteq 1..source
    BY <1>t DEF IInv, WarehouseInv, BuilderInv, PendingInv
  <2>. QED  BY <2>1, <1>2 DEF ItemsReadTo, SeenOrders
<1>7. ReadInv(b)'
  <2>1. source \in 0..source
    BY <1>t
  <2>2. \E k \in 0..source' : ItemsReadTo(b, k)'
    BY <1>2, <1>6, <2>1
  <2>3. \E k \in 0..source' : OrdersReadTo(b, k)'
    BY <1>2, <1>4, <1>5
  <2>. QED  BY <2>2, <2>3 DEF ReadInv
<1>8. RefreshInv(b)'
  BY <1>2 DEF RefreshInv
<1>. QED  BY <1>3, <1>7, <1>8 DEF BuilderInv

LEMMA LoadItemsInv ==
    ASSUME IInv, NEW b \in Builders, LoadItems(b), at[b].items \subseteq SeenOrders(b)
    PROVE  BuilderInv(b)'
<1>t. /\ source \in Nat /\ pend \in [Builders -> PendRow] /\ at \in [Builders -> AtRow]
      /\ pend[b] \in PendRow /\ at[b] \in AtRow
      /\ wh.orderMark \in Nat /\ BuilderInv(b)
  BY OwnPart
<1>1. pend'[b] = [pend[b] EXCEPT !.items = @ \cup (at[b].items \ wh.items)]
  BY <1>t DEF LoadItems
<1>2. /\ pend'[b].items = pend[b].items \cup (at[b].items \ wh.items)
      /\ pend'[b].orders = pend[b].orders /\ pend'[b].marts = pend[b].marts
  BY <1>1, <1>t DEF PendRow
<1>3. at'[b] = [at[b] EXCEPT !.pc = "marts", !.mart = 1] /\ UNCHANGED <<source, wh>>
  BY <1>t DEF LoadItems
<1>4. /\ at[b].pc = "loadItems" /\ at'[b].pc = "marts" /\ at'[b].mart = 1
      /\ at'[b].orders = at[b].orders /\ at'[b].items = at[b].items /\ at'[b].base = at[b].base
  BY <1>3, <1>t DEF LoadItems, AtRow
<1>5. PICK n \in 0..source : OrdersReadTo(b, n)
  BY <1>t, <1>4 DEF BuilderInv, ReadInv, HasOrders
<1>6. PICK k \in 0..source : ItemsReadTo(b, k)
  BY <1>t, <1>4 DEF BuilderInv, ReadInv, HasItems
<1>7. /\ SeenItems(b)' = SeenItems(b) \cup at[b].items
      /\ SeenOrders(b)' = SeenOrders(b)
  BY <1>2, <1>3 DEF SeenItems, SeenOrders
<1>8. 1..k \subseteq SeenItems(b)'
  <2>1. at[b].items = (wh.orderMark + 1)..k /\ k \in Nat
    BY <1>6, <1>t DEF ItemsReadTo
  <2>2. 1..k \subseteq 1..wh.orderMark \cup (wh.orderMark + 1)..k
    BY <2>1, <1>t
  <2>3. 1..wh.orderMark \subseteq SeenItems(b)
    BY DEF IInv, WarehouseInv, WatermarksAreCovered, WatermarksAgree, SeenItems
  <2>. QED  BY <2>1, <2>2, <2>3, <1>7
<1>9. OrdersReadTo(b, n)'
  BY <1>3, <1>4, <1>5, <1>7 DEF OrdersReadTo
<1>10. ItemsReadTo(b, k)'
  BY <1>3, <1>4, <1>6, <1>7, <1>8 DEF ItemsReadTo
<1>11. PendingInv(b)'
  <2>1. pend'[b].items \subseteq SeenOrders(b)'
    BY <1>2, <1>7, <1>t DEF BuilderInv, PendingInv
  <2>. QED  BY <2>1, <1>2, <1>3, <1>4, <1>t DEF BuilderInv, PendingInv, SoundMart
<1>12. ReadInv(b)'
  BY <1>3, <1>5, <1>6, <1>9, <1>10 DEF ReadInv
<1>13. RefreshInv(b)'
  <2>1. \A m \in 1..(at'[b].mart - 1) : FALSE
    BY <1>4
  <2>. QED  BY <2>1, <1>4 DEF RefreshInv
<1>. QED  BY <1>11, <1>12, <1>13 DEF BuilderInv

LEMMA RefreshMartInv ==
    ASSUME IInv, NEW b \in Builders, RefreshMart(b)
    PROVE  BuilderInv(b)'
<1>t. /\ source \in Nat /\ pend \in [Builders -> PendRow] /\ at \in [Builders -> AtRow]
      /\ pend[b] \in PendRow /\ at[b] \in AtRow
      /\ wh.orderMark \in Nat /\ BuilderInv(b)
  BY OwnPart
<1>k. PICK k \in Marts : k = at[b].mart
  BY <1>t DEF AtRow
<1>1. NumMarts \in Nat
  BY AnalyticsAssumption
<1>2. at[b].pc = "marts" /\ UNCHANGED <<source, wh>>
  BY DEF RefreshMart
<1>3. pend'[b] = [pend[b] EXCEPT !.marts[k] = Counted(b)]
  BY <1>k, <1>t DEF RefreshMart
<1>4. pend'[b].orders = pend[b].orders /\ pend'[b].items = pend[b].items
  BY <1>3, <1>t DEF PendRow
<1>5. pend'[b].marts = [pend[b].marts EXCEPT ![k] = Counted(b)]
  BY <1>3, <1>t DEF PendRow
<1>6. \A m \in Marts : pend'[b].marts[m] = IF m = k THEN Counted(b) ELSE pend[b].marts[m]
  BY <1>5, <1>t DEF PendRow
<1>7. /\ at'[b].orders = at[b].orders /\ at'[b].items = at[b].items /\ at'[b].base = at[b].base
      /\ \/ k = NumMarts /\ at'[b].pc = "watermarks"
         \/ k # NumMarts /\ at'[b].pc = "marts" /\ at'[b].mart = k + 1
  <2>1. CASE k = NumMarts
    <3>1. at' = [at EXCEPT ![b].pc = "watermarks"]
      BY <1>k, <2>1 DEF RefreshMart
    <3>. QED  BY <3>1, <2>1, <1>t DEF AtRow
  <2>2. CASE k # NumMarts
    <3>1. at' = [at EXCEPT ![b].mart = @ + 1]
      BY <1>k, <2>2 DEF RefreshMart
    <3>. QED  BY <1>k, <3>1, <2>2, <1>2, <1>t DEF AtRow
  <2>. QED  BY <2>1, <2>2
<1>8. /\ SeenItems(b)' = SeenItems(b)
      /\ SeenOrders(b)' = SeenOrders(b)
  BY <1>2, <1>4 DEF SeenItems, SeenOrders
<1>9. PICK n \in 0..source :
         /\ at[b].orders = (wh.orderMark + 1)..n /\ at[b].items = (wh.orderMark + 1)..n
         /\ wh.orderMark <= n /\ at[b].base <= n
         /\ SeenOrders(b) = 1..n /\ SeenItems(b) = 1..n
  BY <1>2, ReadToTheSame
<1>10. SoundMart(Counted(b))
  <2>1. 1..wh.orderMark \subseteq 1..n
    BY <1>9, <1>t
  <2>. QED  BY <2>1, <1>9 DEF SoundMart, Counted
<1>11. PendingInv(b)'
  <2>1. \A m \in Marts : pend'[b].marts[m] # NoWrite => SoundMart(pend'[b].marts[m])
    BY <1>6, <1>10, <1>t DEF BuilderInv, PendingInv
  <2>2. \A m \in Marts : pend'[b].marts[m] # NoWrite => SoundMart(pend[b].marts[m])'
    BY <2>1, <1>2 DEF SoundMart
  <2>. QED  BY <2>2, <1>2, <1>4, <1>7, <1>8, <1>t DEF BuilderInv, PendingInv
<1>12. ReadInv(b)'
  <2>1. OrdersReadTo(b, n)' /\ ItemsReadTo(b, n)'
    BY <1>2, <1>7, <1>8, <1>9 DEF OrdersReadTo, ItemsReadTo
  <2>. QED  BY <2>1, <1>2, <1>9 DEF ReadInv
<1>13. RefreshInv(b)'
  <2>1. Counted(b) # NoWrite
    <3>1. Counted(b) \in MartRow
      BY <1>t, OwnPart DEF Counted, MartRow, SeenOrders, SeenItems, PendRow, Warehouse
    <3>. QED  BY <3>1, NoMartAssumption
  <2>2. UpToDate(b, k)'
    BY <1>1, <1>6, <1>8, <2>1 DEF UpToDate, Counted
  <2>3. \A m \in Marts : UpToDate(b, m) => UpToDate(b, m)'
    <3>. TAKE m \in Marts
    <3>1. CASE m = k
      BY <3>1, <2>2
    <3>2. CASE m # k
      BY <3>2, <1>6, <1>8 DEF UpToDate
    <3>. QED  BY <3>1, <3>2
  <2>4. \A m \in 1..k : UpToDate(b, m)'
    <3>1. \A m \in 1..k : m \in Marts /\ (m \in 1..(k - 1) \/ m = k)
      BY <1>1 DEF Marts
    <3>2. \A m \in 1..(k - 1) : UpToDate(b, m)
      BY <1>k, <1>2, <1>t DEF BuilderInv, RefreshInv
    <3>. QED  BY <3>1, <3>2, <2>2, <2>3
  <2>5. CASE k = NumMarts /\ at'[b].pc = "watermarks"
    BY <2>4, <2>5 DEF RefreshInv, Marts
  <2>6. CASE at'[b].pc = "marts" /\ at'[b].mart = k + 1
    <3>1. \A m \in 1..(at'[b].mart - 1) : m \in 1..k
      BY <2>6, <1>1 DEF Marts
    <3>. QED  BY <2>4, <2>6, <3>1 DEF RefreshInv
  <2>. QED  BY <1>7, <2>5, <2>6
<1>. QED  BY <1>11, <1>12, <1>13 DEF BuilderInv

LEMMA AdvanceInv ==
    ASSUME IInv, NEW b \in Builders, AdvanceWatermarks(b)
    PROVE  BuilderInv(b)'
<1>t. /\ source \in Nat /\ pend \in [Builders -> PendRow] /\ at \in [Builders -> AtRow]
      /\ pend[b] \in PendRow /\ at[b] \in AtRow /\ BuilderInv(b) /\ Alone(b)
  BY OwnPart
<1>1. at[b].pc = "watermarks" /\ Goto(b, "commit") /\ UNCHANGED <<source, wh>>
  BY DEF AdvanceWatermarks
<1>2. pend'[b] = [pend[b] EXCEPT !.orderMark = Advanced(at[b].orders, @),
                                 !.itemMark = Advanced(at[b].items, @)]
  BY <1>t DEF AdvanceWatermarks
<1>3. pend[b].orderMark = NoWrite /\ pend[b].itemMark = NoWrite
  BY <1>1, <1>t DEF Alone
<1>4. /\ pend'[b].orders = pend[b].orders /\ pend'[b].items = pend[b].items
      /\ pend'[b].marts = pend[b].marts
      /\ pend'[b].orderMark = Advanced(at[b].orders, NoWrite)
      /\ pend'[b].itemMark = Advanced(at[b].items, NoWrite)
  BY <1>2, <1>3, <1>t DEF PendRow
<1>5. /\ at'[b].pc = "commit" /\ at'[b].base = at[b].base
      /\ at'[b].orders = at[b].orders /\ at'[b].items = at[b].items
  BY <1>1, <1>t DEF Goto, AtRow
<1>6. /\ SeenItems(b)' = SeenItems(b)
      /\ SeenOrders(b)' = SeenOrders(b)
  BY <1>1, <1>4 DEF SeenItems, SeenOrders
<1>7. PICK n \in 0..source :
         /\ at[b].orders = (wh.orderMark + 1)..n /\ at[b].items = (wh.orderMark + 1)..n
         /\ wh.orderMark <= n /\ at[b].base <= n
         /\ SeenOrders(b) = 1..n /\ SeenItems(b) = 1..n
  BY <1>1, ReadToTheSame
<1>8. PendingInv(b)'
  BY <1>1, <1>4, <1>5, <1>6, <1>t DEF BuilderInv, PendingInv, SoundMart
<1>9. ReadInv(b)'
  <2>1. OrdersReadTo(b, n)' /\ ItemsReadTo(b, n)'
    BY <1>1, <1>5, <1>6, <1>7 DEF OrdersReadTo, ItemsReadTo
  <2>. QED  BY <2>1, <1>1, <1>7 DEF ReadInv
<1>10. RefreshInv(b)'
  <2>1. \A m \in Marts : UpToDate(b, m)'
    BY <1>1, <1>4, <1>6, <1>t DEF BuilderInv, RefreshInv, UpToDate
  <2>. QED  BY <2>1, <1>4, <1>5 DEF RefreshInv
<1>. QED  BY <1>8, <1>9, <1>10 DEF BuilderInv

-----------------------------------------------------------------------------
(* Commits.                                                                *)

\* Both marks move to n, behind everything the build has read.
LEMMA MarksAtCommit ==
    ASSUME IInv, NEW b \in Builders, at[b].pc = "commit"
    PROVE  \E n \in 0..source :
              /\ OrderMark(b) = n /\ ItemMark(b) = n
              /\ wh.orderMark <= n /\ at[b].base <= n
              /\ SeenOrders(b) = 1..n /\ SeenItems(b) = 1..n
<1>t. source \in Nat /\ wh.orderMark \in Nat /\ BuilderInv(b)
  BY OwnPart
<1>1. PICK n \in 0..source :
         /\ at[b].orders = (wh.orderMark + 1)..n /\ at[b].items = (wh.orderMark + 1)..n
         /\ wh.orderMark <= n /\ at[b].base <= n
         /\ SeenOrders(b) = 1..n /\ SeenItems(b) = 1..n
  BY ReadToTheSame
<1>2. /\ pend[b].orderMark = Advanced((wh.orderMark + 1)..n, NoWrite)
      /\ pend[b].itemMark = Advanced((wh.orderMark + 1)..n, NoWrite)
  BY <1>1, <1>t DEF BuilderInv, RefreshInv
<1>3. wh.itemMark = wh.orderMark
  BY DEF IInv, WarehouseInv, WatermarksAgree
<1>4. OrderMark(b) = n /\ ItemMark(b) = n
  <2>1. CASE wh.orderMark = n
    <3>1. (wh.orderMark + 1)..n = {}
      BY <2>1, <1>t
    <3>. QED  BY <3>1, <2>1, <1>2, <1>3 DEF Advanced, OrderMark, ItemMark, Seen
  <2>2. CASE wh.orderMark < n
    <3>1. n \in (wh.orderMark + 1)..n
      BY <2>2, <1>t
    <3>2. Max((wh.orderMark + 1)..n) = n
      BY <2>2, <1>t, MaxOfInterval
    <3>3. n # NoWrite
      <4>1. n \in 0..MaxOrders
        BY <1>1, <1>t, AnalyticsAssumption DEF IInv, TypeOK
      <4>. QED  BY <4>1, NoMartAssumption
    <3>. QED  BY <3>1, <3>2, <3>3, <1>2 DEF Advanced, OrderMark, ItemMark, Seen
  <2>. QED  BY <2>1, <2>2, <1>1, <1>t
<1>. QED  BY <1>1, <1>4

\* What a commit leaves is a sound warehouse.
LEMMA CommitIsSound ==
    ASSUME IInv, NEW b \in Builders, Committing(b)
    PROVE  WarehouseInv'
<1>t. /\ source \in Nat /\ wh \in Warehouse /\ pend[b] \in PendRow /\ wh.orderMark \in Nat
      /\ BuilderInv(b) /\ Alone(b)
  BY OwnPart
<1>w. WarehouseInv
  BY DEF IInv
<1>1. /\ wh'.orders = SeenOrders(b) /\ wh'.items = SeenItems(b)
      /\ wh'.marts = Merged(pend[b].marts, wh.marts)
      /\ wh'.orderMark = OrderMark(b) /\ wh'.itemMark = ItemMark(b)
      /\ source' = source
  BY DEF Committing, FinishBuild, GiveUp, Commit
<1>2. \A m \in Marts : wh'.marts[m] = Seen(pend[b].marts[m], wh.marts[m])
  BY <1>1, <1>t DEF Merged, PendRow, Warehouse
<1>3. \A m \in Marts : SoundMart(wh'.marts[m])
  BY <1>2, <1>t, <1>w DEF Seen, BuilderInv, PendingInv, SoundMart, WarehouseInv,
     WatermarksAreCovered, MartsHaveWholeOrders
<1>4. MartsHaveWholeOrders'
  BY <1>3 DEF SoundMart, MartsHaveWholeOrders
<1>5. wh'.orders \subseteq 1..source' /\ wh'.items \subseteq wh'.orders
  BY <1>1, <1>t, <1>w DEF BuilderInv, PendingInv, WarehouseInv, SeenOrders, SeenItems
<1>6. CASE at[b].pc # "commit"
  <2>1. wh'.orderMark = wh.orderMark /\ wh'.itemMark = wh.itemMark
    BY <1>1, <1>6, <1>t DEF Alone, OrderMark, ItemMark, Seen
  <2>2. WatermarksAgree' /\ wh'.orderMark <= source'
    BY <2>1, <1>1, <1>w DEF WarehouseInv, WatermarksAgree
  <2>3. WatermarksAreCovered'
    <3>1. 1..wh'.orderMark \subseteq wh'.orders /\ 1..wh'.itemMark \subseteq wh'.items
      BY <2>1, <1>1, <1>w DEF WarehouseInv, WatermarksAreCovered, SeenOrders, SeenItems
    <3>2. \A m \in Marts : /\ 1..wh'.orderMark \subseteq wh'.marts[m].orders
                           /\ 1..wh'.itemMark \subseteq wh'.marts[m].items
      BY <2>1, <2>2, <1>3 DEF SoundMart, WatermarksAgree
    <3>. QED  BY <3>1, <3>2 DEF WatermarksAreCovered
  <2>. QED  BY <2>2, <2>3, <1>4, <1>5 DEF WarehouseInv
<1>7. CASE at[b].pc = "commit"
  <2>1. PICK n \in 0..source :
           /\ OrderMark(b) = n /\ ItemMark(b) = n
           /\ wh.orderMark <= n /\ at[b].base <= n
           /\ SeenOrders(b) = 1..n /\ SeenItems(b) = 1..n
    BY <1>7, MarksAtCommit
  <2>2. WatermarksAgree' /\ wh'.orderMark <= source'
    BY <2>1, <1>1, <1>t DEF WatermarksAgree
  <2>3. \A m \in Marts : 1..n \subseteq wh'.marts[m].orders /\ 1..n \subseteq wh'.marts[m].items
    BY <2>1, <1>2, <1>7, <1>t DEF BuilderInv, RefreshInv, UpToDate, Seen
  <2>4. WatermarksAreCovered'
    BY <2>1, <2>3, <1>1 DEF WatermarksAreCovered
  <2>. QED  BY <2>2, <2>4, <1>4, <1>5 DEF WarehouseInv
<1>. QED  BY <1>6, <1>7

-----------------------------------------------------------------------------
(* The invariant is inductive.                                             *)

\* No two builders hold the dimension rows: one that commits facts finds the
\* others idle.
LEMMA OneWrites ==
    ASSUME IInv, NEW b \in Builders, NEW c \in Builders \ {b}, pend[b].dims
    PROVE  ~pend[c].dims
  BY DEF IInv, LockInv

\* A builder without the rows commits no more than dates.
LEMMA CommitOfDates ==
    ASSUME IInv, NEW b \in Builders, ~pend[b].dims, Commit(b)
    PROVE  wh'.orders = wh.orders /\ wh'.items = wh.items /\ wh'.orderMark = wh.orderMark
<1>t. Alone(b)
  BY OwnPart
<1>1. pend[b].orders = {} /\ pend[b].items = {} /\ pend[b].orderMark = NoWrite
  BY <1>t DEF Alone, Unlocked
<1>. QED  BY <1>1 DEF Commit, SeenOrders, SeenItems, OrderMark, Seen

LEMMA WorkingInv ==
    ASSUME IInv, NEW b \in Builders, Working(b)
    PROVE  BuilderInv(b)'
<1>1. CASE LoadOrders(b)
  BY <1>1, PausingInv, LoadOrdersInv
<1>2. CASE LoadItems(b)
  BY <1>2, PausingInv, LoadItemsInv
<1>3. CASE Crash(b)
  <2>1. pend'[b] = NothingPending /\ at'[b] = Outside /\ source' = source
    BY <1>3, OwnPart DEF Crash
  <2>2. at'[b].base <= source'
    BY <2>1, OwnPart DEF Outside
  <2>. QED  BY <2>1, <2>2, NothingIsAlone, IdleInv
<1>. QED
  BY <1>1, <1>2, <1>3, PausingInv, ReadOrdersInv, ReadItemsInv, RefreshMartInv, AdvanceInv
  DEF Working

LEMMA BuilderStep ==
    ASSUME IInv, NEW b \in Builders, Working(b) \/ Committing(b), LockInv', NEW c \in Builders
    PROVE  BuilderInv(c)'
<1>t. TypeOK /\ source \in Nat /\ at[c].base <= source
  BY OwnPart DEF IInv, BuilderInv, PendingInv
<1>1. CASE c = b /\ Working(b)
  BY <1>1, WorkingInv
<1>2. CASE c = b /\ Committing(b)
  <2>1. pend'[b] = NothingPending /\ at'[b] = Outside /\ source' = source
    BY <1>2, OwnPart DEF Committing, FinishBuild, GiveUp, Commit
  <2>2. at'[b].base <= source'
    BY <2>1, <1>t DEF Outside
  <2>. QED  BY <1>2, <2>1, <2>2, NothingIsAlone, IdleInv
<1>3. CASE c # b
  <2>1. pend'[c] = pend[c] /\ at'[c] = at[c]
    BY <1>3, <1>t, OthersStay
  <2>2. CASE Working(b)
    <3>1. source' = source /\ wh' = wh
      BY <2>2, WorkingStays
    <3>. QED  BY <2>1, <3>1, <1>t, KeptInv
  <2>3. CASE Committing(b) /\ pend[b].dims
    <3>1. ~pend'[c].dims
      BY <1>3, <2>1, <2>3, OneWrites
    <3>2. Alone(c)' /\ at'[c].base <= source'
      BY <2>1, <2>3, <1>t DEF Alone, LockInv, Committing, FinishBuild, GiveUp
    <3>. QED  BY <3>1, <3>2, IdleInv
  <2>4. CASE Committing(b) /\ ~pend[b].dims
    <3>1. Commit(b) /\ source' = source
      BY <2>4 DEF Committing, FinishBuild, GiveUp
    <3>. QED  BY <2>1, <2>4, <3>1, <1>t, CommitOfDates, KeptInv
  <2>. QED  BY <2>2, <2>3, <2>4
<1>. QED  BY <1>1, <1>2, <1>3

LEMMA InitInv == Init => IInv
<1>. SUFFICES ASSUME Init
              PROVE  IInv
  OBVIOUS
<1>c. MaxOrders \in Nat /\ 0 \in 0..MaxOrders
  BY AnalyticsAssumption
<1>1. TypeOK
  <2>1. wh \in Warehouse
    BY <1>c DEF Init, Warehouse, MartRow
  <2>2. pend \in [Builders -> PendRow] /\ at \in [Builders -> AtRow]
    BY NothingPendingType, OutsideType DEF Init
  <2>. QED  BY <1>c, <2>1, <2>2 DEF Init, TypeOK
<1>2. DatesInv
  BY DEF Init, DatesInv, NothingPending
<1>3. \A b \in Builders : ~pend[b].dims /\ Alone(b) /\ at[b].base = 0
  BY DEF Init, Alone, NothingPending, Outside, Unlocked
<1>4. LockInv
  BY <1>3 DEF LockInv, Alone
<1>5. WarehouseInv
  <2>1. wh.orderMark = 0 /\ wh.itemMark = 0 /\ source = 0 /\ wh.orders = {} /\ wh.items = {}
    BY DEF Init
  <2>2. \A m \in Marts : wh.marts[m].orders = {} /\ wh.marts[m].items = {}
    BY DEF Init
  <2>3. 1..0 = {}
    OBVIOUS
  <2>. QED
    BY <2>1, <2>2, <2>3 DEF WarehouseInv, WatermarksAgree, WatermarksAreCovered, MartsHaveWholeOrders
<1>6. \A b \in Builders : BuilderInv(b)
  <2>. TAKE b \in Builders
  <2>1. at[b].pc = "out" /\ pend[b].orders = {} /\ pend[b].items = {} /\ source = 0
    BY DEF Init, NothingPending, Outside
  <2>2. \A m \in Marts : pend[b].marts[m] = NoWrite
    BY DEF Init, NothingPending
  <2>. QED
    BY <1>3, <2>1, <2>2 DEF BuilderInv, PendingInv, ReadInv, RefreshInv, HasOrders, HasItems
<1>. QED  BY <1>1, <1>2, <1>4, <1>5, <1>6 DEF IInv

LEMMA StepInv == IInv /\ [Next]_vars => IInv'
<1>. SUFFICES ASSUME IInv, [Next]_vars
              PROVE  IInv'
  OBVIOUS
<1>t. TypeOK /\ DatesInv /\ LockInv /\ WarehouseInv /\ \A b \in Builders : BuilderInv(b)
  BY DEF IInv
<1>1. TypeOK' /\ DatesInv' /\ LockInv'
  BY <1>t, TypeStep, DatesStep, LockStep
<1>2. CASE UNCHANGED vars
  BY <1>2, <1>t DEF vars, IInv, TypeOK, DatesInv, LockInv, WarehouseInv, WatermarksAgree,
     WatermarksAreCovered, MartsHaveWholeOrders, BuilderInv, PendingInv, ReadInv, RefreshInv,
     OrdersReadTo, ItemsReadTo, UpToDate, SoundMart, SeenOrders, SeenItems
<1>3. CASE Ingest
  <2>1. source \in Nat /\ source' \in Nat /\ source <= source' /\ UNCHANGED <<wh, pend, at>>
    BY <1>3, <1>t, AnalyticsAssumption DEF Ingest, TypeOK
  <2>2. WarehouseInv'
    <3>1. 1..source \subseteq 1..source' /\ wh.orderMark <= source'
      <4>1. wh.orderMark \in Nat /\ wh.orderMark <= source
        BY <1>t, AnalyticsAssumption DEF TypeOK, Warehouse, WarehouseInv
      <4>. QED  BY <2>1, <4>1
    <3>. QED  BY <3>1, <2>1, <1>t DEF WarehouseInv, WatermarksAgree, WatermarksAreCovered,
              MartsHaveWholeOrders
  <2>3. \A c \in Builders : BuilderInv(c)'
    BY <2>1, KeptInv
  <2>. QED  BY <1>1, <2>2, <2>3 DEF IInv
<1>4. ASSUME NEW b \in Builders, Working(b) \/ Committing(b)
      PROVE  IInv'
  <2>1. \A c \in Builders : BuilderInv(c)'
    BY <1>1, <1>4, BuilderStep
  <2>2. WarehouseInv'
    <3>1. CASE Working(b)
      <4>1. source' = source /\ wh' = wh
        BY <3>1, WorkingStays
      <4>. QED  BY <4>1, <1>t DEF WarehouseInv, WatermarksAgree, WatermarksAreCovered,
                MartsHaveWholeOrders
    <3>2. CASE Committing(b)
      BY <3>2, CommitIsSound
    <3>. QED  BY <1>4, <3>1, <3>2
  <2>. QED  BY <1>1, <2>1, <2>2 DEF IInv
<1>. QED  BY <1>2, <1>3, <1>4, StepCases

LEMMA InvHolds == Spec => []IInv
  BY InitInv, StepInv, PTL DEF Spec

-----------------------------------------------------------------------------
(* What follows.                                                           *)

\* Warehouse, pending writes and local variables have their types in every
\* reachable state: order ids up to MaxOrders, marts and marks that are rows.
THEOREM BuildTypes == Spec => []TypeOK
<1>1. IInv => TypeOK
  BY DEF IInv
<1>. QED  BY <1>1, InvHolds, PTL

\* However builds, failures, retries, ingestion and crashes interleave, no order
\* or item at or below a committed watermark is missing from the facts or from
\* a mart.
THEOREM NothingBelowWatermarksIsLost == Spec => []WatermarksAreCovered
<1>1. IInv => WatermarksAreCovered
  BY DEF IInv, WarehouseInv
<1>. QED  BY <1>1, InvHolds, PTL

\* The two watermarks are read and written apart and stand at the same order
\* nevertheless.
THEOREM WatermarksMoveTogether == Spec => []WatermarksAgree
<1>1. IInv => WatermarksAgree
  BY DEF IInv, WarehouseInv
<1>. QED  BY <1>1, InvHolds, PTL

\* No committed mart counts an order whose items it does not count, not even
\* after a build that failed between the facts of orders and those of items.
THEOREM MartsCountWholeOrders == Spec => []MartsHaveWholeOrders
<1>1. IInv => MartsHaveWholeOrders
  BY DEF IInv, WarehouseInv
<1>. QED  BY <1>1, InvHolds, PTL

\* A build never takes a watermark back behind what another one has committed,
\* although it writes the mark without reading it again.
THEOREM WatermarksOnlyAdvance == Spec => WatermarksNeverRegress
<1>1. ASSUME IInv, [Next]_vars
      PROVE  [wh'.orderMark >= wh.orderMark /\ wh'.itemMark >= wh.itemMark]_vars
  <2>t. wh.orderMark \in Nat /\ wh.itemMark = wh.orderMark
    BY <1>1, AnalyticsAssumption
    DEF IInv, TypeOK, Warehouse, WarehouseInv, WatermarksAgree
  <2>1. CASE UNCHANGED vars
    BY <2>1
  <2>2. CASE Ingest
    BY <2>2, <2>t DEF Ingest
  <2>3. ASSUME NEW b \in Builders, Working(b)
        PROVE  wh'.orderMark >= wh.orderMark /\ wh'.itemMark >= wh.itemMark
    BY <2>t, <2>3, WorkingStays
  <2>4. ASSUME NEW b \in Builders, Committing(b)
        PROVE  wh'.orderMark >= wh.orderMark /\ wh'.itemMark >= wh.itemMark
    <3>1. wh'.orderMark = OrderMark(b) /\ wh'.itemMark = ItemMark(b)
      BY <2>4 DEF Committing, FinishBuild, GiveUp, Commit
    <3>2. CASE at[b].pc = "commit"
      <4>1. PICK n \in 0..source : OrderMark(b) = n /\ ItemMark(b) = n /\ wh.orderMark <= n
        BY <1>1, <3>2, MarksAtCommit
      <4>. QED  BY <4>1, <3>1, <2>t
    <3>3. CASE at[b].pc # "commit"
      <4>1. Alone(b)
        BY <1>1, OwnPart
      <4>. QED  BY <4>1, <3>1, <3>3, <2>t DEF Alone, OrderMark, ItemMark, Seen
    <3>. QED  BY <3>2, <3>3
  <2>. QED  BY <1>1, <2>1, <2>2, <2>3, <2>4, StepCases
<1>. QED  BY <1>1, InvHolds, PTL DEF Spec, WatermarksNeverRegress

\* A build that succeeds has everything that was committed when its last attempt
\* began: in the facts, in every mart and below the watermark.  What earlier
\* attempts, other builds or ingestion did meanwhile does not matter.
THEOREM SuccessfulBuildIsComplete == Spec => BuildIsComplete
<1>. DEFINE Complete(b) == /\ 1..at[b].base \subseteq wh'.items
                           /\ at[b].base <= wh'.orderMark
                           /\ \A m \in Marts : 1..at[b].base \subseteq wh'.marts[m].orders
<1>1. ASSUME IInv, [Next]_vars
      PROVE  [\A b \in Builders : FinishBuild(b) => Complete(b)]_vars
  <2>1. ASSUME NEW b \in Builders, FinishBuild(b)
        PROVE  Complete(b)
    <3>t. /\ source \in Nat /\ wh \in Warehouse /\ pend[b] \in PendRow /\ at[b].base \in Nat
          /\ BuilderInv(b)
      BY <1>1, OwnPart
    <3>1. at[b].pc = "commit" /\ Commit(b)
      BY <2>1 DEF FinishBuild
    <3>2. PICK n \in 0..source : /\ OrderMark(b) = n /\ at[b].base <= n
                                 /\ SeenOrders(b) = 1..n /\ SeenItems(b) = 1..n
      BY <1>1, <3>1, MarksAtCommit
    <3>3. 1..at[b].base \subseteq 1..n
      BY <3>2, <3>t
    <3>4. wh'.items = SeenItems(b) /\ wh'.orderMark = OrderMark(b)
      BY <3>1 DEF Commit
    <3>5. \A m \in Marts : wh'.marts[m] = Seen(pend[b].marts[m], wh.marts[m])
      BY <3>1, <3>t DEF Commit, Merged, PendRow, Warehouse
    <3>6. \A m \in Marts : SeenOrders(b) \subseteq wh'.marts[m].orders
      BY <3>1, <3>5, <3>t DEF BuilderInv, RefreshInv, UpToDate, Seen
    <3>. QED  BY <3>2, <3>3, <3>4, <3>6
  <2>. HIDE DEF Complete
  <2>. QED  BY <2>1
<1>. QED  BY <1>1, InvHolds, PTL DEF Spec, BuildIsComplete
=============================================================================
