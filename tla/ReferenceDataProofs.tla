------------------------- MODULE ReferenceDataProofs -------------------------
(***************************************************************************)
(* TLAPS proofs about ReferenceData, for any finite number of sessions,    *)
(* any configured sizes and any number of orders.                          *)
(*                                                                         *)
(* The argument.  Every table is filled in ascending ids, also across      *)
(* transactions that are rolled back: what a session sees of a table is    *)
(* always 1..n for some n, so that counting the rows is as good as looking *)
(* for them.  No two sessions hold the same uncommitted row, and one that  *)
(* holds rows of a table sees all rows of the tables before it, so it      *)
(* never waits for a row at or before one it holds: waiting leads to ever  *)
(* greater rows, and not in a circle.  A build covers the rows up to what  *)
(* it has read before it remembers how far it has read.                    *)
(***************************************************************************)
EXTENDS ReferenceData, NumberSets, FiniteSetTheorems

-----------------------------------------------------------------------------
(* The inductive invariant.                                                *)

\* The tables in the order of insertion.
Places == 1..5
Table(k) == InsertOrder[k]

\* A set of ids without gaps, from 1.
Gapless(ids) == \A i \in ids : 1..i \subseteq ids

GaplessInv == \A t \in Tables : Gapless(rows[t]) /\ \A s \in Sessions : Gapless(Visible(s, t))

\* An uncommitted row is new, and belongs to one session.
OwnInv ==
    \A s \in Sessions, t \in Tables : \A i \in mine[s][t] :
        i \notin rows[t] /\ \A r \in Sessions \ {s} : i \notin mine[r][t]

Sees(s, t) == Generated(s)[t] \subseteq Visible(s, t)

\* Who has inserted into a table sees the tables before it filled.
OrderInv(s) ==
    \A k \in Places : mine[s][Table(k)] # {} => \A j \in 1..(k - 1) : Sees(s, Table(j))

\* What a bootstrap has done with is there; what is left are the higher ids.
LoadInv(s) ==
    pc[s] = "load" =>
        \A t \in Tables :
            /\ todo[s][t] \subseteq Generated(s)[t]
            /\ Generated(s)[t] \ todo[s][t] \subseteq Visible(s, t)
            /\ \A i \in todo[s][t], j \in Generated(s)[t] : i <= j => j \in todo[s][t]

\* Categories are not asked for: a session may be content with fewer of them.
ClaimInv(s) == pc[s] = "claim" => \A t \in Tables \ {"categories"} : Sees(s, t)

ReadInv(s) ==
    pc[s] = "ingest" =>
        \A t \in {"customers", "stores", "products"} : Generated(s)[t] \subseteq known[s][t]

SessionInv(s) == OrderInv(s) /\ LoadInv(s) /\ ClaimInv(s) /\ ReadInv(s)

\* A warehouse without gaps up to its watermarks.
Covered(w) ==
    /\ 1..w.orderMark \subseteq {f.order : f \in w.facts}
    /\ 1..w.itemMark \subseteq w.items

BuildInv ==
    /\ Covered(wh) /\ Covered(work)
    /\ step \in {"items", "watermarks"} => 1..work.lastOrder \subseteq LoadedOrders
    /\ step = "watermarks" => 1..work.lastItem \subseteq work.items

IInv ==
    /\ TypeOK /\ GaplessInv /\ OwnInv /\ BuildInv
    /\ \A s \in Sessions : SessionInv(s)

-----------------------------------------------------------------------------
(* The constants.                                                          *)

LEMMA Places5 ==
    /\ DOMAIN InsertOrder = Places
    /\ Tables = {"categories", "suppliers", "stores", "products", "customers"}
    /\ Table(1) = "categories" /\ Table(2) = "suppliers" /\ Table(3) = "stores"
    /\ Table(4) = "products" /\ Table(5) = "customers"
  BY DEF InsertOrder, Tables, Table, Places

LEMMA PlaceOfTable ==
    /\ \A k \in Places : Table(k) \in Tables
    /\ \A t \in Tables : \E k \in Places : Table(k) = t
    /\ \A k, j \in Places : Table(k) = Table(j) => k = j
<1>1. \A k \in Places : k = 1 \/ k = 2 \/ k = 3 \/ k = 4 \/ k = 5
  BY DEF Places
<1>. QED  BY <1>1, Places5 DEF Places

LEMMA FiniteNatsAreBounded ==
    ASSUME NEW S \in SUBSET Nat, IsFiniteSet(S)
    PROVE  \E n \in Nat : \A x \in S : x <= n
<1>1. PICK n \in Nat : ExistsSurjection(1..n, S)
  BY FS_NatSurjection
<1>2. PICK f \in [1..n -> S] : \A x \in S : \E k \in 1..n : f[k] = x
  BY <1>1 DEF ExistsSurjection, Surjection
<1>3. f \in [1..n -> Nat]
  BY <1>2
<1>4. PICK d \in Nat : \A k \in 1..n : f[k] <= d
  BY <1>3, ValuesAreBounded
<1>. QED  BY <1>2, <1>4

\* The ids end behind every configured size.
LEMMA SizesAreIds ==
    ASSUME NEW s \in Sessions, NEW t \in Tables
    PROVE  /\ Supply(s, t) \in Nat \ {0}
           /\ Generated(s)[t] = 1..Supply(s, t)
           /\ Generated(s)[t] \subseteq Ids
           /\ \E n \in Nat : Ids = 1..n
<1>. DEFINE wanted == {Wanted[r][u] : r \in Sessions, u \in Tables}
            sizes == {RootCategories} \cup wanted
<1>1. sizes \in SUBSET Nat /\ Supply(s, t) \in sizes /\ Supply(s, t) \in Nat \ {0}
  BY ReferenceAssumption DEF Supply
<1>finite. IsFiniteSet(wanted)
  <2>1. IsFiniteSet(Tables)
    <3>1. IsFiniteSet(Places)
      <4>1. \A b \in Int : IsFiniteSet(1..b)
        BY FS_Interval
      <4>2. 5 \in Int
        OBVIOUS
      <4>. QED  BY <4>1, <4>2, Zenon DEF Places
    <3>. DEFINE name == [k \in Places |-> Table(k)]
    <3>2. name \in Surjection(Places, Tables)
      BY PlaceOfTable DEF Surjection
    <3>. QED  BY <3>1, <3>2, FS_Surjection
  <2>2. IsFiniteSet(Sessions \X Tables)
    BY <2>1, ReferenceAssumption, FS_Product
  <2>. DEFINE size == [pair \in Sessions \X Tables |-> Wanted[pair[1]][pair[2]]]
  <2>3. size \in Surjection(Sessions \X Tables, wanted)
    <3>1. size \in [Sessions \X Tables -> wanted]
      OBVIOUS
    <3>2. ASSUME NEW n \in wanted
          PROVE  \E pair \in Sessions \X Tables : size[pair] = n
      <4>1. PICK r \in Sessions, u \in Tables : n = Wanted[r][u]
        OBVIOUS
      <4>2. size[<<r, u>>] = n /\ <<r, u>> \in Sessions \X Tables
        BY <4>1
      <4>. QED  BY <4>2
    <3>. HIDE DEF size, wanted
    <3>. QED  BY <3>1, <3>2 DEF Surjection
  <2>. QED  BY <2>2, <2>3, FS_Surjection
<1>2. IsFiniteSet(sizes)
  <2>. HIDE DEF wanted
  <2>. QED  BY <1>finite, FS_Singleton, FS_Union
<1>3. PICK n \in Nat : \A x \in sizes : x <= n
  <2>. HIDE DEF sizes
  <2>. QED  BY <1>1, <1>2, FiniteNatsAreBounded
<1>4. Max(sizes) \in sizes /\ \A x \in sizes : Max(sizes) >= x
  <2>. HIDE DEF sizes
  <2>. QED  BY <1>1, <1>3, MaxOfNats
<1>5. Ids = 1..Max(sizes)
  BY DEF Ids
<1>6. Generated(s)[t] = 1..Supply(s, t)
  BY DEF Generated
<1>. HIDE DEF sizes
<1>7. Max(sizes) \in Nat /\ Supply(s, t) <= Max(sizes)
  BY <1>1, <1>4
<1>. QED  BY <1>1, <1>5, <1>6, <1>7

LEMMA IdsAreNumbers ==
    ASSUME NEW s \in Sessions
    PROVE  \A i \in Ids : i \in Nat /\ i >= 1
<1>1. PICK n \in Nat : Ids = 1..n
  <2>1. PICK t \in Tables : TRUE
    BY Places5
  <2>. QED  BY <2>1, SizesAreIds
<1>. QED  BY <1>1

-----------------------------------------------------------------------------
(* What the steps of a session do to the tables.                           *)

SessionNext(s) == Call(s) \/ Attempt(s) \/ Crash(s)

\* The row a bootstrap inserts next.
FirstOpen(s, k, i) ==
    /\ k \in Places /\ i \in todo[s][Table(k)]
    /\ \A x \in todo[s][Table(k)] : i <= x
    /\ \A j \in 1..(k - 1) : todo[s][Table(j)] = {}

LEMMA NextRowIsFirst ==
    ASSUME TypeOK, NEW s \in Sessions, NEW row \in NextRows(s)
    PROVE  \E k \in Places, i \in Ids : row = <<Table(k), i>> /\ FirstOpen(s, k, i)
<1>. DEFINE open == {k \in DOMAIN InsertOrder : todo[s][InsertOrder[k]] # {}}
            k == Min(open)
            t == InsertOrder[k]
            i == Min(todo[s][t])
<1>1. open # {} /\ row = <<t, i>>
  BY DEF NextRows
<1>2. open \in SUBSET Places
  BY Places5
<1>3. k \in open /\ \A x \in open : k <= x
  <2>1. open \in SUBSET Nat
    BY <1>2 DEF Places
  <2>. HIDE DEF open
  <2>. QED  BY <1>1, <2>1, MinOfNats
<1>4. k \in Places /\ t \in Tables /\ t = Table(k) /\ todo[s][t] # {}
  BY <1>2, <1>3, PlaceOfTable DEF Table
<1>5. todo[s][t] \in SUBSET Ids /\ Ids \in SUBSET Nat
  <2>1. Ids \in SUBSET Nat
    BY <1>4, SizesAreIds
  <2>. QED  BY <2>1, <1>4 DEF TypeOK, Rows
<1>6. i \in todo[s][t] /\ \A x \in todo[s][t] : i <= x
  <2>. HIDE DEF t
  <2>. QED  BY <1>4, <1>5, MinOfNats
<1>7. ASSUME NEW j \in 1..(k - 1)
      PROVE  todo[s][Table(j)] = {}
  <2>1. j \in Places /\ ~(k <= j)
    BY <1>4 DEF Places
  <2>2. j \notin open /\ j \in DOMAIN InsertOrder
    BY <2>1, <1>3, Places5
  <2>. QED  BY <2>2 DEF Table
<1>. HIDE DEF k, i
<1>. QED  BY <1>1, <1>4, <1>5, <1>6, <1>7 DEF FirstOpen

\* INSERT of row i of the k-th table.
Inserts(s, k, i) ==
    /\ pc[s] = "load" /\ FirstOpen(s, k, i) /\ i \in Ids
    /\ WaitsFor(s, Table(k), i) = {}
    /\ mine' \in [Sessions -> Rows] /\ todo' \in [Sessions -> Rows]
    /\ \A r \in Sessions, t \in Tables :
          /\ mine'[r][t] = IF r = s /\ t = Table(k) /\ i \notin rows[t]
                            THEN mine[r][t] \cup {i} ELSE mine[r][t]
          /\ todo'[r][t] = IF r = s /\ t = Table(k) THEN todo[r][t] \ {i} ELSE todo[r][t]
    /\ rows' = rows /\ pc' = pc /\ known' = known /\ orders' = orders
    /\ UNCHANGED buildVars

LEMMA InsertFacts ==
    ASSUME TypeOK, NEW s \in Sessions, InsertRow(s)
    PROVE  \E k \in Places, i \in Ids : Inserts(s, k, i)
<1>1. PICK row \in NextRows(s) :
          /\ WaitsFor(s, row[1], row[2]) = {}
          /\ mine' = [mine EXCEPT ![s][row[1]] = IF row[2] \in rows[row[1]]
                                                 THEN @ ELSE @ \cup {row[2]}]
          /\ todo' = [todo EXCEPT ![s][row[1]] = @ \ {row[2]}]
  BY DEF InsertRow
<1>2. PICK k \in Places, i \in Ids : row = <<Table(k), i>> /\ FirstOpen(s, k, i)
  BY NextRowIsFirst
<1>3. PICK t \in Tables : t = Table(k)
  BY PlaceOfTable
<1>4. /\ WaitsFor(s, t, i) = {}
      /\ mine' = [mine EXCEPT ![s][t] = IF i \in rows[t] THEN @ ELSE @ \cup {i}]
      /\ todo' = [todo EXCEPT ![s][t] = @ \ {i}]
  BY <1>1, <1>2, <1>3
<1>5. /\ mine \in [Sessions -> [Tables -> SUBSET Ids]] /\ todo \in [Sessions -> [Tables -> SUBSET Ids]]
  BY DEF TypeOK, Rows
<1>6. /\ mine' \in [Sessions -> [Tables -> SUBSET Ids]] /\ todo' \in [Sessions -> [Tables -> SUBSET Ids]]
  BY <1>4, <1>5
<1>7. \A r \in Sessions, u \in Tables :
          /\ mine'[r][u] = IF r = s /\ u = t /\ i \notin rows[u] THEN mine[r][u] \cup {i} ELSE mine[r][u]
          /\ todo'[r][u] = IF r = s /\ u = t THEN todo[r][u] \ {i} ELSE todo[r][u]
  BY <1>4, <1>5
<1>8. pc[s] = "load" /\ UNCHANGED <<rows, orders, known, pc, buildVars>>
  BY DEF InsertRow
<1>9. Inserts(s, k, i)
  <2>1. mine' \in [Sessions -> Rows] /\ todo' \in [Sessions -> Rows]
    BY <1>6 DEF Rows
  <2>2. \A r \in Sessions, u \in Tables :
            /\ mine'[r][u] = IF r = s /\ u = Table(k) /\ i \notin rows[u]
                             THEN mine[r][u] \cup {i} ELSE mine[r][u]
            /\ todo'[r][u] = IF r = s /\ u = Table(k) THEN todo[r][u] \ {i} ELSE todo[r][u]
    BY ONLY <1>3, <1>7
  <2>3. FirstOpen(s, k, i) /\ i \in Ids /\ WaitsFor(s, Table(k), i) = {} /\ pc[s] = "load"
    BY <1>2, <1>3, <1>4, <1>8
  <2>. QED  BY <1>8, <2>1, <2>2, <2>3, Zenon DEF Inserts
<1>. QED  BY <1>9

\* The other ways to touch the tables: none, COMMIT and ROLLBACK.
Keeps(s) == rows' = rows /\ mine' = mine
Rolls(s) == rows' = rows /\ mine' = [mine EXCEPT ![s] = NoRows] /\ pc'[s] \in {"out", "failed"}

LEMMA TableStep ==
    ASSUME TypeOK, NEW s \in Sessions, SessionNext(s)
    PROVE  Keeps(s) \/ CommitRows(s) \/ Rolls(s) \/ \E k \in Places, i \in Ids : Inserts(s, k, i)
<1>1. CASE InsertRow(s)
  BY <1>1, InsertFacts
<1>2. CASE CommitPart(s) \/ Exit(s)
  BY <1>2 DEF CommitPart, Exit
<1>3. CASE FailIngestion(s) \/ Crash(s)
  BY <1>3 DEF FailIngestion, Crash, Leave, Goto, TypeOK, Rolls
<1>4. CASE \/ Call(s) \/ CheckReference(s) \/ FinishBootstrap(s) \/ ReadReference(s)
           \/ FailOutsideIngestion(s) \/ Retry(s)
  BY <1>4
  DEF Call, CheckReference, FinishBootstrap, ReadReference, FailOutsideIngestion, Retry, Keeps
<1>. QED  BY <1>1, <1>2, <1>3, <1>4 DEF SessionNext, Attempt

LEMMA NoRowsType == NoRows \in Rows /\ \A t \in Tables : NoRows[t] = {}
  BY DEF NoRows, Rows

LEMMA CommitFacts ==
    ASSUME TypeOK, NEW s \in Sessions, CommitRows(s)
    PROVE  /\ rows' \in Rows /\ mine' \in [Sessions -> Rows]
           /\ \A t \in Tables : rows'[t] = rows[t] \cup mine[s][t] /\ mine'[s][t] = {}
           /\ \A r \in Sessions \ {s} : mine'[r] = mine[r]
<1>1. rows \in [Tables -> SUBSET Ids] /\ mine \in [Sessions -> [Tables -> SUBSET Ids]]
  BY DEF TypeOK, Rows
<1>2. rows' = [t \in Tables |-> rows[t] \cup mine[s][t]] /\ mine' = [mine EXCEPT ![s] = NoRows]
  BY DEF CommitRows, Visible
<1>. QED  BY <1>1, <1>2, NoRowsType DEF Rows

LEMMA RollFacts ==
    ASSUME TypeOK, NEW s \in Sessions, Rolls(s)
    PROVE  /\ rows' = rows /\ mine' \in [Sessions -> Rows]
           /\ \A t \in Tables : mine'[s][t] = {}
           /\ \A r \in Sessions \ {s} : mine'[r] = mine[r]
  BY NoRowsType DEF Rolls, TypeOK

-----------------------------------------------------------------------------
(* What the sessions see of the tables.                                    *)

LEMMA InsertShows ==
    ASSUME TypeOK, NEW s \in Sessions, NEW k \in Places, NEW i \in Ids, Inserts(s, k, i)
    PROVE  \A r \in Sessions, t \in Tables :
               Visible(r, t)' = IF r = s /\ t = Table(k) THEN Visible(r, t) \cup {i} ELSE Visible(r, t)
<1>1. ASSUME NEW r \in Sessions, NEW t \in Tables
      PROVE  Visible(r, t)' = IF r = s /\ t = Table(k) THEN Visible(r, t) \cup {i} ELSE Visible(r, t)
  <2>1. /\ rows' = rows
        /\ mine'[r][t] = IF r = s /\ t = Table(k) /\ i \notin rows[t]
                         THEN mine[r][t] \cup {i} ELSE mine[r][t]
    BY DEF Inserts
  <2>. QED  BY <2>1 DEF Visible
<1>. QED  BY <1>1

LEMMA CommitShows ==
    ASSUME TypeOK, NEW s \in Sessions, CommitRows(s)
    PROVE  \A r \in Sessions, t \in Tables : Visible(r, t)' = Visible(r, t) \cup mine[s][t]
  BY CommitFacts DEF Visible

LEMMA RollShows ==
    ASSUME TypeOK, NEW s \in Sessions, Rolls(s)
    PROVE  /\ \A r \in Sessions \ {s}, t \in Tables : Visible(r, t)' = Visible(r, t)
           /\ \A t \in Tables : Visible(s, t)' = rows[t]
  BY RollFacts DEF Visible

\* Nobody else takes back what a session sees.
LEMMA SeesMore ==
    ASSUME TypeOK, NEW s \in Sessions, SessionNext(s), NEW r \in Sessions, NEW t \in Tables,
           r # s \/ ~Rolls(s)
    PROVE  Visible(r, t) \subseteq Visible(r, t)' /\ (Sees(r, t) => Sees(r, t)')
<1>1. Visible(r, t) \subseteq Visible(r, t)'
  <2>1. CASE Keeps(s)
    BY <2>1 DEF Keeps, Visible
  <2>2. CASE CommitRows(s)
    BY <2>2, CommitShows
  <2>3. CASE Rolls(s)
    <3>1. r # s
      BY <2>3
    <3>. QED  BY <2>3, <3>1, RollShows
  <2>4. CASE \E k \in Places, i \in Ids : Inserts(s, k, i)
    BY <2>4, InsertShows
  <2>. QED  BY <2>1, <2>2, <2>3, <2>4, TableStep
<1>. QED  BY <1>1 DEF Sees, Generated

\* The row inserted next continues what the session sees of its table.
LEMMA InsertContinues ==
    ASSUME TypeOK, NEW s \in Sessions, LoadInv(s),
           NEW k \in Places, NEW i \in Ids, Inserts(s, k, i)
    PROVE  /\ 1..(i - 1) \subseteq Visible(s, Table(k))
           /\ \A j \in 1..(k - 1) : Sees(s, Table(j))
<1>1. PICK t \in Tables : t = Table(k)
  BY PlaceOfTable
<1>2. /\ Supply(s, t) \in Nat \ {0} /\ Generated(s)[t] = 1..Supply(s, t)
      /\ i \in todo[s][t] /\ \A x \in todo[s][t] : i <= x
  BY <1>1, SizesAreIds DEF Inserts, FirstOpen
<1>3. i \in 1..Supply(s, t)
  BY <1>1, <1>2 DEF LoadInv, Inserts
<1>4. ASSUME NEW x \in 1..(i - 1)
      PROVE  x \in Visible(s, t)
  <2>1. x \in 1..Supply(s, t) /\ ~(i <= x)
    BY <1>2, <1>3, <1>4
  <2>2. x \in Generated(s)[t] \ todo[s][t]
    BY <1>2, <2>1
  <2>. QED  BY <1>1, <2>2 DEF LoadInv, Inserts
<1>5. ASSUME NEW j \in 1..(k - 1)
      PROVE  Sees(s, Table(j))
  <2>1. j \in Places
    BY DEF Places
  <2>2. Table(j) \in Tables /\ todo[s][Table(j)] = {}
    BY <2>1, PlaceOfTable DEF Inserts, FirstOpen
  <2>. QED  BY <2>2 DEF LoadInv, Sees, Inserts
<1>. QED  BY <1>1, <1>4, <1>5

LEMMA LongerIsGapless ==
    ASSUME NEW ids \in SUBSET Nat, Gapless(ids), NEW i \in Nat, 1..(i - 1) \subseteq ids
    PROVE  Gapless(ids \cup {i})
<1>1. ASSUME NEW x \in ids \cup {i}, NEW y \in 1..x
      PROVE  y \in ids \cup {i}
  BY <1>1 DEF Gapless
<1>. QED  BY <1>1 DEF Gapless

LEMMA GaplessStep ==
    ASSUME IInv, NEW s \in Sessions, SessionNext(s)
    PROVE  GaplessInv'
<1>0. TypeOK /\ GaplessInv /\ LoadInv(s)
  BY DEF IInv, SessionInv
<1>1. ASSUME NEW t \in Tables
      PROVE  Gapless(rows[t])' /\ \A r \in Sessions : Gapless(Visible(r, t))'
  <2>1. CASE Keeps(s)
    BY <1>0, <2>1 DEF Keeps, Visible, GaplessInv, Gapless
  <2>2. CASE CommitRows(s)
    <3>1. rows'[t] = Visible(s, t)
      BY <1>0, <2>2, CommitFacts DEF Visible
    <3>2. \A r \in Sessions : Visible(r, t)' = Visible(r, t) \cup Visible(s, t)
      BY <1>0, <2>2, CommitShows DEF Visible
    <3>. QED  BY <1>0, <3>1, <3>2 DEF GaplessInv, Gapless
  <2>3. CASE Rolls(s)
    BY <1>0, <2>3, RollShows, RollFacts DEF GaplessInv, Gapless
  <2>4. CASE \E k \in Places, i \in Ids : Inserts(s, k, i)
    <3>1. PICK k \in Places, i \in Ids : Inserts(s, k, i)
      BY <2>4
    <3>2. rows' = rows /\ pc[s] = "load"
      BY <3>1 DEF Inserts
    <3>3. Gapless(Visible(s, Table(k)) \cup {i})
      <4>1. 1..(i - 1) \subseteq Visible(s, Table(k))
        BY <1>0, <3>1, InsertContinues
      <4>2. Visible(s, Table(k)) \in SUBSET Nat /\ i \in Nat
        BY <1>0, PlaceOfTable, SizesAreIds DEF TypeOK, Rows, Visible
      <4>3. Gapless(Visible(s, Table(k)))
        BY <1>0, PlaceOfTable DEF GaplessInv
      <4>. QED  BY <4>1, <4>2, <4>3, LongerIsGapless
    <3>4. \A r \in Sessions :
              Visible(r, t)' = IF r = s /\ t = Table(k) THEN Visible(r, t) \cup {i} ELSE Visible(r, t)
      BY <1>0, <3>1, InsertShows
    <3>. QED  BY <1>0, <3>2, <3>3, <3>4 DEF GaplessInv, Gapless
  <2>. QED  BY <1>0, <2>1, <2>2, <2>3, <2>4, TableStep
<1>. QED  BY <1>1 DEF GaplessInv

LEMMA OwnStep ==
    ASSUME IInv, NEW s \in Sessions, SessionNext(s)
    PROVE  OwnInv'
<1>0. TypeOK /\ OwnInv
  BY DEF IInv
<1>1. CASE Keeps(s)
  BY <1>0, <1>1 DEF Keeps, OwnInv
<1>2. CASE CommitRows(s)
  BY <1>0, <1>2, CommitFacts DEF OwnInv
<1>3. CASE Rolls(s)
  BY <1>0, <1>3, RollFacts DEF OwnInv
<1>4. CASE \E k \in Places, i \in Ids : Inserts(s, k, i)
  <2>1. PICK k \in Places, i \in Ids : Inserts(s, k, i)
    BY <1>4
  <2>2. \A r \in Sessions \ {s} : i \notin mine[r][Table(k)]
    BY <2>1 DEF Inserts, WaitsFor
  <2>3. \A r \in Sessions, t \in Tables :
            mine'[r][t] = IF r = s /\ t = Table(k) /\ i \notin rows[t]
                          THEN mine[r][t] \cup {i} ELSE mine[r][t]
    BY <2>1 DEF Inserts
  <2>4. rows' = rows
    BY <2>1 DEF Inserts
  <2>5. ASSUME NEW r \in Sessions, NEW t \in Tables, NEW x \in mine'[r][t]
        PROVE  x \notin rows'[t] /\ \A q \in Sessions \ {r} : x \notin mine'[q][t]
    <3>1. CASE x \in mine[r][t]
      <4>1. x \notin rows[t] /\ \A q \in Sessions \ {r} : x \notin mine[q][t]
        BY <1>0, <3>1 DEF OwnInv
      <4>2. ASSUME NEW q \in Sessions \ {r}, x \in mine'[q][t]
            PROVE  q = s /\ t = Table(k) /\ x = i
        <5>1. mine'[q][t] = IF q = s /\ t = Table(k) /\ i \notin rows[t]
                            THEN mine[q][t] \cup {i} ELSE mine[q][t]
          BY <2>3
        <5>. QED  BY <4>1, <4>2, <5>1
      <4>3. ~(t = Table(k) /\ x = i /\ r # s)
        BY <2>2, <3>1
      <4>. QED  BY <2>4, <4>1, <4>2, <4>3
    <3>2. CASE x \notin mine[r][t]
      <4>1. r = s /\ t = Table(k) /\ x = i /\ i \notin rows[t]
        BY <2>3, <3>2
      <4>2. \A q \in Sessions \ {s} : mine'[q][t] = mine[q][t]
        BY <2>3
      <4>. QED  BY <2>2, <2>4, <4>1, <4>2
    <3>. QED  BY <3>1, <3>2
  <2>. QED  BY <2>5 DEF OwnInv
<1>. QED  BY <1>0, <1>1, <1>2, <1>3, <1>4, TableStep

LEMMA OrderStep ==
    ASSUME IInv, NEW s \in Sessions, SessionNext(s), NEW r \in Sessions
    PROVE  OrderInv(r)'
<1>0. TypeOK /\ OrderInv(r) /\ LoadInv(s)
  BY DEF IInv, SessionInv
<1>1. ASSUME NEW k \in Places, mine'[r][Table(k)] # {}, NEW j \in 1..(k - 1)
      PROVE  Sees(r, Table(j))'
  <2>0. Table(k) \in Tables /\ Table(j) \in Tables
    <3>1. j \in Places
      BY DEF Places
    <3>. QED  BY <3>1, PlaceOfTable
  <2>1. r = s => ~CommitRows(s) /\ ~Rolls(s)
    BY <1>0, <1>1, <2>0, CommitFacts, RollFacts
  <2>2. mine[r][Table(k)] # {} => Sees(r, Table(j))
    BY <1>0 DEF OrderInv
  <2>3. Sees(r, Table(j))
    <3>1. CASE Keeps(s) \/ CommitRows(s) \/ Rolls(s)
      BY <1>0, <1>1, <2>1, <2>2, <3>1, CommitFacts, RollFacts DEF Keeps
    <3>2. CASE \E m \in Places, i \in Ids : Inserts(s, m, i)
      <4>1. PICK m \in Places, i \in Ids : Inserts(s, m, i)
        BY <3>2
      <4>2. CASE r = s /\ m = k
        BY <1>0, <4>1, <4>2, InsertContinues
      <4>3. CASE r # s \/ m # k
        <5>1. mine'[r][Table(k)] = mine[r][Table(k)]
          BY <2>0, <4>1, <4>3, PlaceOfTable DEF Inserts
        <5>. QED  BY <1>1, <2>2, <5>1
      <4>. QED  BY <4>2, <4>3
    <3>. QED  BY <1>0, <3>1, <3>2, TableStep
  <2>. QED  BY <1>0, <2>0, <2>1, <2>3, SeesMore
<1>. QED  BY <1>1 DEF OrderInv

\* Counting is enough, since the rows a session sees have no gaps.
LEMMA ReadyIsWhole ==
    ASSUME TypeOK, GaplessInv, NEW s \in Sessions, Ready(s), NEW t \in Tables \ {"categories"}
    PROVE  Sees(s, t)
<1>. DEFINE ids == Visible(s, t)
            n == Wanted[s][t]
<1>1. /\ ids \in SUBSET Nat /\ n \in Nat \ {0} /\ Generated(s)[t] = 1..n /\ Gapless(ids)
      /\ Cardinality(ids) >= n /\ \A x \in ids : x >= 1
  <2>1. ids \subseteq Ids
    BY DEF TypeOK, Rows, Visible
  <2>2. Supply(s, t) = n
    BY DEF Supply
  <2>. QED  BY <2>1, <2>2, SizesAreIds DEF GaplessInv, Ready
<1>. HIDE DEF ids, n
<1>2. n \in ids
  <2>. SUFFICES ASSUME n \notin ids PROVE FALSE
    OBVIOUS
  <2>1. ids \subseteq 1..(n - 1)
    <3>1. ASSUME NEW x \in ids PROVE x \in 1..(n - 1)
      <4>1. x \in Nat /\ x >= 1 /\ ~(n \in 1..x)
        BY <1>1 DEF Gapless
      <4>. QED  BY <1>1, <4>1
    <3>. QED  BY <3>1
  <2>2. n - 1 \in Int /\ 1 \in Int
    BY <1>1
  <2>3. IsFiniteSet(1..(n - 1)) /\ Cardinality(1..(n - 1)) = n - 1
    <3>1. \A b \in Int : IsFiniteSet(1..b) /\ Cardinality(1..b) = IF 1 > b THEN 0 ELSE b - 1 + 1
      BY FS_Interval
    <3>. QED  BY <1>1, <2>2, <3>1
  <2>4. Cardinality(ids) <= Cardinality(1..(n - 1)) /\ IsFiniteSet(ids)
    BY <2>1, <2>3, FS_Subset
  <2>5. Cardinality(ids) \in Nat
    BY <2>4, FS_CardinalityType
  <2>. QED  BY <1>1, <2>3, <2>4, <2>5
<1>. QED  BY <1>1, <1>2 DEF Sees, Gapless, ids, n

-----------------------------------------------------------------------------
(* The steps of a session preserve the invariant.                          *)

LEMMA OthersKeep ==
    ASSUME TypeOK, NEW s \in Sessions, SessionNext(s), NEW r \in Sessions, r # s
    PROVE  pc'[r] = pc[r] /\ todo'[r] = todo[r] /\ known'[r] = known[r]
<1>1. CASE InsertRow(s)
  <2>1. PICK k \in Places, i \in Ids : Inserts(s, k, i)
    BY <1>1, InsertFacts
  <2>2. todo \in [Sessions -> [Tables -> SUBSET Ids]] /\ todo' \in [Sessions -> [Tables -> SUBSET Ids]]
    BY <2>1 DEF TypeOK, Rows, Inserts
  <2>3. \A t \in Tables : todo'[r][t] = todo[r][t]
    BY <2>1 DEF Inserts
  <2>4. todo'[r] = todo[r]
    BY <2>2, <2>3
  <2>. QED  BY <2>1, <2>4 DEF Inserts
<1>2. CASE ~InsertRow(s)
  BY <1>2
  DEF SessionNext, Attempt, Call, Crash, CheckReference, FinishBootstrap, ReadReference, CommitPart,
      Exit, FailOutsideIngestion, FailIngestion, Retry, Leave, Goto, TypeOK
<1>. QED  BY <1>1, <1>2

LEMMA ControlOfOthers ==
    ASSUME IInv, NEW s \in Sessions, SessionNext(s), NEW r \in Sessions, r # s
    PROVE  LoadInv(r)' /\ ClaimInv(r)' /\ ReadInv(r)'
<1>0. TypeOK /\ LoadInv(r) /\ ClaimInv(r) /\ ReadInv(r)
  BY DEF IInv, SessionInv
<1>1. pc'[r] = pc[r] /\ todo'[r] = todo[r] /\ known'[r] = known[r]
  BY <1>0, OthersKeep
<1>2. \A t \in Tables : Visible(r, t) \subseteq Visible(r, t)' /\ (Sees(r, t) => Sees(r, t)')
  BY <1>0, SeesMore
<1>3. LoadInv(r)'
  BY <1>0, <1>1, <1>2 DEF LoadInv, Generated
<1>4. ClaimInv(r)'
  BY <1>0, <1>1, <1>2 DEF ClaimInv
<1>5. ReadInv(r)'
  BY <1>0, <1>1 DEF ReadInv, Generated
<1>. QED  BY <1>3, <1>4, <1>5

\* Outside the bootstrap, the claim and the ingestion nothing is asked.
LEMMA ControlElsewhere ==
    ASSUME NEW s \in Sessions, pc'[s] \notin {"load", "claim", "ingest"}
    PROVE  LoadInv(s)' /\ ClaimInv(s)' /\ ReadInv(s)'
  BY DEF LoadInv, ClaimInv, ReadInv

LEMMA GeneratedType ==
    ASSUME NEW s \in Sessions
    PROVE  Generated(s) \in Rows
<1>1. Generated(s) = [t \in Tables |-> 1..Supply(s, t)]
  BY DEF Generated
<1>2. \A t \in Tables : 1..Supply(s, t) \in SUBSET Ids
  BY SizesAreIds
<1>. QED  BY <1>1, <1>2 DEF Rows

LEMMA CheckControl ==
    ASSUME IInv, NEW s \in Sessions, CheckReference(s)
    PROVE  LoadInv(s)' /\ ClaimInv(s)' /\ ReadInv(s)'
<1>0. TypeOK /\ GaplessInv
  BY DEF IInv
<1>1. CASE Ready(s)
  <2>1. pc'[s] = "claim" /\ rows' = rows /\ mine' = mine
    BY <1>0, <1>1 DEF CheckReference, Goto, TypeOK
  <2>2. \A t \in Tables \ {"categories"} : Sees(s, t)'
    BY <1>0, <1>1, <2>1, ReadyIsWhole DEF Sees, Visible, Generated
  <2>. QED  BY <2>1, <2>2 DEF LoadInv, ClaimInv, ReadInv
<1>2. CASE ~Ready(s)
  <2>1. pc'[s] = "load" /\ todo'[s] = Generated(s)
    BY <1>0, <1>2 DEF CheckReference, Goto, TypeOK
  <2>. QED  BY <2>1 DEF LoadInv, ClaimInv, ReadInv, Generated
<1>. QED  BY <1>1, <1>2

LEMMA InsertControl ==
    ASSUME IInv, NEW s \in Sessions, InsertRow(s)
    PROVE  LoadInv(s)' /\ ClaimInv(s)' /\ ReadInv(s)'
<1>0. TypeOK /\ LoadInv(s)
  BY DEF IInv, SessionInv
<1>1. PICK k \in Places, i \in Ids : Inserts(s, k, i)
  BY <1>0, InsertFacts
<1>2. pc[s] = "load" /\ pc'[s] = "load"
  BY <1>1 DEF Inserts
<1>3. ASSUME NEW t \in Tables
      PROVE  /\ todo'[s][t] \subseteq Generated(s)[t]
             /\ Generated(s)[t] \ todo'[s][t] \subseteq Visible(s, t)'
             /\ \A x \in todo'[s][t], j \in Generated(s)[t] : x <= j => j \in todo'[s][t]
  <2>1. /\ todo[s][t] \subseteq Generated(s)[t]
        /\ Generated(s)[t] \ todo[s][t] \subseteq Visible(s, t)
        /\ \A x \in todo[s][t], j \in Generated(s)[t] : x <= j => j \in todo[s][t]
    BY <1>0, <1>2 DEF LoadInv
  <2>2. Visible(s, t)' = IF t = Table(k) THEN Visible(s, t) \cup {i} ELSE Visible(s, t)
    BY <1>0, <1>1, InsertShows
  <2>3. CASE t # Table(k)
    <3>1. todo'[s][t] = todo[s][t]
      BY <1>1, <2>3 DEF Inserts
    <3>. QED  BY <2>1, <2>2, <2>3, <3>1
  <2>4. CASE t = Table(k)
    <3>1. todo'[s][t] = todo[s][t] \ {i}
      BY <1>1, <2>4 DEF Inserts
    <3>2. i \in todo[s][t] /\ \A x \in todo[s][t] : i <= x
      BY <1>1, <2>4 DEF Inserts, FirstOpen
    <3>3. todo[s][t] \in SUBSET Nat
      BY <2>1, SizesAreIds
    <3>4. ASSUME NEW x \in todo'[s][t], NEW j \in Generated(s)[t], x <= j
          PROVE  j \in todo'[s][t]
      <4>1. j \in todo[s][t] /\ x # i /\ i <= x /\ j \in Nat
        BY <2>1, <3>1, <3>2, <3>3, <3>4
      <4>2. j # i
        BY <3>1, <3>3, <3>4, <4>1
      <4>. QED  BY <3>1, <4>1, <4>2
    <3>. QED  BY <2>1, <2>2, <2>4, <3>1, <3>4
  <2>. QED  BY <2>3, <2>4
<1>4. LoadInv(s)'
  BY <1>3 DEF LoadInv, Generated
<1>. QED  BY <1>2, <1>4 DEF ClaimInv, ReadInv

LEMMA FinishControl ==
    ASSUME IInv, NEW s \in Sessions, FinishBootstrap(s)
    PROVE  LoadInv(s)' /\ ClaimInv(s)' /\ ReadInv(s)'
<1>0. TypeOK /\ LoadInv(s)
  BY DEF IInv, SessionInv
<1>1. pc[s] = "load" /\ todo[s] = NoRows /\ pc'[s] = "claim" /\ rows' = rows /\ mine' = mine
  BY <1>0 DEF FinishBootstrap, Goto, TypeOK
<1>2. \A t \in Tables : Sees(s, t)
  BY <1>0, <1>1, NoRowsType DEF LoadInv, Sees
<1>3. \A t \in Tables : Sees(s, t)'
  BY <1>1, <1>2 DEF Sees, Visible, Generated
<1>. QED  BY <1>1, <1>3 DEF LoadInv, ClaimInv, ReadInv

LEMMA ReadControl ==
    ASSUME IInv, NEW s \in Sessions, ReadReference(s)
    PROVE  LoadInv(s)' /\ ClaimInv(s)' /\ ReadInv(s)'
<1>0. TypeOK /\ ClaimInv(s)
  BY DEF IInv, SessionInv
<1>1. /\ pc[s] = "claim" /\ pc'[s] = "ingest"
      /\ known'[s] = [t \in Tables |->
             IF t \in {"customers", "stores", "products"} THEN Visible(s, t) ELSE {}]
  BY <1>0 DEF ReadReference, Goto, TypeOK
<1>2. \A t \in {"customers", "stores", "products"} : t \in Tables /\ known'[s][t] = Visible(s, t)
  BY <1>1, Places5
<1>. QED  BY <1>0, <1>1, <1>2 DEF LoadInv, ClaimInv, ReadInv, Sees, Generated

LEMMA ControlStep ==
    ASSUME IInv, NEW s \in Sessions, SessionNext(s)
    PROVE  LoadInv(s)' /\ ClaimInv(s)' /\ ReadInv(s)'
<1>0. TypeOK /\ ReadInv(s)
  BY DEF IInv, SessionInv
<1>1. CASE CommitPart(s)
  <2>1. pc'[s] = pc[s] /\ known' = known /\ pc[s] = "ingest"
    BY <1>1 DEF CommitPart
  <2>. QED  BY <1>0, <2>1 DEF LoadInv, ClaimInv, ReadInv, Generated
<1>2. CASE \/ Call(s) \/ Exit(s) \/ FailOutsideIngestion(s) \/ FailIngestion(s) \/ Retry(s) \/ Crash(s)
  <2>1. pc'[s] \in {"check", "out", "failed"}
    BY <1>0, <1>2
    DEF Call, Exit, FailOutsideIngestion, FailIngestion, Retry, Crash, Leave, Goto, TypeOK
  <2>. QED  BY <2>1, ControlElsewhere
<1>. QED
  BY <1>1, <1>2, CheckControl, InsertControl, FinishControl, ReadControl DEF SessionNext, Attempt

-----------------------------------------------------------------------------
(* Types.                                                                  *)

LEMMA SessionTypes ==
    ASSUME TypeOK, NEW s \in Sessions, SessionNext(s)
    PROVE  TypeOK'
<1>1. rows' \in Rows /\ mine' \in [Sessions -> Rows]
  <2>1. CASE Keeps(s)
    BY <2>1 DEF Keeps, TypeOK
  <2>2. CASE CommitRows(s)
    BY <2>2, CommitFacts
  <2>3. CASE Rolls(s)
    BY <2>3, RollFacts DEF TypeOK
  <2>4. CASE \E k \in Places, i \in Ids : Inserts(s, k, i)
    BY <2>4 DEF Inserts, TypeOK
  <2>. QED  BY <2>1, <2>2, <2>3, <2>4, TableStep
<1>2. /\ todo' \in [Sessions -> Rows] /\ known' \in [Sessions -> Rows]
      /\ pc' \in [Sessions -> {"out", "check", "load", "claim", "ingest", "failed"}]
  <2>1. CASE InsertRow(s)
    BY <2>1, InsertFacts DEF Inserts, TypeOK
  <2>2. CASE CheckReference(s)
    BY <2>2, GeneratedType DEF CheckReference, Goto, TypeOK
  <2>3. CASE ReadReference(s)
    <3>1. [t \in Tables |-> IF t \in {"customers", "stores", "products"} THEN Visible(s, t) ELSE {}] \in Rows
      BY DEF TypeOK, Rows, Visible
    <3>. QED  BY <2>3, <3>1 DEF ReadReference, Goto, TypeOK
  <2>4. CASE \/ Call(s) \/ FinishBootstrap(s) \/ CommitPart(s) \/ Retry(s)
    BY <2>4 DEF Call, FinishBootstrap, CommitPart, Retry, Goto, TypeOK
  <2>5. CASE Exit(s) \/ FailOutsideIngestion(s) \/ FailIngestion(s) \/ Crash(s)
    <3>1. Leave(s, "out") \/ Leave(s, "failed")
      BY <2>5 DEF Exit, FailOutsideIngestion, FailIngestion, Crash
    <3>. QED  BY <3>1, NoRowsType DEF Leave, Goto, TypeOK
  <2>. QED  BY <2>1, <2>2, <2>3, <2>4, <2>5 DEF SessionNext, Attempt
<1>3. orders' \in Seq([customer : Ids, store : Ids, product : Ids]) /\ Len(orders') <= MaxOrders
  <2>1. CASE CommitPart(s)
    <3>1. PICK c \in known[s]["customers"], st \in known[s]["stores"], p \in known[s]["products"] :
              orders' = Append(orders, [customer |-> c, store |-> st, product |-> p])
      BY <2>1 DEF CommitPart
    <3>2. [customer |-> c, store |-> st, product |-> p] \in [customer : Ids, store : Ids, product : Ids]
      BY Places5 DEF TypeOK, Rows
    <3>3. Len(orders) < MaxOrders /\ orders \in Seq([customer : Ids, store : Ids, product : Ids])
      BY <2>1 DEF CommitPart, TypeOK
    <3>. QED  BY <3>1, <3>2, <3>3, ReferenceAssumption
  <2>2. CASE ~CommitPart(s)
    <3>1. orders' = orders
      BY <2>2
      DEF SessionNext, Attempt, Call, Crash, CheckReference, InsertRow, FinishBootstrap,
          ReadReference, Exit, FailOutsideIngestion, FailIngestion, Retry
    <3>. QED  BY <3>1 DEF TypeOK
  <2>. QED  BY <2>1, <2>2
<1>4. UNCHANGED buildVars
  BY DEF SessionNext, Attempt, Call, Crash, CheckReference, InsertRow, FinishBootstrap,
         ReadReference, CommitPart, Exit, FailOutsideIngestion, FailIngestion, Retry
<1>. QED  BY <1>1, <1>2, <1>3, <1>4 DEF TypeOK, buildVars

LEMMA StepAfterType ==
    ASSUME NEW t \in Tables
    PROVE  StepAfter(t) \in Tables \cup {"orders"}
<1>1. \E k \in DOMAIN ReadOrder : ReadOrder[k] = t
  BY Places5 DEF ReadOrder
<1>2. PICK k \in DOMAIN ReadOrder :
          StepAfter(t) = IF k = Len(ReadOrder) THEN "orders" ELSE ReadOrder[k + 1]
  BY <1>1 DEF StepAfter
<1>3. DOMAIN ReadOrder = 1..5 /\ Len(ReadOrder) = 5
  BY DEF ReadOrder
<1>4. \A j \in 1..5 : ReadOrder[j] \in Tables
  BY Places5 DEF ReadOrder
<1>5. CASE k = 5
  BY <1>2, <1>3, <1>5
<1>6. CASE k # 5
  <2>1. k + 1 \in 1..5
    BY <1>3, <1>6
  <2>. QED  BY <1>2, <1>3, <1>4, <1>6, <2>1
<1>. QED  BY <1>5, <1>6

-----------------------------------------------------------------------------
(* The steps of a build preserve the invariant.                            *)

Labels == Tables \cup {"out", "orders", "items", "watermarks", "commit", "failed"}

LEMMA DimensionStep ==
    ASSUME TypeOK, BuildInv, LoadDimension
    PROVE  wh' = wh /\ work' \in Warehouse /\ step' \in Labels /\ BuildInv'
<1>1. /\ step \in Tables /\ step' = StepAfter(step) /\ wh' = wh
      /\ work' = [work EXCEPT !.dims[step] = @ \cup rows[step]]
  BY DEF LoadDimension
<1>2. work' = [work EXCEPT !.dims = [work.dims EXCEPT ![step] = @ \cup rows[step]]]
  BY <1>1
<1>3. work \in Warehouse /\ rows \in [Tables -> SUBSET Ids] /\ work.dims \in [Tables -> SUBSET Ids]
  BY DEF TypeOK, Rows, Warehouse
<1>4. [work.dims EXCEPT ![step] = @ \cup rows[step]] \in Rows
  BY <1>3 DEF Rows
<1>5. work' \in Warehouse
  BY <1>2, <1>3, <1>4 DEF Warehouse
<1>6. /\ work'.facts = work.facts /\ work'.items = work.items
      /\ work'.orderMark = work.orderMark /\ work'.itemMark = work.itemMark
  BY <1>2, <1>3 DEF Warehouse
<1>7. step' \in Tables \cup {"orders"}
  BY <1>1, StepAfterType
<1>8. step' \notin {"items", "watermarks"}
  BY <1>7, Places5
<1>9. Covered(work')
  BY <1>6 DEF BuildInv, Covered
<1>. QED  BY <1>1, <1>5, <1>7, <1>8, <1>9 DEF BuildInv, Labels

LEMMA OrdersStep ==
    ASSUME TypeOK, BuildInv, LoadFactOrders
    PROVE  wh' = wh /\ work' \in Warehouse /\ step' \in Labels /\ BuildInv'
<1>0. wh' = wh /\ work \in Warehouse
  BY DEF LoadFactOrders, TypeOK
<1>1. CASE step' = "failed" /\ work' = work
  BY <1>0, <1>1 DEF BuildInv, Labels
<1>2. CASE /\ work' = [work EXCEPT !.facts = @ \cup {Fact(i) : i \in NewOrders \ LoadedOrders},
                                   !.lastOrder = Len(orders)]
           /\ step' = "items"
  <2>1. Len(orders) \in Nat /\ Len(orders) <= MaxOrders /\ NewOrders \subseteq 1..Len(orders)
    BY <1>0 DEF TypeOK, NewOrders, Warehouse, Marks
  <2>2. ASSUME NEW i \in 1..Len(orders)
        PROVE  /\ Fact(i) \in [order : 1..MaxOrders, customer : Ids, store : Ids \cup {NoStore}]
               /\ Fact(i).order = i
    <3>1. orders[i] \in [customer : Ids, store : Ids, product : Ids]
      <4>. DEFINE Order == [customer : Ids, store : Ids, product : Ids]
      <4>1. orders \in Seq(Order)
        BY DEF TypeOK
      <4>. HIDE DEF Order
      <4>2. orders[i] \in Order
        BY <4>1
      <4>. QED  BY <4>2 DEF Order
    <3>2. i \in 1..MaxOrders
      BY <2>1, ReferenceAssumption
    <3>3. (IF orders[i].store \in work.dims["stores"] THEN orders[i].store ELSE NoStore) \in Ids \cup {NoStore}
      BY <3>1
    <3>. QED  BY <3>1, <3>2, <3>3 DEF Fact
  <2>. DEFINE added == {Fact(i) : i \in NewOrders \ LoadedOrders}
  <2>3. added \subseteq [order : 1..MaxOrders, customer : Ids, store : Ids \cup {NoStore}]
    BY <2>1, <2>2
  <2>4. 1..Len(orders) \subseteq {f.order : f \in work.facts \cup added}
    <3>1. ASSUME NEW i \in 1..Len(orders)
          PROVE  \E f \in work.facts \cup added : f.order = i
      <4>1. CASE i \in LoadedOrders
        BY <4>1 DEF LoadedOrders
      <4>2. CASE i \notin LoadedOrders /\ i \in NewOrders
        <5>1. Fact(i) \in added /\ Fact(i).order = i
          BY <2>2, <4>2
        <5>. QED  BY <5>1
      <4>3. CASE i \notin LoadedOrders /\ i \notin NewOrders
        <5>1. i \in 1..work.orderMark
          BY <1>0, <2>1, <4>3 DEF NewOrders, Warehouse, Marks
        <5>. QED  BY <4>3, <5>1 DEF BuildInv, Covered, LoadedOrders
      <4>. QED  BY <4>1, <4>2, <4>3
    <3>. HIDE DEF added
    <3>. QED  BY <3>1
  <2>. HIDE DEF added
  <2>5. work' = [work EXCEPT !.facts = work.facts \cup added, !.lastOrder = Len(orders)]
    BY <1>2 DEF added
  <2>6. Len(orders) \in Marks
    BY <2>1, ReferenceAssumption DEF Marks
  <2>7. /\ work'.facts = work.facts \cup added /\ work'.items = work.items
        /\ work'.orderMark = work.orderMark /\ work'.itemMark = work.itemMark
        /\ work'.lastOrder = Len(orders)
    BY <1>0, <2>5 DEF Warehouse
  <2>8. work' \in Warehouse
    BY <1>0, <2>3, <2>5, <2>6 DEF Warehouse
  <2>9. Covered(work')
    BY <2>7 DEF BuildInv, Covered
  <2>10. 1..work'.lastOrder \subseteq LoadedOrders'
    BY <2>4, <2>7 DEF LoadedOrders
  <2>. QED  BY <1>0, <1>2, <2>8, <2>9, <2>10 DEF BuildInv, Labels
<1>. QED  BY <1>1, <1>2 DEF LoadFactOrders

LEMMA ItemsStep ==
    ASSUME TypeOK, BuildInv, LoadFactItems
    PROVE  wh' = wh /\ work' \in Warehouse /\ step' \in Labels /\ BuildInv'
<1>0. wh' = wh /\ work \in Warehouse /\ step = "items"
  BY DEF LoadFactItems, TypeOK
<1>1. CASE step' = "failed" /\ work' = work
  BY <1>0, <1>1 DEF BuildInv, Labels
<1>2. CASE /\ work' = [work EXCEPT !.items = @ \cup NewItems, !.lastItem = Len(orders)]
           /\ step' = "watermarks"
  <2>1. Len(orders) \in Nat /\ Len(orders) <= MaxOrders /\ work.itemMark \in Nat
    BY <1>0 DEF TypeOK, Warehouse, Marks
  <2>2. NewItems \in SUBSET (1..MaxOrders) /\ Len(orders) \in Marks
    BY <2>1, ReferenceAssumption DEF NewItems, Marks
  <2>3. 1..Len(orders) \subseteq work.items \cup NewItems
    BY <2>1 DEF NewItems, BuildInv, Covered
  <2>4. /\ work'.items = work.items \cup NewItems /\ work'.facts = work.facts
        /\ work'.orderMark = work.orderMark /\ work'.itemMark = work.itemMark
        /\ work'.lastOrder = work.lastOrder /\ work'.lastItem = Len(orders)
    BY <1>0, <1>2 DEF Warehouse
  <2>5. work' \in Warehouse
    BY <1>0, <1>2, <2>2 DEF Warehouse
  <2>6. Covered(work') /\ LoadedOrders' = LoadedOrders
    BY <2>4 DEF BuildInv, Covered, LoadedOrders
  <2>. QED  BY <1>0, <1>2, <2>3, <2>4, <2>5, <2>6 DEF BuildInv, Labels
<1>. QED  BY <1>1, <1>2 DEF LoadFactItems

LEMMA WatermarkStep ==
    ASSUME TypeOK, BuildInv, AdvanceWatermarks
    PROVE  wh' = wh /\ work' \in Warehouse /\ step' \in Labels /\ BuildInv'
<1>0. /\ wh' = wh /\ work \in Warehouse /\ step = "watermarks" /\ step' = "commit"
      /\ work' = [work EXCEPT !.orderMark = work.lastOrder, !.itemMark = work.lastItem]
  BY DEF AdvanceWatermarks, TypeOK
<1>1. /\ work'.items = work.items /\ work'.facts = work.facts
      /\ work'.orderMark = work.lastOrder /\ work'.itemMark = work.lastItem
      /\ work' \in Warehouse
  BY <1>0 DEF Warehouse
<1>2. Covered(work')
  BY <1>0, <1>1 DEF BuildInv, Covered, LoadedOrders
<1>. QED  BY <1>0, <1>1, <1>2 DEF BuildInv, Labels

LEMMA CommitStep ==
    ASSUME TypeOK, BuildInv, CommitBuild
    PROVE  wh' \in Warehouse /\ work' \in Warehouse /\ step' \in Labels /\ BuildInv'
<1>0. /\ work \in Warehouse /\ step' = "out" /\ work' = wh'
      /\ wh' = [work EXCEPT !.lastOrder = 0, !.lastItem = 0]
  BY DEF CommitBuild, TypeOK
<1>1. 0 \in Marks
  BY ReferenceAssumption DEF Marks
<1>2. /\ wh'.items = work.items /\ wh'.facts = work.facts
      /\ wh'.orderMark = work.orderMark /\ wh'.itemMark = work.itemMark
      /\ wh' \in Warehouse
  BY <1>0, <1>1 DEF Warehouse
<1>3. Covered(wh')
  BY <1>2 DEF BuildInv, Covered
<1>. QED  BY <1>0, <1>2, <1>3 DEF BuildInv, Labels

LEMMA BuildStep ==
    ASSUME IInv, Build
    PROVE  IInv'
<1>0. TypeOK /\ BuildInv
  BY DEF IInv
<1>1. wh' \in Warehouse /\ work' \in Warehouse /\ step' \in Labels /\ BuildInv'
  <2>1. CASE LoadDimension \/ LoadFactOrders \/ LoadFactItems \/ AdvanceWatermarks
    <3>1. wh' = wh /\ work' \in Warehouse /\ step' \in Labels /\ BuildInv'
      BY <1>0, <2>1, DimensionStep, OrdersStep, ItemsStep, WatermarkStep
    <3>. QED  BY <1>0, <3>1 DEF TypeOK
  <2>2. CASE CommitBuild
    BY <1>0, <2>2, CommitStep
  <2>3. CASE StartBuild \/ RetryBuild \/ RaiseInBuild
    <3>1. wh' = wh /\ work' = work /\ step' \in Tables \cup {"failed"}
      BY <2>3, Places5 DEF StartBuild, RetryBuild, RaiseInBuild, ReadOrder
    <3>2. step' \notin {"items", "watermarks"}
      BY <3>1, Places5
    <3>. QED  BY <1>0, <3>1, <3>2 DEF TypeOK, BuildInv, Labels
  <2>4. CASE CrashBuild
    BY <1>0, <2>4 DEF CrashBuild, TypeOK, BuildInv, Labels
  <2>. QED  BY <2>1, <2>2, <2>3, <2>4 DEF Build
<1>2. UNCHANGED sourceVars
  BY DEF Build, StartBuild, LoadDimension, LoadFactOrders, LoadFactItems, AdvanceWatermarks,
         CommitBuild, RetryBuild, RaiseInBuild, CrashBuild
<1>3. TypeOK'
  BY <1>0, <1>1, <1>2 DEF TypeOK, sourceVars, Labels
<1>4. GaplessInv' /\ OwnInv' /\ \A s \in Sessions : SessionInv(s)'
  BY <1>2
  DEF IInv, sourceVars, GaplessInv, OwnInv, Visible, SessionInv, OrderInv, LoadInv, ClaimInv, ReadInv,
      Sees, Generated
<1>. QED  BY <1>1, <1>3, <1>4 DEF IInv

-----------------------------------------------------------------------------
(* The theorems.                                                           *)

LEMMA InitInv == Init => IInv
<1>. SUFFICES ASSUME Init PROVE IInv
  OBVIOUS
<1>1. /\ rows = NoRows /\ orders = <<>> /\ work = wh /\ step = "out"
      /\ \A s \in Sessions : mine[s] = NoRows /\ todo[s] = NoRows /\ known[s] = NoRows /\ pc[s] = "out"
  BY DEF Init
<1>2. wh \in Warehouse /\ Covered(wh)
  <2>1. /\ wh = [dims |-> NoRows, facts |-> {}, items |-> {}, orderMark |-> 0, itemMark |-> 0,
                 lastOrder |-> 0, lastItem |-> 0]
        /\ 0 \in Marks
    BY ReferenceAssumption DEF Init, Marks
  <2>. QED  BY <2>1, NoRowsType DEF Warehouse, Covered
<1>3. TypeOK
  <2>1. /\ mine \in [Sessions -> Rows] /\ todo \in [Sessions -> Rows] /\ known \in [Sessions -> Rows]
        /\ pc \in [Sessions -> {"out", "check", "load", "claim", "ingest", "failed"}]
    BY NoRowsType DEF Init
  <2>2. orders \in Seq([customer : Ids, store : Ids, product : Ids]) /\ Len(orders) <= MaxOrders
    BY <1>1, ReferenceAssumption
  <2>. QED  BY <1>1, <1>2, <2>1, <2>2, NoRowsType DEF TypeOK
<1>4. \A s \in Sessions, t \in Tables : rows[t] = {} /\ mine[s][t] = {} /\ Visible(s, t) = {}
  BY <1>1, NoRowsType DEF Visible
<1>5. GaplessInv /\ OwnInv
  BY <1>1, <1>4, NoRowsType DEF GaplessInv, OwnInv, Gapless
<1>6. ASSUME NEW s \in Sessions
      PROVE  SessionInv(s)
  BY <1>1, <1>4, PlaceOfTable DEF SessionInv, OrderInv, LoadInv, ClaimInv, ReadInv
<1>7. BuildInv
  BY <1>1, <1>2 DEF BuildInv
<1>. QED  BY <1>3, <1>5, <1>6, <1>7 DEF IInv

LEMMA NextInv == IInv /\ [Next]_vars => IInv'
<1>. SUFFICES ASSUME IInv, [Next]_vars PROVE IInv'
  OBVIOUS
<1>1. CASE UNCHANGED vars
  BY <1>1
  DEF vars, sourceVars, buildVars, IInv, TypeOK, GaplessInv, OwnInv, BuildInv, LoadedOrders, Visible,
      SessionInv, OrderInv, LoadInv, ClaimInv, ReadInv, Sees, Generated
<1>2. CASE Build
  BY <1>2, BuildStep
<1>3. ASSUME NEW s \in Sessions, SessionNext(s)
      PROVE  IInv'
  <2>1. TypeOK /\ BuildInv
    BY DEF IInv
  <2>2. TypeOK' /\ GaplessInv' /\ OwnInv'
    BY <1>3, <2>1, SessionTypes, GaplessStep, OwnStep
  <2>3. ASSUME NEW r \in Sessions
        PROVE  SessionInv(r)'
    <3>1. OrderInv(r)'
      BY <1>3, OrderStep
    <3>2. LoadInv(r)' /\ ClaimInv(r)' /\ ReadInv(r)'
      BY <1>3, ControlStep, ControlOfOthers
    <3>. QED  BY <3>1, <3>2 DEF SessionInv
  <2>4. UNCHANGED buildVars
    BY <1>3
    DEF SessionNext, Attempt, Call, Crash, CheckReference, InsertRow, FinishBootstrap,
        ReadReference, CommitPart, Exit, FailOutsideIngestion, FailIngestion, Retry
  <2>5. BuildInv'
    BY <2>1, <2>4 DEF buildVars, BuildInv, Covered, LoadedOrders
  <2>. QED  BY <2>2, <2>3, <2>5 DEF IInv
<1>. QED  BY <1>1, <1>2, <1>3 DEF Next, SessionNext

LEMMA Inductive == Spec => []IInv
  BY InitInv, NextInv, PTL DEF Spec

\* The state of sessions, tables, warehouse and build is always well-formed.
THEOREM ReferenceTypes == Spec => []TypeOK
<1>1. IInv => TypeOK
  BY DEF IInv
<1>. QED  BY <1>1, Inductive, PTL

\* Every part is generated from the whole reference data of its session's
\* configuration: a count of the rows is as good as a look at their ids, also
\* after given-up bootstraps and rollbacks, of any number of sessions.
THEOREM PartsUseWholeReference == Spec => []IngestsOnWholeReference
<1>1. IInv => IngestsOnWholeReference
  BY DEF IInv, SessionInv, ReadInv, IngestsOnWholeReference
<1>. QED  BY <1>1, Inductive, PTL

\* Up to its watermarks the warehouse misses no order and no item, however the
\* statements of builds fall between the commits of reference rows and parts.
THEOREM BuildsDropNoOrder == Spec => []NoOrderIsDropped
<1>1. IInv => NoOrderIsDropped
  BY DEF IInv, BuildInv, Covered, NoOrderIsDropped
<1>. QED  BY <1>1, Inductive, PTL

\* What waiting for another session's uncommitted row means.
Waits(s, k, i, r) ==
    /\ pc[s] = "load" /\ FirstOpen(s, k, i)
    /\ r \in Sessions \ {s} /\ i \in mine[r][Table(k)]

LEMMA BlockedWaits ==
    ASSUME TypeOK, NEW s \in Sessions, NEW r \in Blocked(s)
    PROVE  \E k \in Places, i \in Ids : Waits(s, k, i, r)
<1>1. pc[s] = "load" /\ \E row \in NextRows(s) : r \in WaitsFor(s, row[1], row[2])
  BY DEF Blocked
<1>2. PICK row \in NextRows(s) : r \in WaitsFor(s, row[1], row[2])
  BY <1>1
<1>3. PICK k \in Places, i \in Ids : row = <<Table(k), i>> /\ FirstOpen(s, k, i)
  BY NextRowIsFirst
<1>4. r \in WaitsFor(s, Table(k), i)
  BY <1>2, <1>3
<1>. QED  BY <1>1, <1>3, <1>4 DEF Waits, WaitsFor

\* Who is waited for waits, if at all, for a later row.
LEMMA WaitingAscends ==
    ASSUME IInv, NEW r \in Sessions, NEW s \in Sessions, NEW q \in Sessions,
           NEW k \in Places, NEW i \in Ids, Waits(s, k, i, r),
           NEW m \in Places, NEW j \in Ids, Waits(r, m, j, q)
    PROVE  k < m \/ (k = m /\ i < j)
<1>0. /\ TypeOK /\ GaplessInv /\ OwnInv /\ OrderInv(r) /\ LoadInv(r)
      /\ Table(k) \in Tables /\ Table(m) \in Tables
      /\ i \in Nat /\ j \in Nat /\ j >= 1 /\ k \in Nat /\ m \in Nat /\ m >= 1
  BY PlaceOfTable, IdsAreNumbers DEF IInv, SessionInv, Places
<1>1. j \notin Visible(r, Table(m))
  BY <1>0 DEF Waits, OwnInv, Visible
<1>2. j \in Generated(r)[Table(m)]
  BY <1>0 DEF Waits, FirstOpen, LoadInv
<1>3. i \in mine[r][Table(k)]
  BY DEF Waits
<1>4. ~(m < k)
  <2>1. ASSUME m < k PROVE FALSE
    <3>1. m \in 1..(k - 1)
      BY <1>0, <2>1
    <3>2. Sees(r, Table(m))
      BY <1>0, <1>3, <3>1 DEF OrderInv
    <3>. QED  BY <1>1, <1>2, <3>2 DEF Sees
  <2>. QED  BY <2>1
<1>5. ~(m = k /\ j <= i)
  <2>1. ASSUME m = k, j <= i PROVE FALSE
    <3>1. i \in Visible(r, Table(m))
      BY <1>3, <2>1 DEF Visible
    <3>2. j \in 1..i
      BY <1>0, <2>1
    <3>. QED  BY <1>0, <1>1, <3>1, <3>2 DEF GaplessInv, Gapless
  <2>. QED  BY <2>1
<1>. QED  BY <1>0, <1>4, <1>5

\* Bootstraps never deadlock: in no set of sessions does everyone wait for an
\* uncommitted row of another one of the set.
THEOREM BootstrapsNeverDeadlock == Spec => []NoCircularWait
<1>1. IInv => NoCircularWait
  <2>. SUFFICES ASSUME IInv, NEW ring \in SUBSET Sessions, ring # {},
                       \A s \in ring : Blocked(s) \cap ring # {}
                PROVE  FALSE
    BY DEF NoCircularWait
  <2>. DEFINE WaitsAt(k, i) == \E s, r \in ring : Waits(s, k, i, r)
              places == {k \in Places : \E i \in Ids : WaitsAt(k, i)}
  <2>0. TypeOK
    BY DEF IInv
  <2>1. \A s \in ring : \E k \in Places, i \in Ids, r \in ring : Waits(s, k, i, r)
    BY <2>0, BlockedWaits
  <2>2. places # {}
    BY <2>1
  <2>3. PICK k \in places : \A x \in places : k >= x
    <3>1. places \in SUBSET Nat /\ \A x \in places : x <= 5
      BY DEF Places
    <3>. HIDE DEF places
    <3>. QED  BY <2>2, <3>1, GreatestNat
  <2>. DEFINE ids == {i \in Ids : WaitsAt(k, i)}
  <2>4. k \in Places /\ ids # {}
    BY <2>3
  <2>5. PICK i \in ids : \A x \in ids : i >= x
    <3>1. PICK n \in Nat : Ids = 1..n
      <4>1. PICK s \in Sessions : TRUE
        OBVIOUS
      <4>2. PICK t \in Tables : TRUE
        BY Places5
      <4>. QED  BY <4>1, <4>2, SizesAreIds
    <3>2. ids \in SUBSET Nat /\ \A x \in ids : x <= n
      BY <3>1
    <3>. HIDE DEF ids
    <3>. QED  BY <2>4, <3>1, <3>2, GreatestNat
  <2>6. PICK s \in ring, r \in ring : Waits(s, k, i, r)
    BY <2>5
  <2>7. PICK m \in Places, j \in Ids, q \in ring : Waits(r, m, j, q)
    BY <2>1
  <2>8. k < m \/ (k = m /\ i < j)
    BY <2>4, <2>5, <2>6, <2>7, WaitingAscends
  <2>9. m \in places /\ (m = k => j \in ids)
    BY <2>7
  <2>10. i \in Nat /\ j \in Nat /\ k \in Nat /\ m \in Nat
    BY <2>4, <2>5, <2>7, IdsAreNumbers DEF Places
  <2>. QED  BY <2>3, <2>5, <2>8, <2>9, <2>10
<1>. QED  BY <1>1, Inductive, PTL
=============================================================================
