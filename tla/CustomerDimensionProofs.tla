----------------------- MODULE CustomerDimensionProofs -----------------------
(***************************************************************************)
(* TLAPS proofs about CustomerDimension, for any customers, segments and   *)
(* cities, any number of changes and of orders.                            *)
(*                                                                         *)
(* The argument.  Nothing in the dimension is newer than the source, and   *)
(* what is as new as a row that has been read shows that row: the time of  *)
(* a change determines the segment and the city.  So a load finds the      *)
(* current version either with the row's segment, which it brings up to    *)
(* date, or older than the row, which lets it close the version and open   *)
(* the next.  Each load extends the chain or leaves its length; facts      *)
(* refer to its end at the time, which never moves back.                   *)
(***************************************************************************)
EXTENDS CustomerDimension, SequenceTheorems, TLAPS

-----------------------------------------------------------------------------
(* The inductive invariant.                                                *)

\* What VersionsAreAChain says of one customer, and what it needs: a version
\* is refreshed after its start, and the k-th starts at time k at the earliest.
Chain(versions) ==
    /\ \A k \in 1..Len(versions) :
          /\ versions[k].current <=> k = Len(versions)
          /\ versions[k].from <= versions[k].updated
          /\ k <= versions[k].from
    /\ \A k \in 1..(Len(versions) - 1) :
          /\ versions[k].from < versions[k].to
          /\ versions[k].to = versions[k + 1].from
          /\ versions[k].segment # versions[k + 1].segment

WasTrue(c, v) ==
    /\ v.from <= now /\ history[c][v.from] = v.segment
    /\ v.updated <= now /\ history[c][v.updated] = v.segment

\* Not newer than the row, and with the row's city if it is as new.
Fits(v, row) == v.updated <= row.updated /\ (v.updated = row.updated => v.city = row.city)

\* A row of retail.customers, now or when it has been read.
RowInv(c, row) ==
    /\ row.updated <= now
    /\ Exists(row) => /\ row.updated >= 1 /\ history[c][row.updated] = row.segment
                      /\ row.city \in Cities

SourceInv ==
    /\ \A c \in Customers :
          Len(history[c]) = now /\ RowInv(c, source[c]) /\ RowInv(c, staged[c])

\* The dimension and the facts of a warehouse.
DimInv(w) ==
    \A c \in Customers :
        /\ Chain(w.dim[c])
        /\ \A k \in 1..Len(w.dim[c]) : WasTrue(c, w.dim[c][k]) /\ Fits(w.dim[c][k], source[c])

FactInv(w) ==
    /\ Len(w.facts) <= Len(orders)
    /\ \A i \in 1..Len(w.facts) : w.facts[i].version <= Len(w.dim[w.facts[i].customer])
    /\ \A i, j \in 1..Len(w.facts) :
          i < j /\ w.facts[i].customer = w.facts[j].customer
              => w.facts[i].version <= w.facts[j].version

\* What a later warehouse keeps of an earlier one.
KeepsVersions(old, new) ==
    /\ Len(old) <= Len(new)
    /\ \A k \in 1..Len(old) :
          /\ ~old[k].current => new[k] = old[k]
          /\ new[k].segment = old[k].segment /\ new[k].from = old[k].from

KeepsFacts(old, new) ==
    Len(old) <= Len(new) /\ \A i \in 1..Len(old) : new[i] = old[i]

Shows(versions, row) ==
    \E k \in CurrentOf(versions) : versions[k].segment = row.segment /\ versions[k].city = row.city

BuildInv ==
    /\ \A c \in Customers : KeepsVersions(wh.dim[c], work.dim[c])
    /\ KeepsFacts(wh.facts, work.facts)
    /\ pc = "customers" =>
          \A c \in Customers :
              /\ Fits(staged[c], source[c])
              /\ \A k \in 1..Len(work.dim[c]) : Fits(work.dim[c][k], staged[c])
    /\ pc \in {"orders", "mart", "commit"} =>
          \A c \in Customers : Exists(staged[c]) => Shows(work.dim[c], staged[c])

IInv ==
    /\ TypeOK /\ SourceInv /\ BuildInv
    /\ DimInv(wh) /\ FactInv(wh) /\ DimInv(work) /\ FactInv(work)

-----------------------------------------------------------------------------
(* What load_customers does to the versions of one customer.               *)

LEMMA FunctionIsSeq ==
    ASSUME NEW S, NEW n \in Nat, NEW f \in [1..n -> S]
    PROVE  f \in Seq(S) /\ Len(f) = n /\ DOMAIN f = 1..n
<1>1. f \in Seq(S)
  BY SeqDef
<1>. QED  BY <1>1, LenProperties

\* A version that is current, and one that is closed.
Open == [segment : Segments, city : Cities, updated : Times, from : Times, to : {0}, current : {TRUE}]
Shut == [segment : Segments, city : Cities, updated : Times, from : Times, to : Times, current : {FALSE}]

LEMMA VersionKinds ==
    ASSUME NEW v \in Version
    PROVE  /\ v.current \in BOOLEAN
           /\ v.current => v \in Open
           /\ ~v.current => v \in Shut
           /\ v.segment \in Segments /\ v.city \in Cities /\ v.updated \in Times /\ v.from \in Times
<1>1. CASE v \in Open
  BY <1>1 DEF Open
<1>2. CASE v \in Shut
  BY <1>2 DEF Shut
<1>. QED  BY <1>1, <1>2 DEF Version, Open, Shut

\* The row of a customer that exists.
LEMMA RowKinds ==
    ASSUME NEW row \in SourceRow, Exists(row), row.updated >= 1, row.city \in Cities
    PROVE  row.segment \in Segments /\ row.updated \in Times /\ NewVersion(row, row.updated) \in Open
<1>1. row.segment \in Segments /\ row.updated \in Times
  BY CustomerAssumption DEF SourceRow, Exists, Times
<1>. QED  BY <1>1 DEF NewVersion, Open

ClosedBy(v, row) == [v EXCEPT !.current = FALSE, !.to = row.updated]

\* The current version is brought up to date ...
Refreshes(old, new, row) ==
    /\ Len(old) > 0 /\ Len(new) = Len(old)
    /\ \A k \in 1..(Len(old) - 1) : new[k] = old[k]
    /\ old[Len(old)].segment = row.segment
    /\ new[Len(old)] = NewVersion(row, old[Len(old)].from)

\* ... or closed, if there is one, and followed by a new one.
Adds(old, new, row) ==
    /\ Len(new) = Len(old) + 1
    /\ \A k \in 1..(Len(old) - 1) : new[k] = old[k]
    /\ Len(old) > 0 => /\ old[Len(old)].segment # row.segment
                       /\ old[Len(old)].updated < row.updated
                       /\ new[Len(old)] = ClosedBy(old[Len(old)], row)
    /\ new[Len(old) + 1] = NewVersion(row, row.updated)

Loaded(versions, row) == Refreshed(Opened(Closed(versions, row), row), row)

LEMMA LoadedVersions ==
    ASSUME NEW old \in Seq(Version), Chain(old),
           NEW row \in SourceRow, Exists(row), row.updated >= 1, row.city \in Cities,
           \A k \in 1..Len(old) :
               Fits(old[k], row) /\ (old[k].updated = row.updated => old[k].segment = row.segment)
    PROVE  /\ Loaded(old, row) \in Seq(Version)
           /\ Refreshes(old, Loaded(old, row), row) \/ Adds(old, Loaded(old, row), row)
<1>. DEFINE n == Len(old)
            closed == Closed(old, row)
            opened == Opened(closed, row)
            new == Refreshed(opened, row)
<1>1. n \in Nat /\ DOMAIN old = 1..n /\ old \in [1..n -> Version]
  BY LenProperties
<1>0. /\ n \in Nat
      /\ \A k \in 1..(n - 1) : k \in 1..n /\ k # n
      /\ n > 0 => n \in 1..n
      /\ \A k \in 1..n : k \in 1..(n + 1) /\ n > 0
  <2>1. n \in Nat
    BY <1>1
  <2>. QED  BY ONLY <2>1
<1>2. row.segment \in Segments /\ row.updated \in Times /\ NewVersion(row, row.updated) \in Open
  BY RowKinds
<1>3. ASSUME NEW k \in 1..n
      PROVE  /\ old[k] \in Version
             /\ old[k].current <=> k = n
             /\ k # n => old[k] \in Shut /\ old[k].current = FALSE
             /\ k = n => old[k] \in Open /\ old[k].current = TRUE
             /\ old[k].updated \in Times /\ old[k].updated <= row.updated
             /\ old[k].segment # row.segment => old[k].updated < row.updated
             /\ closed[k] = IF k = n /\ old[k].segment # row.segment
                            THEN ClosedBy(old[k], row) ELSE old[k]
  <2>1. old[k] \in Version
    BY <1>1
  <2>2. old[k].current <=> k = n
    BY DEF Chain
  <2>3. /\ k # n => old[k] \in Shut /\ old[k].current = FALSE
        /\ k = n => old[k] \in Open /\ old[k].current = TRUE
        /\ old[k].updated \in Times
    BY <2>1, <2>2, VersionKinds
  <2>4. /\ old[k].updated <= row.updated
        /\ old[k].segment # row.segment => old[k].updated < row.updated
    BY <1>2, <2>3 DEF Fits, Times
  <2>5. closed[k] = IF k = n /\ old[k].segment # row.segment
                    THEN ClosedBy(old[k], row) ELSE old[k]
    BY <1>1, <2>2, <2>4 DEF Closed, ClosedBy
  <2>. QED  BY <2>1, <2>2, <2>3, <2>4, <2>5
<1>4. DOMAIN closed = 1..n
  BY <1>1 DEF Closed
<1>5. CASE n > 0 /\ old[n].segment = row.segment
  <2>1. n \in 1..n
    BY <1>1, <1>5
  <2>2. \A k \in 1..n : closed[k] = old[k]
    BY <1>3, <1>5
  <2>3. CurrentOf(closed) # {}
    BY <1>3, <1>4, <2>1, <2>2 DEF CurrentOf
  <2>4. opened = closed
    BY <2>3 DEF Opened
  <2>5. DOMAIN new = 1..n
    BY <1>4, <2>4 DEF Refreshed
  <2>6. ASSUME NEW k \in 1..n, k # n
        PROVE  new[k] = old[k]
    BY <1>3, <1>4, <2>2, <2>4, <2>6 DEF Refreshed
  <2>7. new[n] = NewVersion(row, old[n].from)
    <3>1. /\ old[n] \in Open /\ old[n].current = TRUE /\ closed[n] = old[n]
          /\ old[n].segment = row.segment /\ old[n].updated \in Times /\ old[n].updated <= row.updated
      BY <1>3, <1>5, <2>1, <2>2
    <3>2. new[n] = IF old[n].updated < row.updated
                   THEN [old[n] EXCEPT !.city = row.city, !.updated = row.updated]
                   ELSE old[n]
      BY <1>4, <2>1, <2>4, <3>1 DEF Refreshed
    <3>3. ~(old[n].updated < row.updated) => old[n].updated = row.updated /\ old[n].city = row.city
      <4>1. old[n].updated = row.updated => old[n].city = row.city
        BY <2>1 DEF Fits
      <4>. QED  BY <1>2, <3>1, <4>1 DEF Times
    <3>. QED  BY <3>1, <3>2, <3>3 DEF Open, NewVersion
  <2>8. new[n] \in Version
    <3>1. old[n].from \in Times
      BY <1>3, <2>1, VersionKinds
    <3>2. NewVersion(row, old[n].from) \in Open
      BY <1>2, <3>1 DEF NewVersion, Open
    <3>. QED  BY <2>7, <3>2 DEF Version, Open
  <2>9. new = [k \in 1..n |-> new[k]]
    BY <1>4, <2>4 DEF Refreshed
  <2>. HIDE DEF new
  <2>10. new \in [1..n -> Version]
    BY <1>3, <2>6, <2>8, <2>9
  <2>11. new \in Seq(Version) /\ Len(new) = n
    BY <1>1, <2>10, FunctionIsSeq
  <2>12. Refreshes(old, new, row)
    <3>1. \A k \in 1..(n - 1) : new[k] = old[k]
      BY <1>0, <2>6
    <3>. QED  BY <1>5, <2>7, <2>11, <3>1 DEF Refreshes
  <2>. QED  BY <2>11, <2>12 DEF new, Loaded
<1>6. CASE n = 0 \/ old[n].segment # row.segment
  <2>0. n > 0 => /\ old[n].segment # row.segment /\ old[n].updated < row.updated
                 /\ closed[n] = ClosedBy(old[n], row) /\ old[n] \in Open
    <3>. HIDE DEF closed
    <3>1. ASSUME n > 0
          PROVE  /\ old[n].segment # row.segment /\ old[n].updated < row.updated
                 /\ closed[n] = ClosedBy(old[n], row) /\ old[n] \in Open
      <4>1. n \in 1..n /\ n # 0
        BY <1>0, <3>1
      <4>2. old[n].segment # row.segment
        BY <1>6, <4>1
      <4>3. closed[n] = IF n = n /\ old[n].segment # row.segment THEN ClosedBy(old[n], row) ELSE old[n]
        BY <1>3, <4>1
      <4>. QED  BY <1>3, <4>1, <4>2, <4>3
    <3>. QED  BY <3>1
  <2>1. ASSUME NEW k \in 1..n
        PROVE  closed[k] \in Shut /\ closed[k].current = FALSE /\ (k # n => closed[k] = old[k])
    <3>1. CASE k # n
      BY <1>3, <3>1
    <3>2. CASE k = n
      <4>1. closed[k] = ClosedBy(old[k], row) /\ old[k] \in Open
        BY <1>0, <2>0, <3>2
      <4>. QED  BY <1>2, <3>2, <4>1 DEF ClosedBy, Open, Shut
    <3>. QED  BY <3>1, <3>2
  <2>2. CurrentOf(closed) = {}
    BY <1>4, <2>1 DEF CurrentOf
  <2>3. opened = Append(closed, NewVersion(row, row.updated))
    BY <2>2 DEF Opened
  <2>4. closed \in Seq(Version) /\ Len(closed) = n
    <3>1. closed = [k \in 1..n |-> closed[k]]
      BY <1>1 DEF Closed
    <3>. HIDE DEF closed
    <3>2. closed \in [1..n -> Version]
      BY <2>1, <3>1 DEF Version, Shut
    <3>. QED  BY <1>1, <3>2, FunctionIsSeq
  <2>5. NewVersion(row, row.updated) \in Version
    BY <1>2 DEF Version, Open
  <2>6. /\ Len(opened) = n + 1 /\ opened \in Seq(Version)
        /\ \A k \in 1..n : opened[k] = closed[k]
        /\ opened[n + 1] = NewVersion(row, row.updated)
    <3>. HIDE DEF closed
    <3>. QED  BY <1>1, <2>3, <2>4, <2>5
  <2>7. DOMAIN opened = 1..(n + 1)
    BY <2>6, LenProperties
  <2>8. new = [k \in 1..(n + 1) |-> new[k]]
    BY <2>7 DEF Refreshed
  <2>9. \A k \in 1..(n + 1) : new[k] = opened[k]
    <3>1. ASSUME NEW k \in 1..n
          PROVE  new[k] = opened[k]
      <4>1. k \in DOMAIN opened /\ opened[k].current = FALSE
        BY <1>0, <2>1, <2>6, <2>7
      <4>. HIDE DEF opened
      <4>. QED  BY <4>1 DEF Refreshed
    <3>2. new[n + 1] = opened[n + 1]
      <4>1. NewVersion(row, row.updated).updated = row.updated
        BY DEF NewVersion
      <4>2. ~(opened[n + 1].updated < row.updated) /\ n + 1 \in 1..(n + 1)
        BY <1>1, <1>2, <2>6, <4>1 DEF Times
      <4>. QED  BY <2>7, <4>2 DEF Refreshed
    <3>. HIDE DEF new, opened
    <3>. QED  BY <1>1, <3>1, <3>2
  <2>. HIDE DEF new, opened, closed
  <2>10. \A k \in 1..(n + 1) : opened[k] \in Version
    BY <2>6, ElementOfSeq
  <2>11. new \in [1..(n + 1) -> Version]
    BY <2>8, <2>9, <2>10
  <2>12. new \in Seq(Version) /\ Len(new) = n + 1
    BY <1>1, <2>11, FunctionIsSeq
  <2>13. new[n + 1] = NewVersion(row, row.updated) /\ \A k \in 1..n : new[k] = closed[k]
    BY <1>1, <2>6, <2>9
  <2>14. n > 0 => /\ old[n].segment # row.segment /\ old[n].updated < row.updated
                  /\ new[n] = ClosedBy(old[n], row)
    BY <1>0, <2>0, <2>13
  <2>15. \A k \in 1..(n - 1) : new[k] = old[k]
    BY <1>0, <2>1, <2>13
  <2>16. Adds(old, new, row)
    BY <2>12, <2>13, <2>14, <2>15 DEF Adds
  <2>. QED  BY <2>12, <2>16 DEF new, opened, closed, Loaded
<1>. QED  BY <1>1, <1>5, <1>6

\* The versions after a load, one by one.
LEMMA RefreshedVersions ==
    ASSUME NEW old \in Seq(Version), NEW new \in Seq(Version), NEW row, Refreshes(old, new, row), Chain(old)
    PROVE  /\ Len(new) = Len(old) /\ Len(old) \in 1..Len(old)
           /\ \A k \in 1..Len(old) :
                 /\ new[k].from = old[k].from /\ new[k].segment = old[k].segment
                 /\ new[k].current <=> k = Len(old)
                 /\ k # Len(old) => new[k] = old[k]
                 /\ k = Len(old) => /\ new[k].updated = row.updated /\ new[k].city = row.city
                                    /\ new[k].segment = row.segment
<1>. DEFINE n == Len(old)
<1>1. n \in Nat /\ n > 0 /\ Len(new) = n
  BY DEF Refreshes
<1>2. n \in 1..n
  BY ONLY <1>1
<1>3. ASSUME NEW k \in 1..n, k # n
      PROVE  new[k] = old[k] /\ ~old[k].current
  <2>1. k \in 1..(n - 1)
    BY ONLY <1>1, <1>3
  <2>. QED  BY <1>3, <2>1 DEF Refreshes, Chain
<1>4. /\ new[n].updated = row.updated /\ new[n].city = row.city /\ new[n].segment = row.segment
      /\ new[n].from = old[n].from /\ new[n].current /\ old[n].segment = row.segment
  BY DEF Refreshes, NewVersion
<1>5. ASSUME NEW k \in 1..n
      PROVE  /\ new[k].from = old[k].from /\ new[k].segment = old[k].segment
             /\ new[k].current <=> k = n
  <2>1. CASE k = n
    BY <1>4, <2>1
  <2>2. CASE k # n
    BY <1>3, <2>2
  <2>. QED  BY <2>1, <2>2
<1>. QED  BY <1>1, <1>2, <1>3, <1>4, <1>5

LEMMA AddedVersions ==
    ASSUME NEW old \in Seq(Version), NEW new \in Seq(Version), NEW row, Adds(old, new, row), Chain(old)
    PROVE  /\ Len(new) = Len(old) + 1 /\ Len(old) \in Nat
           /\ \A k \in 1..Len(old) :
                 /\ new[k].from = old[k].from /\ new[k].segment = old[k].segment
                 /\ new[k].updated = old[k].updated /\ new[k].city = old[k].city
                 /\ ~new[k].current
                 /\ k # Len(old) => new[k] = old[k]
                 /\ k = Len(old) => /\ new[k].to = row.updated /\ old[k].updated < row.updated
                                    /\ old[k].segment # row.segment
           /\ new[Len(old) + 1] = NewVersion(row, row.updated)
<1>. DEFINE n == Len(old)
<1>1. n \in Nat /\ Len(new) = n + 1 /\ new[n + 1] = NewVersion(row, row.updated)
  BY DEF Adds
<1>2. ASSUME NEW k \in 1..n, k # n
      PROVE  new[k] = old[k] /\ ~old[k].current
  <2>1. k \in 1..(n - 1)
    BY ONLY <1>1, <1>2
  <2>. QED  BY <1>2, <2>1 DEF Adds, Chain
<1>3. ASSUME NEW k \in 1..n, k = n
      PROVE  /\ new[k].from = old[k].from /\ new[k].segment = old[k].segment
             /\ new[k].updated = old[k].updated /\ new[k].city = old[k].city
             /\ ~new[k].current /\ new[k].to = row.updated
             /\ old[k].updated < row.updated /\ old[k].segment # row.segment
  <2>1. n > 0 /\ n \in 1..n
    BY ONLY <1>1, <1>3
  <2>2. /\ old[n].segment # row.segment /\ old[n].updated < row.updated
        /\ new[n] = ClosedBy(old[n], row)
    BY <2>1 DEF Adds
  <2>3. old[n] \in Open
    BY <2>1, ElementOfSeq, VersionKinds DEF Chain
  <2>. QED  BY <1>3, <2>2, <2>3 DEF ClosedBy, Open
<1>4. ASSUME NEW k \in 1..n
      PROVE  /\ new[k].from = old[k].from /\ new[k].segment = old[k].segment
             /\ new[k].updated = old[k].updated /\ new[k].city = old[k].city
             /\ ~new[k].current
             /\ k # n => new[k] = old[k]
             /\ k = n => /\ new[k].to = row.updated /\ old[k].updated < row.updated
                         /\ old[k].segment # row.segment
  <2>1. CASE k = n
    BY <1>3, <2>1
  <2>2. CASE k # n
    BY <1>2, <2>2
  <2>. QED  BY <2>1, <2>2
<1>. QED  BY <1>1, <1>4

LEMMA RefreshedChain ==
    ASSUME NEW old \in Seq(Version), NEW new \in Seq(Version), NEW row, row.updated \in Times,
           Refreshes(old, new, row), Chain(old), \A k \in 1..Len(old) : Fits(old[k], row)
    PROVE  /\ Chain(new) /\ KeepsVersions(old, new) /\ Shows(new, row)
           /\ \A k \in 1..Len(new) : Fits(new[k], row)
<1>. DEFINE n == Len(old)
<1>1. /\ Len(new) = n /\ n \in 1..n /\ n \in Nat
      /\ \A k \in 1..n :
            /\ new[k].from = old[k].from /\ new[k].segment = old[k].segment
            /\ new[k].current <=> k = n
            /\ k # n => new[k] = old[k]
            /\ k = n => /\ new[k].updated = row.updated /\ new[k].city = row.city
                        /\ new[k].segment = row.segment
  BY RefreshedVersions
<1>2. /\ \A k \in 1..n : /\ old[k].from <= old[k].updated /\ k <= old[k].from
                         /\ old[k].from \in Times /\ old[k].updated \in Times
                         /\ old[k].current <=> k = n
      /\ \A k \in 1..(n - 1) : /\ old[k].from < old[k].to /\ old[k].to = old[k + 1].from
                               /\ old[k].segment # old[k + 1].segment
  BY ElementOfSeq, VersionKinds DEF Chain
<1>3. \A k \in 1..n : old[k].updated <= row.updated
  BY DEF Fits
<1>4. ASSUME NEW k \in 1..n
      PROVE  new[k].from <= new[k].updated /\ k <= new[k].from /\ Fits(new[k], row)
  <2>1. CASE k = n
    BY <1>1, <1>2, <1>3, <2>1 DEF Fits, Times
  <2>2. CASE k # n
    BY <1>1, <1>2, <2>2
  <2>. QED  BY <2>1, <2>2
<1>5. ASSUME NEW k \in 1..(n - 1)
      PROVE  /\ new[k].from < new[k].to /\ new[k].to = new[k + 1].from
             /\ new[k].segment # new[k + 1].segment
  <2>1. k \in 1..n /\ k # n /\ k + 1 \in 1..n
    <3>1. n \in Nat
      BY <1>1
    <3>. QED  BY ONLY <1>5, <3>1
  <2>2. new[k] = old[k] /\ new[k + 1].from = old[k + 1].from /\ new[k + 1].segment = old[k + 1].segment
    BY <1>1, <2>1
  <2>. QED  BY <1>2, <2>2
<1>6. Chain(new)
  BY <1>1, <1>4, <1>5 DEF Chain
<1>7. KeepsVersions(old, new)
  BY <1>1, <1>2 DEF KeepsVersions
<1>8. Shows(new, row)
  <2>1. n \in CurrentOf(new)
    BY <1>1, LenProperties DEF CurrentOf
  <2>. QED  BY <1>1, <2>1 DEF Shows
<1>. QED  BY <1>1, <1>4, <1>6, <1>7, <1>8

LEMMA AddedChain ==
    ASSUME NEW old \in Seq(Version), NEW new \in Seq(Version), NEW row, row.updated \in Times,
           Adds(old, new, row), Chain(old), \A k \in 1..Len(old) : Fits(old[k], row)
    PROVE  /\ Chain(new) /\ KeepsVersions(old, new) /\ Shows(new, row)
           /\ \A k \in 1..Len(new) : Fits(new[k], row)
<1>. DEFINE n == Len(old)
<1>1. /\ Len(new) = n + 1 /\ n \in Nat
      /\ \A k \in 1..n :
            /\ new[k].from = old[k].from /\ new[k].segment = old[k].segment
            /\ new[k].updated = old[k].updated /\ new[k].city = old[k].city
            /\ ~new[k].current
            /\ k # n => new[k] = old[k]
            /\ k = n => /\ new[k].to = row.updated /\ old[k].updated < row.updated
                        /\ old[k].segment # row.segment
  BY AddedVersions
<1>2. /\ \A k \in 1..n : /\ old[k].from <= old[k].updated /\ k <= old[k].from
                         /\ old[k].from \in Times /\ old[k].updated \in Times
                         /\ old[k].current <=> k = n
      /\ \A k \in 1..(n - 1) : /\ old[k].from < old[k].to /\ old[k].to = old[k + 1].from
                               /\ old[k].segment # old[k + 1].segment
  BY ElementOfSeq, VersionKinds DEF Chain
<1>3. /\ new[n + 1].from = row.updated /\ new[n + 1].updated = row.updated /\ new[n + 1].current
      /\ new[n + 1].segment = row.segment /\ new[n + 1].city = row.city
  <2>1. new[n + 1] = NewVersion(row, row.updated)
    BY AddedVersions
  <2>. QED  BY <2>1 DEF NewVersion
<1>4. n + 1 <= row.updated
  <2>1. CASE n = 0
    BY <2>1 DEF Times
  <2>2. CASE n # 0
    <3>1. n \in 1..n
      BY <1>1, <2>2
    <3>2. n <= old[n].from /\ old[n].from <= old[n].updated /\ old[n].updated < row.updated
      BY <1>1, <1>2, <3>1
    <3>3. old[n].from \in Int /\ old[n].updated \in Int /\ row.updated \in Int /\ n \in Int
      BY <1>1, <1>2, <3>1 DEF Times
    <3>. QED  BY ONLY <3>2, <3>3
  <2>. QED  BY <2>1, <2>2
<1>5. \A k \in 1..(n + 1) : k \in 1..n \/ k = n + 1
  BY <1>1
<1>6. ASSUME NEW k \in 1..(n + 1)
      PROVE  /\ new[k].current <=> k = n + 1
             /\ new[k].from <= new[k].updated /\ k <= new[k].from /\ Fits(new[k], row)
  <2>1. CASE k \in 1..n
    BY <1>1, <1>2, <2>1 DEF Fits
  <2>2. CASE k = n + 1
    BY <1>3, <1>4, <2>2 DEF Fits, Times
  <2>. QED  BY <1>5, <2>1, <2>2
<1>7. ASSUME NEW k \in 1..n
      PROVE  /\ new[k].from < new[k].to /\ new[k].to = new[k + 1].from
             /\ new[k].segment # new[k + 1].segment
  <2>1. CASE k = n
    <3>1. /\ new[k].from = old[k].from /\ new[k].to = row.updated /\ old[k].updated < row.updated
          /\ old[k].from <= old[k].updated /\ new[k].segment # row.segment
      BY <1>1, <1>2, <2>1
    <3>2. old[k].from \in Int /\ old[k].updated \in Int /\ row.updated \in Int
      BY <1>2 DEF Times
    <3>3. new[k].from < new[k].to
      BY ONLY <3>1, <3>2
    <3>. QED  BY <1>3, <2>1, <3>1, <3>3
  <2>2. CASE k # n
    <3>1. k \in 1..(n - 1) /\ k + 1 \in 1..n
      BY <1>1, <2>2
    <3>2. new[k] = old[k] /\ new[k + 1].from = old[k + 1].from /\ new[k + 1].segment = old[k + 1].segment
      BY <1>1, <2>2, <3>1
    <3>. QED  BY <1>2, <3>1, <3>2
  <2>. QED  BY <2>1, <2>2
<1>8. Chain(new)
  BY <1>1, <1>6, <1>7 DEF Chain
<1>9. KeepsVersions(old, new)
  BY <1>1, <1>2 DEF KeepsVersions
<1>10. Shows(new, row)
  <2>1. n + 1 \in CurrentOf(new)
    BY <1>1, <1>3, LenProperties DEF CurrentOf
  <2>. QED  BY <1>3, <2>1 DEF Shows
<1>. QED  BY <1>1, <1>6, <1>8, <1>9, <1>10

\* A load keeps the chain, and what has been true of its versions.
LEMMA LoadedIsTrue ==
    ASSUME NEW old \in Seq(Version), NEW new \in Seq(Version), NEW c \in Customers, NEW row,
           Refreshes(old, new, row) \/ Adds(old, new, row), Chain(old),
           \A k \in 1..Len(old) : WasTrue(c, old[k]),
           RowInv(c, row), Exists(row)
    PROVE  \A k \in 1..Len(new) : WasTrue(c, new[k])
<1>. DEFINE n == Len(old)
<1>1. row.updated <= now /\ history[c][row.updated] = row.segment
  BY DEF RowInv
<1>2. CASE Refreshes(old, new, row)
  <2>1. ASSUME NEW k \in 1..n
        PROVE  WasTrue(c, new[k])
    <3>1. CASE k = n
      BY <1>1, <1>2, <3>1, RefreshedVersions DEF WasTrue
    <3>2. CASE k # n
      BY <1>2, <3>2, RefreshedVersions
    <3>. QED  BY <3>1, <3>2
  <2>. QED  BY <1>2, <2>1, RefreshedVersions
<1>3. CASE Adds(old, new, row)
  <2>1. ASSUME NEW k \in 1..n
        PROVE  WasTrue(c, new[k])
    <3>1. /\ new[k].from = old[k].from /\ new[k].segment = old[k].segment
          /\ new[k].updated = old[k].updated
      BY <1>3, AddedVersions
    <3>2. WasTrue(c, old[k])
      OBVIOUS
    <3>. QED  BY <3>1, <3>2 DEF WasTrue
  <2>2. WasTrue(c, new[n + 1])
    <3>1. new[n + 1] = NewVersion(row, row.updated)
      BY <1>3, AddedVersions
    <3>. QED  BY <1>1, <3>1 DEF WasTrue, NewVersion
  <2>3. Len(new) = n + 1 /\ n \in Nat
    BY <1>3, AddedVersions
  <2>4. \A k \in 1..(n + 1) : k \in 1..n \/ k = n + 1
    BY <2>3
  <2>. QED  BY <2>1, <2>2, <2>3, <2>4
<1>. QED  BY <1>2, <1>3

-----------------------------------------------------------------------------
(* A later warehouse keeps what an earlier one has.                        *)

LEMMA KeepsItself ==
    ASSUME NEW versions
    PROVE  KeepsVersions(versions, versions) /\ KeepsFacts(versions, versions)
  BY DEF KeepsVersions, KeepsFacts

LEMMA KeepsOn ==
    ASSUME NEW a \in Seq(Version), NEW b \in Seq(Version), NEW c \in Seq(Version),
           KeepsVersions(a, b), KeepsVersions(b, c)
    PROVE  KeepsVersions(a, c)
<1>1. Len(a) \in Nat /\ Len(b) \in Nat /\ Len(c) \in Nat /\ Len(a) <= Len(b) /\ Len(b) <= Len(c)
  BY LenProperties DEF KeepsVersions
<1>2. \A k \in 1..Len(a) : k \in 1..Len(b)
  BY ONLY <1>1
<1>3. ASSUME NEW k \in 1..Len(a)
      PROVE  /\ ~a[k].current => c[k] = a[k]
             /\ c[k].segment = a[k].segment /\ c[k].from = a[k].from
  BY <1>2 DEF KeepsVersions
<1>. QED  BY <1>1, <1>3 DEF KeepsVersions

\* Only the last version is current; and there are no more versions than times.
LEMMA ChainEnd ==
    ASSUME NEW versions \in Seq(Version), Chain(versions)
    PROVE  /\ versions # <<>> => CurrentOf(versions) = {Len(versions)}
           /\ CurrentOf(versions) # {} => /\ CurrentOf(versions) = {Len(versions)}
                                          /\ Len(versions) \in 1..MaxTime
<1>. DEFINE n == Len(versions)
<1>1. n \in Nat /\ DOMAIN versions = 1..n /\ (versions # <<>> => n > 0)
  BY LenProperties, EmptySeq
<1>2. \A k \in 1..n : versions[k].current <=> k = n
  BY DEF Chain
<1>3. CurrentOf(versions) = {k \in 1..n : k = n}
  BY <1>1, <1>2 DEF CurrentOf
<1>4. n > 0 => CurrentOf(versions) = {n}
  BY <1>1, <1>3
<1>5. CurrentOf(versions) # {} => n \in 1..n
  BY <1>1, <1>3
<1>6. n \in 1..n => n \in 1..MaxTime
  <2>1. n \in 1..n => n <= versions[n].from /\ versions[n].from \in Times
    BY ElementOfSeq, VersionKinds DEF Chain
  <2>. QED  BY <1>1, <2>1, CustomerAssumption DEF Times
<1>. QED  BY <1>1, <1>4, <1>5, <1>6

-----------------------------------------------------------------------------
(* The steps of the source system preserve the invariant.                  *)

LEMMA DimTypes ==
    ASSUME NEW w \in Warehouse, NEW c \in Customers
    PROVE  /\ w.dim[c] \in Seq(Version)
           /\ \A k \in 1..Len(w.dim[c]) :
                 /\ w.dim[c][k] \in Version
                 /\ w.dim[c][k].from \in Times /\ w.dim[c][k].updated \in Times
<1>1. w.dim[c] \in Seq(Version)
  BY DEF Warehouse
<1>2. \A k \in 1..Len(w.dim[c]) : w.dim[c][k] \in Version
  BY <1>1, ElementOfSeq
<1>. QED  BY <1>1, <1>2, VersionKinds

LEMMA RowTypes ==
    ASSUME TypeOK, NEW c \in Customers
    PROVE  source[c] \in SourceRow /\ staged[c] \in SourceRow
           /\ source[c].updated \in Nat /\ staged[c].updated \in Nat
  BY CustomerAssumption DEF TypeOK, SourceRow

LEMMA ChangeTypes ==
    ASSUME TypeOK, NEW c \in Customers, ChangeCustomer(c)
    PROVE  TypeOK'
<1>1. PICK segment \in Segments, city \in Cities :
          source' = [source EXCEPT ![c] = [segment |-> segment, city |-> city, updated |-> now']]
  BY DEF ChangeCustomer
<1>2. now' \in 0..MaxTime /\ history' = [d \in Customers |-> Append(history[d], source'[d].segment)]
  BY CustomerAssumption DEF ChangeCustomer, TypeOK
<1>3. [segment |-> segment, city |-> city, updated |-> now'] \in SourceRow
  BY <1>2 DEF SourceRow
<1>4. source' \in [Customers -> SourceRow]
  BY <1>1, <1>3 DEF TypeOK
<1>5. history' \in [Customers -> Seq(Segments \cup {NoValue})]
  <2>1. ASSUME NEW d \in Customers
        PROVE  Append(history[d], source'[d].segment) \in Seq(Segments \cup {NoValue})
    <3>1. source'[d].segment \in Segments \cup {NoValue}
      BY <1>4 DEF SourceRow
    <3>. QED  BY <3>1 DEF TypeOK
  <2>. QED  BY <1>2, <2>1
<1>6. UNCHANGED <<orders, buildVars>>
  BY DEF ChangeCustomer
<1>. QED  BY <1>2, <1>4, <1>5, <1>6 DEF TypeOK, buildVars

\* The history grows; what it has does not change.
LEMMA HistoryGrows ==
    ASSUME TypeOK, SourceInv, NEW c \in Customers, ChangeCustomer(c), NEW d \in Customers
    PROVE  /\ now' = now + 1 /\ now \in Nat
           /\ Len(history'[d]) = now + 1
           /\ \A t \in 1..now : history'[d][t] = history[d][t]
           /\ history'[d][now + 1] = source'[d].segment
           /\ d # c => source'[d] = source[d]
           /\ source'[c].updated = now + 1 /\ source'[c].city \in Cities
<1>1. /\ now' = now + 1 /\ now \in Nat
      /\ history' = [x \in Customers |-> Append(history[x], source'[x].segment)]
  BY CustomerAssumption DEF ChangeCustomer, TypeOK
<1>2. PICK segment \in Segments, city \in Cities :
          source' = [source EXCEPT ![c] = [segment |-> segment, city |-> city, updated |-> now']]
  BY DEF ChangeCustomer
<1>3. (d # c => source'[d] = source[d]) /\ source'[c] = [segment |-> segment, city |-> city, updated |-> now']
  BY <1>2 DEF TypeOK
<1>4. history'[d] = Append(history[d], source'[d].segment)
  BY <1>1
<1>5. history[d] \in Seq(Segments \cup {NoValue}) /\ Len(history[d]) = now
  BY DEF TypeOK, SourceInv
<1>6. /\ Len(history'[d]) = now + 1
      /\ \A t \in 1..now : history'[d][t] = history[d][t]
      /\ history'[d][now + 1] = source'[d].segment
  BY <1>4, <1>5
<1>. QED  BY <1>1, <1>3, <1>6

LEMMA ChangeStep ==
    ASSUME IInv, NEW c \in Customers, ChangeCustomer(c)
    PROVE  IInv'
<1>0. /\ TypeOK /\ SourceInv /\ BuildInv /\ DimInv(wh) /\ FactInv(wh) /\ DimInv(work) /\ FactInv(work)
      /\ wh \in Warehouse /\ work \in Warehouse
  BY DEF IInv, TypeOK
<1>1. orders' = orders /\ wh' = wh /\ work' = work /\ staged' = staged /\ pc' = pc
  BY DEF ChangeCustomer, buildVars
<1>2. TypeOK'
  BY <1>0, ChangeTypes
<1>3. ASSUME NEW d \in Customers
      PROVE  /\ Len(history'[d]) = now' /\ RowInv(d, source[d])' /\ RowInv(d, staged[d])'
             /\ \A row \in SourceRow : Fits(row, source[d]) /\ row.updated <= now => Fits(row, source'[d])
  <2>1. /\ now' = now + 1 /\ now \in Nat /\ Len(history'[d]) = now + 1
        /\ \A t \in 1..now : history'[d][t] = history[d][t]
        /\ history'[d][now + 1] = source'[d].segment
        /\ d # c => source'[d] = source[d]
        /\ source'[c].updated = now + 1 /\ source'[c].city \in Cities
    BY <1>0, HistoryGrows
  <2>2. RowInv(d, source[d]) /\ RowInv(d, staged[d])
    BY <1>0 DEF SourceInv
  <2>3. source[d].updated \in Nat /\ staged[d].updated \in Nat
    BY <1>0, RowTypes
  <2>4. RowInv(d, staged[d])'
    BY <1>1, <2>1, <2>2, <2>3 DEF RowInv, Exists
  <2>5. RowInv(d, source[d])'
    <3>1. CASE d = c
      BY <2>1, <3>1 DEF RowInv
    <3>2. CASE d # c
      BY <2>1, <2>2, <2>3, <3>2 DEF RowInv, Exists
    <3>. QED  BY <3>1, <3>2
  <2>6. ASSUME NEW row \in SourceRow, Fits(row, source[d]), row.updated <= now
        PROVE  Fits(row, source'[d])
    <3>1. row.updated \in Nat
      BY CustomerAssumption DEF SourceRow
    <3>2. CASE d = c
      BY <2>1, <2>6, <3>1, <3>2 DEF Fits
    <3>3. CASE d # c
      BY <2>1, <2>6, <3>3 DEF Fits
    <3>. QED  BY <3>2, <3>3
  <2>. QED  BY <2>1, <2>4, <2>5, <2>6
<1>4. SourceInv'
  BY <1>3 DEF SourceInv
<1>5. ASSUME NEW w \in Warehouse, DimInv(w), NEW d \in Customers, NEW k \in 1..Len(w.dim[d])
      PROVE  /\ w.dim[d][k].from <= now' /\ history'[d][w.dim[d][k].from] = w.dim[d][k].segment
             /\ w.dim[d][k].updated <= now' /\ history'[d][w.dim[d][k].updated] = w.dim[d][k].segment
             /\ Fits(w.dim[d][k], source'[d])
  <2>. DEFINE v == w.dim[d][k]
  <2>1. WasTrue(d, v) /\ Fits(v, source[d])
    BY <1>5 DEF DimInv
  <2>2. v.from \in Times /\ v.updated \in Times
    BY DimTypes
  <2>3. /\ now' = now + 1 /\ now \in Nat
        /\ \A t \in 1..now : history'[d][t] = history[d][t]
        /\ d # c => source'[d] = source[d]
        /\ source'[c].updated = now + 1
    BY <1>0, HistoryGrows
  <2>. HIDE DEF v
  <2>4. v.from \in 1..now /\ v.updated \in 1..now
    BY <2>1, <2>2, <2>3 DEF WasTrue, Times
  <2>5. /\ v.from <= now' /\ history'[d][v.from] = v.segment
        /\ v.updated <= now' /\ history'[d][v.updated] = v.segment
    BY <2>1, <2>3, <2>4 DEF WasTrue
  <2>6. Fits(v, source'[d])
    <3>1. CASE d = c
      BY <2>3, <2>4, <3>1 DEF Fits
    <3>2. CASE d # c
      BY <2>1, <2>3, <3>2 DEF Fits
    <3>. QED  BY <3>1, <3>2
  <2>. QED  BY <2>5, <2>6 DEF v
<1>6. DimInv(wh)' /\ DimInv(work)'
  <2>1. ASSUME NEW w \in Warehouse, DimInv(w), NEW d \in Customers
        PROVE  /\ Chain(w.dim[d])
               /\ \A k \in 1..Len(w.dim[d]) :
                     /\ w.dim[d][k].from <= now' /\ history'[d][w.dim[d][k].from] = w.dim[d][k].segment
                     /\ w.dim[d][k].updated <= now' /\ history'[d][w.dim[d][k].updated] = w.dim[d][k].segment
                     /\ Fits(w.dim[d][k], source'[d])
    BY <1>5, <2>1 DEF DimInv
  <2>2. DimInv(wh)'
    BY <1>0, <1>1, <2>1 DEF DimInv, WasTrue
  <2>3. DimInv(work)'
    BY <1>0, <1>1, <2>1 DEF DimInv, WasTrue
  <2>. QED  BY <2>2, <2>3
<1>7. FactInv(wh)' /\ FactInv(work)'
  BY <1>0, <1>1 DEF FactInv
<1>8. BuildInv'
  <2>1. ASSUME NEW d \in Customers, Fits(staged[d], source[d])
        PROVE  Fits(staged[d], source'[d])
    <3>1. staged[d] \in SourceRow /\ staged[d].updated <= now
      BY <1>0, RowTypes DEF SourceInv, RowInv
    <3>. QED  BY <1>3, <2>1, <3>1
  <2>. QED  BY <1>0, <1>1, <2>1 DEF BuildInv, Shows, CurrentOf, Exists, Fits
<1>. QED  BY <1>2, <1>4, <1>6, <1>7, <1>8 DEF IInv

LEMMA OrderStep ==
    ASSUME IInv, NEW c \in Customers, PlaceOrder(c)
    PROVE  IInv'
<1>0. TypeOK /\ SourceInv /\ FactInv(wh) /\ FactInv(work) /\ wh \in Warehouse /\ work \in Warehouse
  BY DEF IInv, TypeOK
<1>1. /\ orders' = Append(orders, [customer |-> c, at |-> now]) /\ Exists(source[c])
      /\ now' = now /\ source' = source /\ history' = history
      /\ wh' = wh /\ work' = work /\ staged' = staged /\ pc' = pc
  BY DEF PlaceOrder, buildVars
<1>2. now \in Times
  <2>1. source[c].updated >= 1 /\ source[c].updated <= now /\ source[c].updated \in Nat /\ now \in 0..MaxTime
    BY <1>0, <1>1, RowTypes DEF SourceInv, RowInv, TypeOK
  <2>. QED  BY <2>1, CustomerAssumption DEF Times
<1>. DEFINE Order == [customer : Customers, at : Times]
<1>3. orders \in Seq(Order) /\ [customer |-> c, at |-> now] \in Order
  BY <1>0, <1>2 DEF TypeOK
<1>4. orders' \in Seq(Order) /\ Len(orders') = Len(orders) + 1 /\ Len(orders) \in Nat
  <2>. HIDE DEF Order
  <2>. QED  BY <1>1, <1>3
<1>5. TypeOK'
  BY <1>0, <1>1, <1>4 DEF TypeOK
<1>6. Len(wh.facts) \in Nat /\ Len(work.facts) \in Nat
  BY <1>0 DEF Warehouse
<1>7. FactInv(wh)' /\ FactInv(work)'
  BY <1>0, <1>1, <1>4, <1>6 DEF FactInv
<1>8. SourceInv' /\ BuildInv' /\ DimInv(wh)' /\ DimInv(work)'
  BY <1>1
  DEF IInv, SourceInv, BuildInv, DimInv, RowInv, WasTrue, Fits, Exists, Shows, CurrentOf
<1>. QED  BY <1>5, <1>7, <1>8 DEF IInv

-----------------------------------------------------------------------------
(* The steps of a build preserve the invariant.                            *)

\* One customer's versions after the load.
LEMMA LoadedCustomer ==
    ASSUME IInv, pc = "customers", NEW c \in Customers, Exists(staged[c])
    PROVE  LET old == work.dim[c]  new == Loaded(old, staged[c]) IN
           /\ new \in Seq(Version)
           /\ Chain(new) /\ KeepsVersions(old, new) /\ Shows(new, staged[c])
           /\ \A k \in 1..Len(new) : WasTrue(c, new[k]) /\ Fits(new[k], staged[c])
<1>. DEFINE old == work.dim[c]
            row == staged[c]
            new == Loaded(old, row)
<1>1. /\ old \in Seq(Version) /\ Chain(old) /\ RowInv(c, row) /\ row \in SourceRow
      /\ \A k \in 1..Len(old) : WasTrue(c, old[k]) /\ Fits(old[k], row)
  BY RowTypes, DimTypes DEF IInv, TypeOK, DimInv, SourceInv, BuildInv
<1>2. row.updated \in Times /\ row.updated >= 1 /\ row.city \in Cities /\ Exists(row)
  <2>1. row.updated >= 1 /\ row.city \in Cities
    BY <1>1 DEF RowInv
  <2>. QED  BY <1>1, <2>1, RowKinds
<1>3. \A k \in 1..Len(old) : old[k].updated = row.updated => old[k].segment = row.segment
  BY <1>1 DEF WasTrue, RowInv
<1>. HIDE DEF old, row
<1>4. new \in Seq(Version) /\ (Refreshes(old, new, row) \/ Adds(old, new, row))
  BY <1>1, <1>2, <1>3, LoadedVersions
<1>. HIDE DEF new
<1>5. /\ Chain(new) /\ KeepsVersions(old, new) /\ Shows(new, row)
      /\ \A k \in 1..Len(new) : Fits(new[k], row)
  BY <1>1, <1>2, <1>4, RefreshedChain, AddedChain
<1>6. \A k \in 1..Len(new) : WasTrue(c, new[k])
  BY <1>1, <1>2, <1>4, LoadedIsTrue
<1>. QED  BY <1>4, <1>5, <1>6 DEF old, new, row

\* A row that fits what has been read fits the source.
LEMMA FitsOn ==
    ASSUME NEW v, v.updated \in Nat, NEW a, a.updated \in Nat, NEW b, b.updated \in Nat,
           Fits(v, a), Fits(a, b)
    PROVE  Fits(v, b)
<1>1. v.updated <= a.updated /\ a.updated <= b.updated
  BY DEF Fits
<1>2. v.updated <= b.updated
  BY <1>1
<1>3. v.updated = b.updated => v.updated = a.updated /\ a.updated = b.updated
  BY <1>1
<1>. QED  BY <1>2, <1>3 DEF Fits

LEMMA LoadCustomersStep ==
    ASSUME IInv, LoadCustomers
    PROVE  IInv'
<1>0. /\ TypeOK /\ SourceInv /\ BuildInv /\ DimInv(wh) /\ FactInv(wh) /\ DimInv(work) /\ FactInv(work)
      /\ wh \in Warehouse /\ work \in Warehouse
  BY DEF IInv, TypeOK
<1>. DEFINE dim == [c \in Customers |->
                      IF Exists(staged[c]) THEN Loaded(work.dim[c], staged[c]) ELSE work.dim[c]]
<1>1. /\ pc = "customers" /\ pc' = "orders"
      /\ now' = now /\ source' = source /\ history' = history /\ orders' = orders
      /\ wh' = wh /\ staged' = staged
  BY DEF LoadCustomers, sourceVars
<1>2. work' = [work EXCEPT !.dim = dim]
  BY DEF LoadCustomers, Loaded
<1>3. ASSUME NEW c \in Customers
      PROVE  /\ dim[c] \in Seq(Version) /\ Chain(dim[c]) /\ KeepsVersions(work.dim[c], dim[c])
             /\ \A k \in 1..Len(dim[c]) : WasTrue(c, dim[c][k]) /\ Fits(dim[c][k], source[c])
             /\ Exists(staged[c]) => Shows(dim[c], staged[c])
  <2>1. CASE Exists(staged[c])
    <3>1. dim[c] = Loaded(work.dim[c], staged[c])
      BY <2>1
    <3>. HIDE DEF dim
    <3>2. /\ dim[c] \in Seq(Version) /\ Chain(dim[c]) /\ KeepsVersions(work.dim[c], dim[c])
          /\ Shows(dim[c], staged[c])
          /\ \A k \in 1..Len(dim[c]) : WasTrue(c, dim[c][k]) /\ Fits(dim[c][k], staged[c])
      BY <1>1, <2>1, <3>1, LoadedCustomer
    <3>3. ASSUME NEW k \in 1..Len(dim[c])
          PROVE  Fits(dim[c][k], source[c])
      <4>1. dim[c][k].updated \in Nat
        BY <3>2, ElementOfSeq, VersionKinds DEF Times
      <4>2. Fits(dim[c][k], staged[c]) /\ Fits(staged[c], source[c])
        BY <1>0, <1>1, <3>2 DEF BuildInv
      <4>3. source[c].updated \in Nat /\ staged[c].updated \in Nat
        BY <1>0, RowTypes
      <4>. QED  BY <4>1, <4>2, <4>3, FitsOn
    <3>. QED  BY <3>2, <3>3
  <2>2. CASE ~Exists(staged[c])
    <3>1. dim[c] = work.dim[c]
      BY <2>2
    <3>. HIDE DEF dim
    <3>. QED  BY <1>0, <2>2, <3>1, DimTypes, KeepsItself DEF DimInv
  <2>. QED  BY <2>1, <2>2
<1>4. dim \in [Customers -> Seq(Version)]
  <2>1. dim = [c \in Customers |-> dim[c]]
    OBVIOUS
  <2>. HIDE DEF dim
  <2>. QED  BY <1>3, <2>1
<1>. HIDE DEF dim
<1>5. /\ work' \in Warehouse /\ work'.dim = dim /\ work'.facts = work.facts /\ work'.mart = work.mart
  BY <1>0, <1>2, <1>4 DEF Warehouse
<1>6. TypeOK'
  BY <1>0, <1>1, <1>5 DEF TypeOK
<1>7. SourceInv' /\ DimInv(wh)' /\ FactInv(wh)'
  BY <1>0, <1>1 DEF SourceInv, RowInv, Exists, DimInv, WasTrue, FactInv
<1>8. DimInv(work)'
  BY <1>1, <1>3, <1>5 DEF DimInv, WasTrue
<1>9. FactInv(work)'
  <2>1. \A i \in 1..Len(work.facts) : work.facts[i] \in Key
    BY <1>0, ElementOfSeq DEF Warehouse
  <2>2. ASSUME NEW i \in 1..Len(work.facts)
        PROVE  work.facts[i].version <= Len(dim[work.facts[i].customer])
    <3>1. PICK c \in Customers : c = work.facts[i].customer
      BY <2>1 DEF Key
    <3>2. work.facts[i].version <= Len(work.dim[c]) /\ Len(work.dim[c]) <= Len(dim[c])
      BY <1>0, <1>3, <3>1 DEF FactInv, KeepsVersions
    <3>3. work.facts[i].version \in Nat /\ Len(work.dim[c]) \in Nat /\ Len(dim[c]) \in Nat
      BY <1>0, <1>3, <2>1, DimTypes DEF Key
    <3>. QED  BY <3>1, <3>2, <3>3
  <2>. QED  BY <1>0, <1>1, <1>5, <2>2 DEF FactInv
<1>10. BuildInv'
  <2>1. ASSUME NEW c \in Customers
        PROVE  KeepsVersions(wh.dim[c], dim[c])
    <3>1. KeepsVersions(wh.dim[c], work.dim[c]) /\ KeepsVersions(work.dim[c], dim[c])
      BY <1>0, <1>3 DEF BuildInv
    <3>2. wh.dim[c] \in Seq(Version) /\ work.dim[c] \in Seq(Version) /\ dim[c] \in Seq(Version)
      BY <1>0, <1>3, DimTypes
    <3>. QED  BY <3>1, <3>2, KeepsOn
  <2>. QED  BY <1>0, <1>1, <1>3, <1>5, <2>1 DEF BuildInv, Exists, Shows, CurrentOf
<1>. QED  BY <1>6, <1>7, <1>8, <1>9, <1>10 DEF IInv

LEMMA LoadOrdersStep ==
    ASSUME IInv, LoadOrders
    PROVE  IInv'
<1>0. /\ TypeOK /\ SourceInv /\ BuildInv /\ DimInv(wh) /\ FactInv(wh) /\ DimInv(work) /\ FactInv(work)
      /\ wh \in Warehouse /\ work \in Warehouse
  BY DEF IInv, TypeOK
<1>1. /\ pc = "orders"
      /\ now' = now /\ source' = source /\ history' = history /\ orders' = orders
      /\ wh' = wh /\ staged' = staged
  BY DEF LoadOrders, sourceVars
<1>2. CASE pc' = "failed" /\ work' = work
  BY <1>0, <1>1, <1>2
  DEF IInv, TypeOK, SourceInv, RowInv, Exists, BuildInv, DimInv, WasTrue, FactInv
<1>. DEFINE CurrentKey(i) ==
                [customer |-> orders[i].customer,
                 version |-> CHOOSE k \in CurrentOf(work.dim[orders[i].customer]) : TRUE]
            facts == [i \in DOMAIN orders |-> IF i \in NewOrders THEN CurrentKey(i) ELSE work.facts[i]]
<1>3. CASE Unresolved = {} /\ work' = [work EXCEPT !.facts = facts] /\ pc' = "mart"
  <2>1. /\ Len(orders) \in Nat /\ DOMAIN orders = 1..Len(orders)
        /\ \A i \in 1..Len(orders) : orders[i].customer \in Customers
    <3>. DEFINE Order == [customer : Customers, at : Times]
    <3>1. orders \in Seq(Order)
      BY <1>0 DEF TypeOK
    <3>2. \A o \in Order : o.customer \in Customers
      OBVIOUS
    <3>. HIDE DEF Order
    <3>. QED  BY <3>1, <3>2, LenProperties, ElementOfSeq
  <2>2. /\ Len(work.facts) \in Nat /\ Len(work.facts) <= Len(orders)
        /\ \A i \in 1..Len(work.facts) : work.facts[i] \in Key
    BY <1>0, ElementOfSeq, LenProperties DEF Warehouse, FactInv
  <2>3. \A i \in 1..Len(orders) : i \in NewOrders <=> i \notin 1..Len(work.facts)
    BY <2>1, <2>2 DEF NewOrders
  <2>4. ASSUME NEW i \in 1..Len(orders), i \in NewOrders
        PROVE  /\ facts[i].customer = orders[i].customer
               /\ facts[i].version = Len(work.dim[orders[i].customer])
               /\ facts[i] \in Key
    <3>1. PICK c \in Customers : c = orders[i].customer
      BY <2>1
    <3>2. CurrentOf(work.dim[c]) # {}
      BY <1>3, <2>4, <3>1 DEF Unresolved
    <3>3. CurrentOf(work.dim[c]) = {Len(work.dim[c])} /\ Len(work.dim[c]) \in 1..MaxTime
      BY <1>0, <3>2, ChainEnd, DimTypes DEF DimInv
    <3>4. facts[i] = CurrentKey(i)
      BY <2>1, <2>4
    <3>5. CurrentKey(i) = [customer |-> c, version |-> Len(work.dim[c])]
      BY <3>1, <3>3
    <3>. HIDE DEF facts, CurrentKey
    <3>. QED  BY <3>1, <3>3, <3>4, <3>5 DEF Key
  <2>5. ASSUME NEW i \in 1..Len(work.facts)
        PROVE  facts[i] = work.facts[i] /\ i \in 1..Len(orders)
    <3>1. i \in 1..Len(orders)
      BY <2>1, <2>2
    <3>2. i \notin NewOrders
      BY <2>3, <3>1
    <3>. QED  BY <2>1, <3>1, <3>2
  <2>6. facts = [i \in 1..Len(orders) |-> facts[i]]
    BY <2>1
  <2>. HIDE DEF facts
  <2>7. facts \in [1..Len(orders) -> Key]
    BY <2>2, <2>3, <2>4, <2>5, <2>6
  <2>8. facts \in Seq(Key) /\ Len(facts) = Len(orders)
    BY <2>1, <2>7, FunctionIsSeq
  <2>9. work' \in Warehouse /\ work'.facts = facts /\ work'.dim = work.dim
    BY <1>0, <1>3, <2>8 DEF Warehouse
  <2>10. TypeOK'
    BY <1>0, <1>1, <1>3, <2>9 DEF TypeOK
  <2>11. SourceInv' /\ DimInv(wh)' /\ FactInv(wh)'
    BY <1>0, <1>1 DEF SourceInv, RowInv, Exists, DimInv, WasTrue, FactInv
  <2>12. DimInv(work)'
    BY <1>0, <1>1, <2>9 DEF DimInv, WasTrue
  <2>13. ASSUME NEW i \in 1..Len(orders)
         PROVE  /\ facts[i].version <= Len(work.dim[facts[i].customer])
                /\ Len(work.dim[facts[i].customer]) \in Nat /\ facts[i].version \in Nat
    <3>1. facts[i] \in Key
      BY <2>7
    <3>2. Len(work.dim[facts[i].customer]) \in Nat /\ facts[i].version \in Nat
      BY <1>0, <3>1, DimTypes DEF Key
    <3>3. CASE i \in NewOrders
      <4>1. facts[i].version = Len(work.dim[facts[i].customer])
        BY <2>4, <3>3
      <4>. QED  BY <3>2, <4>1
    <3>4. CASE i \notin NewOrders
      <4>1. i \in 1..Len(work.facts) /\ facts[i] = work.facts[i]
        BY <2>3, <2>5, <3>4
      <4>. QED  BY <1>0, <3>2, <4>1 DEF FactInv
    <3>. QED  BY <3>3, <3>4
  <2>14. ASSUME NEW i \in 1..Len(orders), NEW j \in 1..Len(orders), i < j, facts[i].customer = facts[j].customer
         PROVE  facts[i].version <= facts[j].version
    <3>1. CASE j \in NewOrders
      <4>1. facts[j].version = Len(work.dim[facts[j].customer])
        BY <2>4, <3>1
      <4>. QED  BY <2>13, <2>14, <4>1
    <3>2. CASE j \notin NewOrders
      <4>1. j \in 1..Len(work.facts) /\ facts[j] = work.facts[j]
        BY <2>3, <2>5, <3>2
      <4>2. i \in 1..Len(work.facts)
        BY <2>2, <2>14, <4>1
      <4>3. facts[i] = work.facts[i]
        BY <2>5, <4>2
      <4>. QED  BY <1>0, <2>14, <4>1, <4>2, <4>3 DEF FactInv
    <3>. QED  BY <3>1, <3>2
  <2>15. FactInv(work)'
    BY <1>1, <2>1, <2>8, <2>9, <2>13, <2>14 DEF FactInv
  <2>16. KeepsFacts(wh.facts, facts)
    <3>1. Len(wh.facts) <= Len(work.facts) /\ \A i \in 1..Len(wh.facts) : work.facts[i] = wh.facts[i]
      BY <1>0 DEF BuildInv, KeepsFacts
    <3>2. Len(wh.facts) \in Nat
      BY <1>0 DEF Warehouse
    <3>3. \A i \in 1..Len(wh.facts) : i \in 1..Len(work.facts)
      BY ONLY <2>2, <3>1, <3>2
    <3>4. Len(wh.facts) <= Len(facts)
      BY <2>1, <2>2, <2>8, <3>1, <3>2
    <3>. QED  BY <2>5, <3>1, <3>3, <3>4 DEF KeepsFacts
  <2>17. BuildInv'
    BY <1>0, <1>1, <1>3, <2>9, <2>16 DEF BuildInv, Exists, Shows, CurrentOf
  <2>. QED  BY <2>10, <2>11, <2>12, <2>15, <2>17 DEF IInv
<1>. QED  BY <1>2, <1>3 DEF LoadOrders

\* The mart is made of the facts.
LEMMA RefreshMartStep ==
    ASSUME IInv, RefreshCustomerMart
    PROVE  IInv'
<1>0. /\ TypeOK /\ SourceInv /\ BuildInv /\ DimInv(wh) /\ FactInv(wh) /\ DimInv(work) /\ FactInv(work)
      /\ wh \in Warehouse /\ work \in Warehouse
  BY DEF IInv, TypeOK
<1>1. /\ pc = "mart" /\ pc' = "commit"
      /\ now' = now /\ source' = source /\ history' = history /\ orders' = orders
      /\ wh' = wh /\ staged' = staged
  BY DEF RefreshCustomerMart, sourceVars
<1>. DEFINE mart == {work.facts[i] : i \in DOMAIN work.facts}
<1>2. mart \in SUBSET Key
  <2>1. DOMAIN work.facts = 1..Len(work.facts) /\ \A i \in 1..Len(work.facts) : work.facts[i] \in Key
    BY <1>0, ElementOfSeq, LenProperties DEF Warehouse
  <2>. QED  BY <2>1
<1>3. work' = [work EXCEPT !.mart = mart]
  BY DEF RefreshCustomerMart
<1>. HIDE DEF mart
<1>4. work' \in Warehouse /\ work'.dim = work.dim /\ work'.facts = work.facts
  BY <1>0, <1>2, <1>3 DEF Warehouse
<1>5. TypeOK'
  BY <1>0, <1>1, <1>4 DEF TypeOK
<1>6. SourceInv' /\ BuildInv' /\ DimInv(wh)' /\ FactInv(wh)' /\ DimInv(work)' /\ FactInv(work)'
  BY <1>0, <1>1, <1>4
  DEF SourceInv, RowInv, Exists, BuildInv, Shows, CurrentOf, DimInv, WasTrue, FactInv
<1>. QED  BY <1>5, <1>6 DEF IInv

\* Nobody is staged between builds.
LEMMA NobodyTypes ==
    ASSUME IInv
    PROVE  /\ NobodyStaged \in [Customers -> SourceRow]
           /\ \A c \in Customers : RowInv(c, NobodyStaged[c])
<1>1. Absent \in SourceRow
  BY CustomerAssumption DEF Absent, SourceRow
<1>2. 0 <= now
  BY DEF IInv, TypeOK
<1>. QED  BY <1>1, <1>2 DEF NobodyStaged, RowInv, Exists, Absent

\* Both ends of a build: the warehouse and the work are the same.
LEMMA EndStep ==
    ASSUME IInv, Commit \/ Crash
    PROVE  IInv'
<1>0. /\ TypeOK /\ SourceInv /\ BuildInv /\ DimInv(wh) /\ FactInv(wh) /\ DimInv(work) /\ FactInv(work)
      /\ wh \in Warehouse /\ work \in Warehouse
  BY DEF IInv, TypeOK
<1>1. /\ now' = now /\ source' = source /\ history' = history /\ orders' = orders
      /\ wh' = work' /\ (wh' = wh \/ wh' = work) /\ pc' = "out" /\ staged' = NobodyStaged
  BY DEF Commit, Crash, sourceVars
<1>2. wh' \in Warehouse /\ work' \in Warehouse
  BY <1>0, <1>1
<1>3. TypeOK'
  BY <1>0, <1>1, <1>2, NobodyTypes DEF TypeOK
<1>4. SourceInv'
  <2>1. \A c \in Customers : RowInv(c, NobodyStaged[c])
    BY NobodyTypes
  <2>. QED  BY <1>0, <1>1, <2>1 DEF SourceInv, RowInv, Exists
<1>5. DimInv(wh)' /\ FactInv(wh)' /\ DimInv(work)' /\ FactInv(work)'
  <2>1. CASE wh' = wh
    BY <1>0, <1>1, <2>1 DEF DimInv, WasTrue, FactInv
  <2>2. CASE wh' = work
    BY <1>0, <1>1, <2>2 DEF DimInv, WasTrue, FactInv
  <2>. QED  BY <1>1, <2>1, <2>2
<1>6. BuildInv'
  <2>1. /\ \A c \in Customers : KeepsVersions(wh'.dim[c], work'.dim[c])
        /\ KeepsFacts(wh'.facts, work'.facts)
    BY <1>1, KeepsItself
  <2>. QED  BY <1>1, <2>1 DEF BuildInv
<1>. QED  BY <1>3, <1>4, <1>5, <1>6 DEF IInv

\* Both starts of an attempt: the customers are read.
LEMMA ReadStep ==
    ASSUME IInv, ReadCustomers \/ Retry
    PROVE  IInv'
<1>0. /\ TypeOK /\ SourceInv /\ BuildInv /\ DimInv(wh) /\ FactInv(wh) /\ DimInv(work) /\ FactInv(work)
  BY DEF IInv
<1>1. /\ now' = now /\ source' = source /\ history' = history /\ orders' = orders
      /\ wh' = wh /\ work' = work /\ staged' = source /\ pc' = "customers"
  BY DEF ReadCustomers, Retry, sourceVars
<1>2. TypeOK'
  BY <1>0, <1>1 DEF TypeOK
<1>3. SourceInv' /\ DimInv(wh)' /\ FactInv(wh)' /\ DimInv(work)' /\ FactInv(work)'
  BY <1>0, <1>1 DEF SourceInv, RowInv, Exists, DimInv, WasTrue, FactInv
<1>4. BuildInv'
  <2>1. ASSUME NEW c \in Customers
        PROVE  Fits(source[c], source[c])
    <3>1. source[c].updated \in Nat
      BY <1>0, RowTypes
    <3>2. source[c].updated <= source[c].updated
      BY <3>1
    <3>. QED  BY <3>2 DEF Fits
  <2>2. \A c \in Customers : \A k \in 1..Len(work.dim[c]) : Fits(work.dim[c][k], source[c])
    BY <1>0 DEF DimInv
  <2>. QED  BY <1>0, <1>1, <2>1, <2>2 DEF BuildInv
<1>. QED  BY <1>2, <1>3, <1>4 DEF IInv

LEMMA IdleStep ==
    ASSUME IInv, Raise \/ UNCHANGED vars
    PROVE  IInv'
<1>1. CASE Raise
  BY <1>1
  DEF Raise, sourceVars, IInv, TypeOK, SourceInv, RowInv, Exists, BuildInv, DimInv, WasTrue, FactInv
<1>2. CASE UNCHANGED vars
  BY <1>2
  DEF vars, IInv, TypeOK, SourceInv, RowInv, Exists, BuildInv, Shows, CurrentOf, DimInv, WasTrue, FactInv
<1>. QED  BY <1>1, <1>2

LEMMA InitInv ==
    ASSUME Init
    PROVE  IInv
<1>1. /\ now = 0 /\ source = [c \in Customers |-> Absent] /\ staged = NobodyStaged /\ pc = "out"
      /\ history = [c \in Customers |-> <<>>] /\ orders = <<>> /\ work = wh
      /\ wh = [dim |-> [c \in Customers |-> <<>>], facts |-> <<>>, mart |-> {}]
  BY DEF Init
<1>2. Absent \in SourceRow
  BY CustomerAssumption DEF Absent, SourceRow
<1>3. wh \in Warehouse
  BY <1>1 DEF Warehouse
<1>4. TypeOK
  BY <1>1, <1>2, <1>3, CustomerAssumption DEF TypeOK, NobodyStaged
<1>5. SourceInv
  BY <1>1 DEF SourceInv, RowInv, Exists, NobodyStaged, Absent
<1>6. DimInv(wh) /\ FactInv(wh)
  BY <1>1 DEF DimInv, FactInv, Chain
<1>7. BuildInv
  BY <1>1, KeepsItself DEF BuildInv
<1>. QED  BY <1>1, <1>4, <1>5, <1>6, <1>7 DEF IInv

LEMMA NextInv ==
    ASSUME IInv, [Next]_vars
    PROVE  IInv'
  BY ChangeStep, OrderStep, LoadCustomersStep, LoadOrdersStep, RefreshMartStep, EndStep, ReadStep, IdleStep
  DEF Next

LEMMA Inductive == Spec => []IInv
<1>1. Init => IInv
  BY InitInv
<1>2. IInv /\ [Next]_vars => IInv'
  BY NextInv
<1>. QED  BY <1>1, <1>2, PTL DEF Spec

-----------------------------------------------------------------------------
(* Theorems                                                                *)

\* The warehouse holds well-formed versions, facts and mart rows: a version is
\* current exactly when it is not closed (load_customers, load_fact_orders).
THEOREM CustomerTypes == Spec => []TypeOK
<1>1. IInv => TypeOK
  BY DEF IInv
<1>. QED  BY <1>1, Inductive, PTL

\* The committed versions of a customer are a chain without gaps of which only
\* the last is current, whatever the source does while a build runs.
THEOREM VersionsChain == Spec => []VersionsAreAChain
<1>1. IInv => VersionsAreAChain
  <2>1. SUFFICES ASSUME IInv, NEW c \in Customers
                 PROVE  LET versions == wh.dim[c] IN
                        /\ versions # <<>> => CurrentOf(versions) = {Len(versions)}
                        /\ \A k \in 1..(Len(versions) - 1) :
                              /\ versions[k].from < versions[k].to
                              /\ versions[k].to = versions[k + 1].from
                              /\ versions[k].segment # versions[k + 1].segment
    BY DEF VersionsAreAChain
  <2>2. Chain(wh.dim[c]) /\ wh.dim[c] \in Seq(Version)
    BY <2>1, DimTypes DEF IInv, TypeOK, DimInv
  <2>. QED  BY <2>2, ChainEnd DEF Chain
<1>. QED  BY <1>1, Inductive, PTL

\* The segment of a committed version was the customer's when the version
\* starts and when it was last refreshed.
THEOREM SegmentsWereTrue == Spec => []VersionsWereTrue
<1>1. IInv => VersionsWereTrue
  <2>1. SUFFICES ASSUME IInv, NEW c \in Customers, NEW k \in DOMAIN wh.dim[c]
                 PROVE  /\ history[c][wh.dim[c][k].from] = wh.dim[c][k].segment
                        /\ history[c][wh.dim[c][k].updated] = wh.dim[c][k].segment
    BY DEF VersionsWereTrue
  <2>2. k \in 1..Len(wh.dim[c])
    BY <2>1, DimTypes, LenProperties DEF IInv, TypeOK
  <2>. QED  BY <2>1, <2>2 DEF IInv, DimInv, WasTrue
<1>. QED  BY <1>1, Inductive, PTL

\* A later order of a customer never refers to an earlier version than an order
\* before it, although the key is looked up when the fact is loaded.
THEOREM LaterOrdersLaterVersions == Spec => []FactsFollowVersions
<1>1. IInv => FactsFollowVersions
  <2>1. IInv => DOMAIN wh.facts = 1..Len(wh.facts)
    BY LenProperties DEF IInv, TypeOK, Warehouse
  <2>. QED  BY <2>1 DEF IInv, FactInv, FactsFollowVersions
<1>. QED  BY <1>1, Inductive, PTL

\* No step rewrites the past: closed versions stay as they are, versions keep
\* their segment and start, and a fact keeps its version.
THEOREM ThePastIsKept == Spec => PastIsKept
<1>1. ASSUME IInv, [Next]_vars
      PROVE  (wh' = wh \/ wh' = work)
  BY <1>1 DEF Next, vars, ChangeCustomer, PlaceOrder, buildVars, ReadCustomers, LoadCustomers,
              LoadOrders, RefreshCustomerMart, Commit, Retry, Raise, Crash
<1>2. ASSUME IInv, [Next]_vars
      PROVE  /\ \A c \in Customers : KeepsVersions(wh.dim[c], wh'.dim[c])
             /\ KeepsFacts(wh.facts, wh'.facts)
  <2>1. CASE wh' = wh
    BY <2>1, KeepsItself
  <2>2. CASE wh' = work
    BY <1>2, <2>2 DEF IInv, BuildInv
  <2>. QED  BY <1>1, <1>2, <2>1, <2>2
<1>3. ASSUME IInv
      PROVE  /\ DOMAIN wh.facts = 1..Len(wh.facts)
             /\ \A c \in Customers : DOMAIN wh.dim[c] = 1..Len(wh.dim[c])
  BY <1>3, DimTypes, LenProperties DEF IInv, TypeOK, Warehouse
<1>4. ASSUME IInv, [Next]_vars
      PROVE  /\ \A c \in Customers : \A k \in DOMAIN wh.dim[c] :
                   LET v == wh.dim[c][k]  w == wh'.dim[c][k] IN
                   /\ ~v.current => w = v
                   /\ w.segment = v.segment /\ w.from = v.from
             /\ \A i \in DOMAIN wh.facts : wh'.facts[i] = wh.facts[i]
  BY <1>2, <1>3, <1>4 DEF KeepsVersions, KeepsFacts
<1>. QED  BY <1>4, Inductive, PTL DEF Spec, PastIsKept

\* A build that succeeds leaves current versions that show every customer as
\* the build has read it, the attributes that are not versioned included.
THEOREM BuildsAreCurrent == Spec => BuildIsCurrent
<1>1. ASSUME IInv, Commit, pc = "commit", NEW c \in Customers, Exists(staged[c])
      PROVE  \E k \in CurrentOf(wh'.dim[c]) :
                /\ wh'.dim[c][k].segment = staged[c].segment
                /\ wh'.dim[c][k].city = staged[c].city
  <2>1. Shows(work.dim[c], staged[c]) /\ wh' = work
    BY <1>1 DEF IInv, BuildInv, Commit
  <2>. QED  BY <2>1 DEF Shows
<1>2. ASSUME IInv, [Next]_vars
      PROVE  Commit /\ pc = "commit" =>
                \A c \in Customers : Exists(staged[c]) =>
                    \E k \in CurrentOf(wh'.dim[c]) :
                        /\ wh'.dim[c][k].segment = staged[c].segment
                        /\ wh'.dim[c][k].city = staged[c].city
  BY <1>1, <1>2
<1>. QED  BY <1>2, Inductive, PTL DEF Spec, BuildIsCurrent
=============================================================================
