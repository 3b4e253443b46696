----------------------------- MODULE OCCProofs ------------------------------
(* Why the OCC build is serializable, gives its latches back and does not  *)
(* deadlock, for every number of threads, rows and transactions.           *)
EXTENDS OCC, OptimisticProofs

Images == [Words -> {InitVal, NoVal} \cup Nat]
Entries == [txn : Nat, reads : [Rows -> Images], writes : SUBSET Rows]

TypeOK ==
    /\ timestamp \in Nat
    /\ latch \in [Rows -> Threads \cup {NoThread}]
    /\ wts \in [Rows -> Nat]
    /\ data \in [Rows -> Images]
    /\ pc \in [Threads -> {"fetch", "access", "cleanup", "release"}]
    /\ query \in [Threads -> Queries \cup {<< >>}]
    /\ row_cnt \in [Threads -> Nat]
    /\ seen \in [Threads -> [Rows -> Images]]
    /\ start_ts \in [Threads -> Nat]
    /\ end_ts \in [Threads -> Nat]
    /\ lock_cnt \in [Threads -> Nat]
    /\ released \in [Threads -> Nat]
    /\ starts \in Nat
    /\ order \in Seq(Entries)

\* How far a transaction is, by its place in the code.
PhaseInv ==
    \A t \in Threads :
        /\ pc[t] = "fetch" <=> query[t] = << >>
        /\ pc[t] = "fetch" =>
              row_cnt[t] = 0 /\ lock_cnt[t] = 0 /\ released[t] = 0 /\ seen[t] = NoReads
        /\ pc[t] # "fetch" => start_ts[t] < timestamp
        /\ pc[t] = "access" =>
              /\ row_cnt[t] <= Len(query[t])
              /\ lock_cnt[t] <= row_cnt[t] /\ released[t] = 0
              /\ lock_cnt[t] > 0 => row_cnt[t] = Len(query[t])
        /\ pc[t] = "cleanup" =>
              /\ row_cnt[t] \in 1..Len(query[t])
              /\ lock_cnt[t] = Len(query[t]) /\ released[t] = 0
              /\ start_ts[t] < end_ts[t]
        /\ pc[t] = "release" =>
              lock_cnt[t] \in 1..Len(query[t]) /\ released[t] < lock_cnt[t]

\* The latches t has taken and not given back.
Latched(t) == {Sorted(t)[i] : i \in (released[t] + 1)..lock_cnt[t]}

LatchInv == \A r \in Rows, t \in Threads : latch[r] = t <=> r \in Latched(t)

\* The rows whose validation counts have not been written since.
ValidInv ==
    \A t \in Threads :
        /\ pc[t] = "access" =>
              \A i \in 1..lock_cnt[t] : wts[Sorted(t)[i]] <= start_ts[t]
        /\ pc[t] = "cleanup" =>
              \A i \in 1..row_cnt[t] : wts[Sorted(t)[i]] <= start_ts[t]

Copied(t) == {query[t][i].row : i \in 1..row_cnt[t]}

\* A copy is the row as it is, or the row's timestamp gives it away; and whoever
\* is to write the row yet will leave such a timestamp.
SeenInv ==
    \A t \in Threads : pc[t] = "access" =>
        /\ \A r \in Copied(t) :
              /\ wts[r] > start_ts[t] \/ seen[t][r] = data[r]
              /\ \A u \in Threads : pc[u] = "cleanup" /\ latch[r] = u
                                       => end_ts[u] > start_ts[t]
        /\ \A r \in Rows \ Copied(t) : seen[t][r] = NoImage

\* t has committed and is yet to write r.
ToWrite(t, r) ==
    /\ pc[t] = "cleanup"
    /\ \E i \in 1..row_cnt[t] : Sorted(t)[i] = r
    /\ TypeOf(t, r) = "WR"

\* The table and the history agree, but for the writes that are under way.
DataInv ==
    \A r \in Rows :
        /\ \A t \in Threads : ToWrite(t, r) =>
              ImageBefore(Len(order) + 1, r) = Image(Written(t))
        /\ (\A t \in Threads : ~ ToWrite(t, r)) =>
              data[r] = ImageBefore(Len(order) + 1, r)

IInv == TypeOK /\ PhaseInv /\ LatchInv /\ ValidInv /\ SeenInv /\ DataInv /\ Serializable

----------------------------------------------------------------------------
(* What the operators compute.                                             *)

LEMMA SortedFacts ==
    ASSUME NEW t, query[t] \in Queries
    PROVE  /\ query[t] \in Seq(Request) /\ Len(query[t]) \in Nat \ {0}
           /\ DOMAIN query[t] = 1..Len(query[t])
           /\ \A i \in 1..Len(query[t]) : query[t][i].row \in Rows
           /\ Sorted(t) \in [1..Len(query[t]) -> Rows]
           /\ Ascending(Sorted(t), Len(query[t]))
           /\ \A i \in 1..Len(query[t]) :
                 /\ \E j \in 1..Len(query[t]) : Sorted(t)[j] = query[t][i].row
                 /\ \E j \in 1..Len(query[t]) : Sorted(t)[i] = query[t][j].row
<1> DEFINE n == Len(query[t])
           f == [i \in 1..n |-> query[t][i].row]
           rows == {query[t][i].row : i \in DOMAIN query[t]}
<1>1. query[t] \in Seq(Request) /\ n \in Nat \ {0} /\ DOMAIN query[t] = 1..n
  BY QueriesAssumption
<1>2. \A i \in 1..n : query[t][i].row \in Rows /\ query[t][i].row \in Nat
  <2>1. \A i \in 1..n : query[t][i] \in Request
    BY <1>1
  <2> QED  BY <2>1, RowsAssumption DEF Request
<1>3. f \in [1..n -> Nat] /\ \A i \in 1..n : f[i] = query[t][i].row
  BY <1>2
<1>4. IsInjective1(f, n) /\ Image1(f, n) = rows
  BY <1>1, QueriesAssumption DEF IsInjective1, Image1
<1>5. rows \subseteq Rows
  BY <1>1, <1>2
<1> HIDE DEF f, n
<1>6. \E s \in [1..n -> rows] : Ascending(s, n)
  BY <1>1, <1>3, <1>4, SortExists
<1>7. Sorted(t) = CHOOSE s \in [1..n -> rows] : \A i, j \in DOMAIN s : i < j => s[i] < s[j]
  BY <1>1 DEF Sorted, n
<1>8. Sorted(t) \in [1..n -> rows] /\ Ascending(Sorted(t), n)
  <2> HIDE DEF rows
  <2>1. \E s \in [1..n -> rows] : \A i, j \in DOMAIN s : i < j => s[i] < s[j]
    BY <1>6 DEF Ascending
  <2>2. /\ Sorted(t) \in [1..n -> rows]
        /\ \A i, j \in DOMAIN Sorted(t) : i < j => Sorted(t)[i] < Sorted(t)[j]
    BY <2>1, <1>7
  <2> QED  BY <2>2 DEF Ascending
<1>9. \A i \in 1..n : \E j \in 1..n : Sorted(t)[j] = f[i]
  <2>1. Sorted(t) \in [1..n -> Image1(f, n)] /\ n \in Nat
    BY <1>1, <1>4, <1>8
  <2> QED  BY <2>1, <1>3, <1>4, <1>8, SortedIsOnto
<1>10. \A i \in 1..n : \E j \in 1..n : Sorted(t)[i] = query[t][j].row
  <2>1. \A i \in 1..n : Sorted(t)[i] \in rows
    BY <1>8
  <2> QED  BY <2>1, <1>1
<1>11. Sorted(t) \in [1..n -> Rows]
  <2> HIDE DEF rows
  <2> QED  BY <1>5, <1>8
<1> QED  BY <1>1, <1>2, <1>3, <1>8, <1>9, <1>10, <1>11 DEF n

LEMMA SortedInjective ==
    ASSUME NEW t, query[t] \in Queries,
           NEW i \in 1..Len(query[t]), NEW j \in 1..Len(query[t]),
           Sorted(t)[i] = Sorted(t)[j]
    PROVE  i = j
<1>1. Sorted(t)[i] \in Nat
  BY SortedFacts, RowsAssumption
<1>2. i \in Nat /\ j \in Nat
  BY SortedFacts
<1>3. Ascending(Sorted(t), Len(query[t]))
  BY SortedFacts
<1>4. ~ (i < j) /\ ~ (j < i)
  BY <1>1, <1>3 DEF Ascending
<1> QED  BY <1>2, <1>4

LEMMA SortedSame ==
    ASSUME NEW t, query'[t] = query[t]
    PROVE  Sorted(t)' = Sorted(t) /\ \A r : TypeOf(t, r)' = TypeOf(t, r)
BY DEF Sorted, TypeOf

\* TypeOf is the type of the one request for the row.
LEMMA TypeOfFacts ==
    ASSUME NEW t, query[t] \in Queries, NEW i \in 1..Len(query[t])
    PROVE  /\ TypeOf(t, query[t][i].row) = query[t][i].type
           /\ TypeOf(t, query[t][i].row) = "WR" <=>
                 query[t][i].row \in RowsOf(query[t], "WR")
<1>1. query[t] \in Seq(Request) /\ DOMAIN query[t] = 1..Len(query[t])
  BY SortedFacts
<1>2. \A j \in DOMAIN query[t] : query[t][i].row = query[t][j].row => i = j
  BY <1>1, QueriesAssumption
<1>3. (CHOOSE j \in DOMAIN query[t] : query[t][j].row = query[t][i].row) = i
  BY <1>1, <1>2
<1> QED  BY <1>1, <1>2, <1>3 DEF TypeOf, RowsOf

\* The same writers with the same entries leave the same image.
LEMMA ImageSame ==
    ASSUME order \in Seq(Entries), NEW i \in 1..(Len(order) + 1), NEW j \in Nat,
           NEW r, Writers(j, r)' = Writers(i, r),
           \A k \in 1..Len(order) : order'[k] = order[k]
    PROVE  ImageBefore(j, r)' = ImageBefore(i, r)
<1>1. CASE Writers(i, r) = {}
  BY <1>1 DEF ImageBefore
<1>2. CASE Writers(i, r) # {}
  <2>1. /\ Writers(i, r) \in SUBSET Nat /\ Len(order) \in Nat
        /\ \A x \in Writers(i, r) : x <= Len(order)
    BY DEF Writers
  <2>2. \E k \in Writers(i, r) : \A l \in Writers(i, r) : l <= k
    BY <2>1, <1>2, NatGreatest
  <2>3. PICK k \in Writers(i, r) :
           k = CHOOSE m \in Writers(i, r) : \A l \in Writers(i, r) : l <= m
    BY <2>2
  <2>4. k \in 1..Len(order)
    BY DEF Writers
  <2> QED  BY <1>2, <2>3, <2>4 DEF ImageBefore
<1> QED  BY <1>1, <1>2

\* What a commit does to the history.
LEMMA HistoryAppend ==
    ASSUME order \in Seq(Entries), NEW e \in Entries, order' = Append(order, e),
           NEW r \in Rows
    PROVE  /\ \A i \in 1..(Len(order) + 1) : ImageBefore(i, r)' = ImageBefore(i, r)
           /\ ImageBefore(Len(order) + 1, r)' =
                 IF r \in e.writes THEN Image(e.txn) ELSE ImageBefore(Len(order) + 1, r)
<1>0. PICK n \in Nat : n = Len(order)
  OBVIOUS
<1>1. /\ Len(order) = n /\ Len(order') = n + 1
      /\ \A j \in 1..n : order'[j] = order[j]
      /\ order'[n + 1] = e
  BY <1>0
<1>2. \A i \in 1..(n + 1) : Writers(i, r)' = Writers(i, r)
  BY <1>1 DEF Writers
<1>3. \A i \in 1..(n + 1) : ImageBefore(i, r)' = ImageBefore(i, r)
  BY <1>1, <1>2, ImageSame
<1>4. Writers(n + 2, r)' = IF r \in e.writes THEN Writers(n + 1, r) \cup {n + 1}
                                             ELSE Writers(n + 1, r)
  BY <1>1 DEF Writers
<1>5. CASE r \in e.writes
  <2> DEFINE W == Writers(n + 2, r)'
  <2>1. n + 1 \in W /\ \A l \in W : l \in Nat /\ l <= n + 1
    BY <1>1, <1>4, <1>5 DEF Writers
  <2>2. (CHOOSE k \in W : \A l \in W : l <= k) = n + 1
    <3>1. \A k \in W : (\A l \in W : l <= k) => k = n + 1
      BY <2>1, <1>1
    <3> HIDE DEF W
    <3> QED  BY <2>1, <3>1
  <2>3. ImageBefore(n + 2, r)' = Image(e.txn)
    BY <2>1, <2>2, <1>1 DEF ImageBefore, Image
  <2> QED  BY <2>3, <1>1, <1>3, <1>5
<1>6. CASE r \notin e.writes
  <2>1. Writers(n + 2, r)' = Writers(n + 1, r)
    BY <1>4, <1>6
  <2>2. ImageBefore(n + 2, r)' = ImageBefore(n + 1, r)
    BY <2>1, <1>1, ImageSame
  <2> QED  BY <2>2, <1>1, <1>3, <1>6
<1> QED  BY <1>3, <1>5, <1>6

LEMMA HistorySame ==
    ASSUME order' = order
    PROVE  \A i, r : ImageBefore(i, r)' = ImageBefore(i, r)
BY DEF ImageBefore, Writers, Image

----------------------------------------------------------------------------
(* The invariant.                                                          *)

Step(t) ==
    Fetch(t) \/ Access(t) \/ LatchRow(t) \/ GetEndTs(t) \/ ReturnRow(t) \/ Release(t)

LEMMA InitIInv == Init => IInv
<1> SUFFICES ASSUME Init PROVE IInv
  OBVIOUS
<1>1. NoImage \in Images /\ Image(InitVal) \in Images /\ NoReads \in [Rows -> Images]
  BY DEF NoImage, Image, Images, NoReads
<1>2. TypeOK
  BY <1>1 DEF Init, TypeOK
<1>3. PhaseInv
  BY DEF Init, PhaseInv
<1>4. LatchInv
  BY NoThreadAssumption DEF Init, LatchInv, Latched
<1>5. ValidInv /\ SeenInv
  BY DEF Init, ValidInv, SeenInv
<1>6. \A r : Writers(1, r) = {}
  BY DEF Writers
<1>7. DataInv
  BY <1>6 DEF Init, DataInv, ToWrite, ImageBefore
<1>8. Serializable
  BY DEF Init, Serializable
<1> QED  BY <1>2, <1>3, <1>4, <1>5, <1>7, <1>8 DEF IInv

\* What a transaction's step leaves alone.
LEMMA Frame ==
    ASSUME TypeOK, NEW t \in Threads, Step(t), NEW u \in Threads, u # t
    PROVE  /\ pc'[u] = pc[u] /\ query'[u] = query[u] /\ row_cnt'[u] = row_cnt[u]
           /\ lock_cnt'[u] = lock_cnt[u] /\ released'[u] = released[u]
           /\ seen'[u] = seen[u]
           /\ start_ts'[u] = start_ts[u] /\ end_ts'[u] = end_ts[u]
           /\ timestamp' >= timestamp
<1> USE DEF TypeOK
<1>1. CASE Clear(t) /\ UNCHANGED timestamp
  BY <1>1 DEF Clear, Goto
<1>2. CASE Fetch(t)
  BY <1>2 DEF Fetch, Goto
<1>3. CASE Access(t)
  BY <1>1, <1>3 DEF Access
<1>4. CASE LatchRow(t)
  BY <1>4 DEF LatchRow, Goto
<1>5. CASE GetEndTs(t)
  BY <1>5 DEF GetEndTs, Goto
<1>6. CASE ReturnRow(t)
  BY <1>6 DEF ReturnRow, Goto
<1>7. CASE Release(t)
  BY <1>1, <1>7 DEF Release
<1> QED  BY <1>2, <1>3, <1>4, <1>5, <1>6, <1>7 DEF Step

\* A row is accessed: the transaction ends, or has a copy.
Copy(t, r) ==
    /\ start_ts[t] >= wts[r]
    /\ row_cnt' = [row_cnt EXCEPT ![t] = @ + 1]
    /\ seen' = [seen EXCEPT ![t][r] = data[r]]
    /\ UNCHANGED <<pc, query, start_ts, end_ts, lock_cnt, released>>

LEMMA AccessCases ==
    ASSUME TypeOK, PhaseInv, NEW t \in Threads, Access(t)
    PROVE  /\ pc[t] = "access" /\ query[t] \in Queries
           /\ row_cnt[t] + 1 \in 1..Len(query[t])
           /\ UNCHANGED <<timestamp, latch, wts, data, starts, order>>
           /\ \E r \in Rows :
                 /\ r = query[t][row_cnt[t] + 1].row
                 /\ latch[r] = NoThread
                 /\ Clear(t) \/ Copy(t, r)
<1>1. pc[t] = "access" /\ query[t] \in Queries
  BY DEF Access, PhaseInv, TypeOK
<1>2. row_cnt[t] + 1 \in 1..Len(query[t])
  <2>1. Len(query[t]) \in Nat /\ row_cnt[t] \in Nat
    BY <1>1, SortedFacts DEF TypeOK
  <2> QED  BY <2>1 DEF Access
<1>3. query[t][row_cnt[t] + 1].row \in Rows
  BY <1>1, <1>2, SortedFacts
<1> QED  BY <1>1, <1>2, <1>3 DEF Access, Copy, rowVars

LEMMA LatchRowFacts ==
    ASSUME TypeOK, PhaseInv, NEW t \in Threads, LatchRow(t)
    PROVE  /\ pc[t] = "access" /\ query[t] \in Queries /\ released[t] = 0
           /\ row_cnt[t] = Len(query[t]) /\ lock_cnt[t] + 1 \in 1..Len(query[t])
           /\ UNCHANGED <<timestamp, wts, data, query, seen, start_ts, end_ts, released,
                          starts, order>>
           /\ lock_cnt' = [lock_cnt EXCEPT ![t] = @ + 1]
           /\ \E r \in Rows :
                 /\ r = Sorted(t)[lock_cnt[t] + 1]
                 /\ latch[r] = NoThread
                 /\ latch' = [latch EXCEPT ![r] = t]
                 /\ \/ start_ts[t] >= wts[r] /\ UNCHANGED <<pc, row_cnt>>
                    \/ pc' = [pc EXCEPT ![t] = "release"] /\ row_cnt' = [row_cnt EXCEPT ![t] = 0]
<1>1. pc[t] = "access" /\ query[t] \in Queries /\ released[t] = 0
  BY DEF LatchRow, PhaseInv, TypeOK
<1>2. row_cnt[t] = Len(query[t]) /\ lock_cnt[t] + 1 \in 1..Len(query[t])
  <2>1. Len(query[t]) \in Nat /\ lock_cnt[t] \in Nat
    BY <1>1, SortedFacts DEF TypeOK
  <2> QED  BY <2>1 DEF LatchRow
<1>3. Sorted(t)[lock_cnt[t] + 1] \in Rows
  BY <1>1, <1>2, SortedFacts
<1>4. lock_cnt' = [lock_cnt EXCEPT ![t] = @ + 1]
  BY DEF LatchRow, Counted, TypeOK
<1> QED  BY <1>1, <1>2, <1>3, <1>4 DEF LatchRow, Validate, Goto

LEMMA ReleaseFacts ==
    ASSUME TypeOK, PhaseInv, NEW t \in Threads, Release(t)
    PROVE  /\ pc[t] = "release" /\ query[t] \in Queries
           /\ released[t] + 1 \in 1..lock_cnt[t] /\ lock_cnt[t] \in 1..Len(query[t])
           /\ UNCHANGED <<timestamp, wts, data, starts, order>>
           /\ \E r \in Rows :
                 /\ r = Sorted(t)[released[t] + 1]
                 /\ latch' = [latch EXCEPT ![r] = NoThread]
           /\ \/ released[t] + 1 = lock_cnt[t] /\ Clear(t)
              \/ /\ released[t] + 1 < lock_cnt[t]
                 /\ released' = [released EXCEPT ![t] = @ + 1]
                 /\ UNCHANGED <<pc, query, row_cnt, seen, start_ts, end_ts, lock_cnt>>
<1>1. pc[t] = "release" /\ query[t] \in Queries
  BY DEF Release, PhaseInv, TypeOK
<1>2. released[t] + 1 \in 1..lock_cnt[t] /\ lock_cnt[t] \in 1..Len(query[t])
  BY <1>1 DEF PhaseInv, TypeOK
<1>3. released[t] + 1 \in 1..Len(query[t])
  <2>1. Len(query[t]) \in Nat
    BY <1>1, SortedFacts
  <2> QED  BY <2>1, <1>2
<1>4. Sorted(t)[released[t] + 1] \in Rows
  BY <1>1, <1>3, SortedFacts
<1> QED  BY <1>1, <1>2, <1>4 DEF Release

LEMMA ReturnRowFacts ==
    ASSUME TypeOK, PhaseInv, NEW t \in Threads, ReturnRow(t)
    PROVE  /\ pc[t] = "cleanup" /\ query[t] \in Queries /\ released[t] = 0
           /\ row_cnt[t] \in 1..Len(query[t]) /\ lock_cnt[t] = Len(query[t])
           /\ start_ts[t] < end_ts[t]
           /\ UNCHANGED <<timestamp, latch, query, seen, start_ts, end_ts, lock_cnt,
                          released, starts, order>>
           /\ row_cnt' = [row_cnt EXCEPT ![t] = @ - 1]
           /\ pc' = [pc EXCEPT ![t] = IF row_cnt[t] = 1 THEN "release" ELSE "cleanup"]
           /\ \E r \in Rows :
                 /\ r = Sorted(t)[row_cnt[t]]
                 /\ \/ /\ TypeOf(t, r) = "WR"
                       /\ data' = [data EXCEPT ![r] = Image(Written(t))]
                       /\ wts' = [wts EXCEPT ![r] = end_ts[t]]
                    \/ TypeOf(t, r) # "WR" /\ UNCHANGED <<data, wts>>
<1>1. pc[t] = "cleanup" /\ query[t] \in Queries /\ released[t] = 0
  BY DEF ReturnRow, PhaseInv, TypeOK
<1>2. /\ row_cnt[t] \in 1..Len(query[t]) /\ lock_cnt[t] = Len(query[t])
      /\ start_ts[t] < end_ts[t]
  BY <1>1 DEF PhaseInv
<1>3. Sorted(t)[row_cnt[t]] \in Rows
  BY <1>1, <1>2, SortedFacts
<1>4. pc' = [pc EXCEPT ![t] = IF row_cnt[t] = 1 THEN "release" ELSE "cleanup"]
  BY <1>1 DEF ReturnRow, Goto, TypeOK
<1> QED  BY <1>1, <1>2, <1>3, <1>4 DEF ReturnRow, Stamp

LEMMA GetEndTsFacts ==
    ASSUME TypeOK, PhaseInv, NEW t \in Threads, GetEndTs(t)
    PROVE  /\ pc[t] = "access" /\ query[t] \in Queries /\ released[t] = 0
           /\ row_cnt[t] = Len(query[t]) /\ lock_cnt[t] = Len(query[t])
           /\ start_ts[t] < timestamp /\ RowsOf(query[t], "WR") \in SUBSET Rows
           /\ \E e \in Entries :
                 /\ e = [txn |-> Written(t), reads |-> seen[t],
                         writes |-> RowsOf(query[t], "WR")]
                 /\ order' = Append(order, e)
<1>1. pc[t] = "access" /\ query[t] \in Queries
  BY DEF GetEndTs, PhaseInv, TypeOK
<1>2. RowsOf(query[t], "WR") \in SUBSET Rows
  <2>1. \A i \in DOMAIN query[t] : query[t][i].row \in Rows
    BY <1>1, SortedFacts
  <2> QED  BY <2>1 DEF RowsOf
<1>3. [txn |-> Written(t), reads |-> seen[t], writes |-> RowsOf(query[t], "WR")] \in Entries
  BY <1>2 DEF Entries, Written, TypeOK
<1> QED  BY <1>1, <1>2, <1>3 DEF GetEndTs, PhaseInv

LEMMA ClearType ==
    ASSUME TypeOK, NEW t \in Threads, Clear(t),
           UNCHANGED <<timestamp, wts, data, starts, order>>,
           latch' \in [Rows -> Threads \cup {NoThread}]
    PROVE  TypeOK'
<1>1. NoReads \in [Rows -> Images]
  BY DEF NoImage, Image, Images, NoReads
<1> QED  BY <1>1 DEF Clear, Goto, TypeOK

LEMMA TypeNext == TypeOK /\ PhaseInv /\ [Next]_vars => TypeOK'
<1> SUFFICES ASSUME TypeOK, PhaseInv, [Next]_vars PROVE TypeOK'
  OBVIOUS
<1>2. ASSUME NEW t \in Threads, Fetch(t) PROVE TypeOK'
  BY <1>2 DEF Fetch, Goto, rowVars, TypeOK
<1>3. ASSUME NEW t \in Threads, Access(t) PROVE TypeOK'
  <2>1. PICK r \in Rows : Clear(t) \/ Copy(t, r)
    BY <1>3, AccessCases
  <2>2. UNCHANGED <<timestamp, latch, wts, data, starts, order>>
    BY <1>3, AccessCases
  <2>3. CASE Clear(t)
    BY <2>2, <2>3, ClearType DEF TypeOK
  <2>4. CASE Copy(t, r)
    BY <2>2, <2>4 DEF Copy, TypeOK
  <2> QED  BY <2>1, <2>3, <2>4
<1>4. ASSUME NEW t \in Threads, LatchRow(t) PROVE TypeOK'
  <2>1. /\ UNCHANGED <<timestamp, wts, data, query, seen, start_ts, end_ts, released,
                       starts, order>>
        /\ lock_cnt' = [lock_cnt EXCEPT ![t] = @ + 1]
        /\ \E r \in Rows : latch' = [latch EXCEPT ![r] = t]
    BY <1>4, LatchRowFacts
  <2>2. \/ UNCHANGED <<pc, row_cnt>>
        \/ pc' = [pc EXCEPT ![t] = "release"] /\ row_cnt' = [row_cnt EXCEPT ![t] = 0]
    BY <1>4, LatchRowFacts
  <2>3. /\ pc' \in [Threads -> {"fetch", "access", "cleanup", "release"}]
        /\ row_cnt' \in [Threads -> Nat]
    <3>1. CASE UNCHANGED <<pc, row_cnt>>
      BY <3>1 DEF TypeOK
    <3>2. CASE /\ pc' = [pc EXCEPT ![t] = "release"]
               /\ row_cnt' = [row_cnt EXCEPT ![t] = 0]
      BY <3>2 DEF TypeOK
    <3> QED  BY <2>2, <3>1, <3>2
  <2>4. /\ latch' \in [Rows -> Threads \cup {NoThread}]
        /\ lock_cnt' \in [Threads -> Nat]
    BY <2>1 DEF TypeOK
  <2> QED  BY <2>1, <2>3, <2>4 DEF TypeOK
<1>5. ASSUME NEW t \in Threads, GetEndTs(t) PROVE TypeOK'
  <2>1. \E e \in Entries : order' = Append(order, e)
    BY <1>5, GetEndTsFacts
  <2>2. order' \in Seq(Entries)
    BY <2>1 DEF TypeOK
  <2> QED  BY <1>5, <2>2 DEF GetEndTs, Goto, rowVars, TypeOK
<1>6. ASSUME NEW t \in Threads, ReturnRow(t) PROVE TypeOK'
  <2>1. Image(Written(t)) \in Images
    BY DEF Image, Images, Written, TypeOK
  <2>2. row_cnt[t] - 1 \in Nat
    BY <1>6 DEF ReturnRow, PhaseInv, TypeOK
  <2>3. /\ UNCHANGED <<timestamp, latch, query, seen, start_ts, end_ts, lock_cnt,
                       released, starts, order>>
        /\ row_cnt' = [row_cnt EXCEPT ![t] = @ - 1]
        /\ pc' = [pc EXCEPT ![t] = IF row_cnt[t] = 1 THEN "release" ELSE "cleanup"]
    BY <1>6, ReturnRowFacts
  <2>4. \E r \in Rows : \/ /\ data' = [data EXCEPT ![r] = Image(Written(t))]
                           /\ wts' = [wts EXCEPT ![r] = end_ts[t]]
                        \/ UNCHANGED <<data, wts>>
    BY <1>6, ReturnRowFacts
  <2> QED  BY <2>1, <2>2, <2>3, <2>4 DEF TypeOK
<1>7. ASSUME NEW t \in Threads, Release(t) PROVE TypeOK'
  <2>1. CASE Clear(t)
    <3>1. /\ UNCHANGED <<timestamp, wts, data, starts, order>>
          /\ \E r \in Rows : latch' = [latch EXCEPT ![r] = NoThread]
      BY <1>7, ReleaseFacts
    <3>2. latch' \in [Rows -> Threads \cup {NoThread}]
      BY <3>1 DEF TypeOK
    <3> QED  BY <2>1, <3>1, <3>2, ClearType
  <2>2. CASE /\ released' = [released EXCEPT ![t] = @ + 1]
             /\ UNCHANGED <<pc, query, row_cnt, seen, start_ts, end_ts, lock_cnt>>
    <3>1. /\ UNCHANGED <<timestamp, wts, data, starts, order>>
          /\ \E r \in Rows : latch' = [latch EXCEPT ![r] = NoThread]
      BY <1>7, ReleaseFacts
    <3> QED  BY <2>2, <3>1 DEF TypeOK
  <2> QED  BY <1>7, <2>1, <2>2, ReleaseFacts
<1>8. CASE UNCHANGED vars
  BY <1>8 DEF vars, rowVars, txnVars, TypeOK
<1> QED  BY <1>2, <1>3, <1>4, <1>5, <1>6, <1>7, <1>8 DEF Next, Terminated

LEMMA PhaseNext == TypeOK /\ PhaseInv /\ [Next]_vars => PhaseInv'
<1> SUFFICES ASSUME TypeOK, PhaseInv, [Next]_vars PROVE PhaseInv'
  OBVIOUS
<1> DEFINE P(t) ==
        /\ pc[t] = "fetch" <=> query[t] = << >>
        /\ pc[t] = "fetch" =>
              row_cnt[t] = 0 /\ lock_cnt[t] = 0 /\ released[t] = 0 /\ seen[t] = NoReads
        /\ pc[t] # "fetch" => start_ts[t] < timestamp
        /\ pc[t] = "access" =>
              /\ row_cnt[t] <= Len(query[t])
              /\ lock_cnt[t] <= row_cnt[t] /\ released[t] = 0
              /\ lock_cnt[t] > 0 => row_cnt[t] = Len(query[t])
        /\ pc[t] = "cleanup" =>
              /\ row_cnt[t] \in 1..Len(query[t])
              /\ lock_cnt[t] = Len(query[t]) /\ released[t] = 0
              /\ start_ts[t] < end_ts[t]
        /\ pc[t] = "release" =>
              lock_cnt[t] \in 1..Len(query[t]) /\ released[t] < lock_cnt[t]
<1>0. << >> \notin Queries /\ \A q \in Queries : Len(q) \in Nat \ {0}
  BY QueriesAssumption
<1>1. ASSUME NEW t \in Threads, Step(t), P(t)' PROVE PhaseInv'
  <2> SUFFICES ASSUME NEW u \in Threads, u # t PROVE P(u)'
    BY <1>1 DEF PhaseInv
  <2>1. P(u)
    BY DEF PhaseInv
  <2>2. timestamp \in Nat /\ timestamp' >= timestamp /\ start_ts[u] \in Nat /\ timestamp' \in Nat
    BY <1>1, Frame, TypeNext DEF TypeOK
  <2> QED  BY <1>1, <2>1, <2>2, Frame
<1>2. ASSUME NEW t \in Threads, Clear(t) PROVE P(t)'
  BY <1>2 DEF Clear, Goto, TypeOK
<1>3. ASSUME NEW t \in Threads, Fetch(t) PROVE P(t)'
  BY <1>0, <1>3 DEF Fetch, Goto, TypeOK, PhaseInv
<1>4. ASSUME NEW t \in Threads, Access(t) PROVE P(t)'
  <2>1. PICK r \in Rows : Clear(t) \/ Copy(t, r)
    BY <1>4, AccessCases
  <2>2. CASE Copy(t, r)
    <3>1. /\ pc[t] = "access" /\ query[t] \in Queries /\ UNCHANGED timestamp
          /\ row_cnt[t] + 1 \in 1..Len(query[t])
      BY <1>4, AccessCases
    <3>2. Len(query[t]) \in Nat /\ row_cnt[t] \in Nat /\ lock_cnt[t] \in Nat
      BY <1>0, <3>1 DEF TypeOK
    <3> QED  BY <2>2, <3>1, <3>2 DEF Copy, PhaseInv, TypeOK
  <2> QED  BY <1>2, <2>1, <2>2
<1>5. ASSUME NEW t \in Threads, LatchRow(t) PROVE P(t)'
  <2>1. Len(query[t]) \in Nat
    BY <1>0, <1>5 DEF LatchRow, PhaseInv, TypeOK
  <2> QED  BY <1>5, <2>1 DEF LatchRow, Goto, Counted, Validate, TypeOK, PhaseInv
<1>6. ASSUME NEW t \in Threads, GetEndTs(t) PROVE P(t)'
  <2>1. Len(query[t]) \in Nat \ {0}
    BY <1>0, <1>6 DEF GetEndTs, PhaseInv, TypeOK
  <2> QED  BY <1>6, <2>1 DEF GetEndTs, Goto, TypeOK, PhaseInv
<1>7. ASSUME NEW t \in Threads, ReturnRow(t) PROVE P(t)'
  <2>1. Len(query[t]) \in Nat \ {0}
    BY <1>0, <1>7 DEF ReturnRow, PhaseInv, TypeOK
  <2> QED  BY <1>7, <2>1 DEF ReturnRow, Goto, TypeOK, PhaseInv
<1>8. ASSUME NEW t \in Threads, Release(t) PROVE P(t)'
  <2>1. CASE Clear(t)
    BY <1>2, <2>1
  <2>2. CASE UNCHANGED <<pc, query, row_cnt, seen, start_ts, end_ts, lock_cnt>>
    BY <1>8, <2>2 DEF Release, TypeOK, PhaseInv, Clear, Goto
  <2> QED  BY <1>8, <2>1, <2>2 DEF Release
<1>9. CASE UNCHANGED vars
  BY <1>9 DEF vars, rowVars, txnVars, PhaseInv
<1> HIDE DEF P
<1> QED  BY <1>1, <1>3, <1>4, <1>5, <1>6, <1>7, <1>8, <1>9 DEF Next, Terminated, Step

LEMMA LatchedSame ==
    ASSUME NEW u, query'[u] = query[u], lock_cnt'[u] = lock_cnt[u],
           released'[u] = released[u]
    PROVE  Latched(u)' = Latched(u)
BY SortedSame DEF Latched

LEMMA LatchNext == TypeOK /\ PhaseInv /\ LatchInv /\ [Next]_vars => LatchInv'
<1> SUFFICES ASSUME TypeOK, PhaseInv, LatchInv, [Next]_vars PROVE LatchInv'
  OBVIOUS
\* Other transactions keep the latches they have.
<1>1. ASSUME NEW t \in Threads, Step(t),
             \A r \in Rows : latch'[r] = t <=> r \in Latched(t)',
             \A r \in Rows : latch'[r] = latch[r]
                             \/ (latch[r] \in {t, NoThread} /\ latch'[r] \in {t, NoThread})
      PROVE  LatchInv'
  <2> SUFFICES ASSUME NEW r \in Rows, NEW u \in Threads, u # t
               PROVE  latch'[r] = u <=> r \in Latched(u)'
    BY <1>1 DEF LatchInv
  <2>1. Latched(u)' = Latched(u)
    BY <1>1, Frame, LatchedSame
  <2>2. latch[r] = u <=> r \in Latched(u)
    BY DEF LatchInv
  <2> QED  BY <1>1, <2>1, <2>2, NoThreadAssumption
<1>2. ASSUME NEW t \in Threads, lock_cnt[t] = 0, lock_cnt'[t] = 0,
             released[t] = 0, released'[t] = 0, latch' = latch, Step(t)
      PROVE  LatchInv'
  <2>1. Latched(t) = {} /\ Latched(t)' = {}
    BY <1>2 DEF Latched
  <2>2. \A r \in Rows : latch'[r] = t <=> r \in Latched(t)'
    BY <1>2, <2>1 DEF LatchInv
  <2> QED  BY <1>1, <1>2, <2>2
<1>3. ASSUME NEW t \in Threads, latch' = latch, UNCHANGED <<query, lock_cnt, released>>,
             Step(t)
      PROVE  LatchInv'
  <2>1. Latched(t)' = Latched(t)
    BY <1>3, LatchedSame
  <2>2. \A r \in Rows : latch'[r] = t <=> r \in Latched(t)'
    BY <1>3, <2>1 DEF LatchInv
  <2> QED  BY <1>1, <1>3, <2>2
<1>4. ASSUME NEW t \in Threads, Fetch(t) PROVE LatchInv'
  BY <1>2, <1>4 DEF Fetch, PhaseInv, Step, rowVars
<1>5. ASSUME NEW t \in Threads, Access(t) PROVE LatchInv'
  <2>1. lock_cnt[t] = 0 /\ released[t] = 0
    <3>1. pc[t] = "access" /\ row_cnt[t] + 1 \in 1..Len(query[t])
      BY <1>5, AccessCases
    <3>2. lock_cnt[t] \in Nat /\ row_cnt[t] \in Nat
      BY DEF TypeOK
    <3> QED  BY <3>1, <3>2 DEF PhaseInv
  <2>2. PICK r \in Rows : Clear(t) \/ Copy(t, r)
    BY <1>5, AccessCases
  <2>3. lock_cnt'[t] = 0 /\ released'[t] = 0
    BY <2>1, <2>2 DEF Clear, Copy, TypeOK
  <2>4. latch' = latch
    BY <1>5, AccessCases
  <2> QED  BY <1>2, <1>5, <2>1, <2>3, <2>4 DEF Step
<1>6. ASSUME NEW t \in Threads, LatchRow(t) PROVE LatchInv'
  <2> DEFINE k == lock_cnt[t]
  <2>1. /\ query[t] \in Queries /\ released[t] = 0 /\ k + 1 \in 1..Len(query[t])
        /\ query' = query /\ released' = released
        /\ lock_cnt' = [lock_cnt EXCEPT ![t] = @ + 1]
    BY <1>6, LatchRowFacts
  <2>2. PICK r \in Rows : /\ r = Sorted(t)[k + 1] /\ latch[r] = NoThread
                          /\ latch' = [latch EXCEPT ![r] = t]
    BY <1>6, LatchRowFacts
  <2>3. lock_cnt'[t] = k + 1 /\ k \in Nat /\ Sorted(t)' = Sorted(t)
    BY <2>1, SortedSame DEF TypeOK
  <2>4. Latched(t)' = Latched(t) \cup {r}
    BY <2>1, <2>2, <2>3 DEF Latched
  <2>5. \A s \in Rows : latch'[s] = IF s = r THEN t ELSE latch[s]
    BY <2>2 DEF TypeOK
  <2>6. \A s \in Rows : latch'[s] = t <=> s \in Latched(t)'
    BY <2>2, <2>4, <2>5, NoThreadAssumption DEF LatchInv
  <2>7. \A s \in Rows : latch'[s] = latch[s]
                         \/ (latch[s] \in {t, NoThread} /\ latch'[s] \in {t, NoThread})
    BY <2>2, <2>5
  <2>8. Step(t)
    BY <1>6 DEF Step
  <2> QED  BY <1>1, <2>6, <2>7, <2>8
<1>7. ASSUME NEW t \in Threads, GetEndTs(t) PROVE LatchInv'
  BY <1>3, <1>7 DEF GetEndTs, Step, rowVars
<1>8. ASSUME NEW t \in Threads, ReturnRow(t) PROVE LatchInv'
  BY <1>3, <1>8 DEF ReturnRow, Step
<1>9. ASSUME NEW t \in Threads, Release(t) PROVE LatchInv'
  <2> DEFINE k == released[t] + 1
  <2>1. query[t] \in Queries /\ k \in 1..lock_cnt[t] /\ lock_cnt[t] \in 1..Len(query[t])
    BY <1>9, ReleaseFacts
  <2>2. PICK r \in Rows : r = Sorted(t)[k] /\ latch' = [latch EXCEPT ![r] = NoThread]
    BY <1>9, ReleaseFacts
  <2>3. /\ Len(query[t]) \in Nat /\ lock_cnt[t] \in Nat /\ released[t] \in Nat
        /\ \A i \in k..lock_cnt[t] : i \in 1..Len(query[t])
    BY <2>1, SortedFacts DEF TypeOK
  <2>4. r \in Latched(t)
    BY <2>1, <2>2, <2>3 DEF Latched
  <2>5. Latched(t)' = Latched(t) \ {r}
    <3>1. CASE k = lock_cnt[t] /\ Clear(t)
      <4>1. Latched(t)' = {}
        BY <3>1 DEF Clear, Latched, TypeOK
      <4>2. Latched(t) = {r}
        BY <3>1, <2>2, <2>3 DEF Latched
      <4> QED  BY <4>1, <4>2
    <3>2. CASE /\ k < lock_cnt[t] /\ released' = [released EXCEPT ![t] = @ + 1]
               /\ UNCHANGED <<query, lock_cnt>>
      <4>1. released'[t] = k /\ lock_cnt'[t] = lock_cnt[t] /\ Sorted(t)' = Sorted(t)
        BY <3>2, SortedSame DEF TypeOK
      <4>2. \A i \in (k + 1)..lock_cnt[t] : Sorted(t)[i] # r
        BY <2>1, <2>2, <2>3, SortedInjective
      <4>3. Latched(t)' = {Sorted(t)[i] : i \in (k + 1)..lock_cnt[t]}
        BY <4>1 DEF Latched
      <4>4. k..lock_cnt[t] = {k} \cup (k + 1)..lock_cnt[t]
        BY <2>3, <3>2
      <4> QED  BY <4>2, <4>3, <4>4, <2>2 DEF Latched
    <3> QED  BY <1>9, <3>1, <3>2, ReleaseFacts
  <2>6. latch[r] = t
    BY <2>4 DEF LatchInv
  <2>7. \A s \in Rows : latch'[s] = IF s = r THEN NoThread ELSE latch[s]
    BY <2>2 DEF TypeOK
  <2>8. \A s \in Rows : latch'[s] = t <=> s \in Latched(t)'
    BY <2>5, <2>7, NoThreadAssumption DEF LatchInv
  <2>9. \A s \in Rows : latch'[s] = latch[s]
                         \/ (latch[s] \in {t, NoThread} /\ latch'[s] \in {t, NoThread})
    BY <2>6, <2>7
  <2>10. Step(t)
    BY <1>9 DEF Step
  <2> QED  BY <1>1, <2>8, <2>9, <2>10
<1>10. CASE UNCHANGED vars
  <2>1. \A u \in Threads : Latched(u)' = Latched(u)
    BY <1>10, LatchedSame DEF vars, txnVars
  <2> QED  BY <1>10, <2>1 DEF vars, rowVars, LatchInv
<1> QED  BY <1>4, <1>5, <1>6, <1>7, <1>8, <1>9, <1>10 DEF Next, Terminated

\* A row that a transaction has validated, or is yet to write, is its own.
LEMMA OwnRows ==
    ASSUME TypeOK, PhaseInv, LatchInv, NEW t \in Threads,
           pc[t] \in {"access", "cleanup"}, NEW i \in 1..lock_cnt[t]
    PROVE  /\ query[t] \in Queries /\ i \in 1..Len(query[t])
           /\ Sorted(t)[i] \in Rows /\ latch[Sorted(t)[i]] = t
<1>1. query[t] \in Queries /\ released[t] = 0
  BY DEF PhaseInv, TypeOK
<1>2. Len(query[t]) \in Nat /\ lock_cnt[t] \in Nat /\ row_cnt[t] \in Nat
  BY <1>1, SortedFacts DEF TypeOK
<1>3. i \in 1..Len(query[t])
  BY <1>2 DEF PhaseInv
<1>4. Sorted(t)[i] \in Rows
  BY <1>1, <1>3, SortedFacts
<1>5. Sorted(t)[i] \in Latched(t)
  BY <1>1, <1>2 DEF Latched
<1> QED  BY <1>1, <1>3, <1>4, <1>5 DEF LatchInv

LEMMA ValidNext ==
    TypeOK /\ PhaseInv /\ LatchInv /\ ValidInv /\ [Next]_vars => ValidInv'
<1> SUFFICES ASSUME TypeOK, PhaseInv, LatchInv, ValidInv, [Next]_vars PROVE ValidInv'
  OBVIOUS
<1> DEFINE V(t) ==
        /\ pc[t] = "access" =>
              \A i \in 1..lock_cnt[t] : wts[Sorted(t)[i]] <= start_ts[t]
        /\ pc[t] = "cleanup" =>
              \A i \in 1..row_cnt[t] : wts[Sorted(t)[i]] <= start_ts[t]
\* Nobody else writes them.
<1>1. ASSUME NEW t \in Threads, Step(t), V(t)',
             \A r \in Rows : latch[r] = t \/ wts'[r] = wts[r]
      PROVE  ValidInv'
  <2> SUFFICES ASSUME NEW u \in Threads, u # t PROVE V(u)'
    BY <1>1 DEF ValidInv
  <2>1. /\ pc'[u] = pc[u] /\ lock_cnt'[u] = lock_cnt[u] /\ row_cnt'[u] = row_cnt[u]
        /\ start_ts'[u] = start_ts[u] /\ Sorted(u)' = Sorted(u)
    BY <1>1, Frame, SortedSame
  <2>2. ASSUME pc[u] \in {"access", "cleanup"}, NEW i \in 1..lock_cnt[u]
        PROVE  wts'[Sorted(u)[i]] = wts[Sorted(u)[i]]
    BY <1>1, <2>2, OwnRows
  <2>3. CASE pc[u] = "access"
    BY <2>1, <2>2, <2>3 DEF ValidInv
  <2>4. CASE pc[u] = "cleanup"
    <3>1. \A i \in 1..row_cnt[u] : i \in 1..lock_cnt[u]
      BY <2>4 DEF PhaseInv, TypeOK
    <3> QED  BY <2>1, <2>2, <2>4, <3>1 DEF ValidInv
  <2> QED  BY <2>1, <2>3, <2>4
<1>2. ASSUME NEW t \in Threads, Fetch(t) PROVE ValidInv'
  <2>1. V(t)'
    BY <1>2 DEF Fetch, Goto, PhaseInv, TypeOK
  <2> QED  BY <1>1, <1>2, <2>1 DEF Fetch, Step, rowVars
<1>3. ASSUME NEW t \in Threads, Access(t) PROVE ValidInv'
  <2>1. PICK r \in Rows : Clear(t) \/ Copy(t, r)
    BY <1>3, AccessCases
  <2>2. wts' = wts /\ pc[t] = "access"
    BY <1>3, AccessCases
  <2>3. CASE Clear(t)
    <3>1. pc'[t] = "fetch"
      BY <2>3 DEF Clear, Goto, TypeOK
    <3> QED  BY <1>1, <1>3, <2>2, <3>1 DEF Step
  <2>4. CASE Copy(t, r)
    <3>1. Sorted(t)' = Sorted(t)
      BY <2>4, SortedSame DEF Copy
    <3>2. V(t)'
      BY <2>2, <2>4, <3>1 DEF Copy, ValidInv
    <3> QED  BY <1>1, <1>3, <2>2, <3>2 DEF Step
  <2> QED  BY <2>1, <2>3, <2>4
<1>4. ASSUME NEW t \in Threads, LatchRow(t) PROVE ValidInv'
  <2>1. /\ pc[t] = "access" /\ UNCHANGED <<query, wts, start_ts>>
        /\ lock_cnt' = [lock_cnt EXCEPT ![t] = @ + 1]
    BY <1>4, LatchRowFacts
  <2>2. PICK r \in Rows :
           /\ r = Sorted(t)[lock_cnt[t] + 1]
           /\ \/ start_ts[t] >= wts[r] /\ UNCHANGED <<pc, row_cnt>>
              \/ pc' = [pc EXCEPT ![t] = "release"]
    BY <1>4, LatchRowFacts
  <2>3. Sorted(t)' = Sorted(t) /\ lock_cnt'[t] = lock_cnt[t] + 1 /\ lock_cnt[t] \in Nat
    BY <2>1, SortedSame DEF TypeOK
  <2>4. \A i \in 1..lock_cnt'[t] : i \in 1..lock_cnt[t] \/ i = lock_cnt[t] + 1
    BY <2>3
  <2>5. V(t)'
    <3>1. CASE start_ts[t] >= wts[r] /\ UNCHANGED pc
      <4>1. wts[r] <= start_ts[t]
        BY <3>1 DEF TypeOK
      <4>2. \A i \in 1..lock_cnt[t] : wts[Sorted(t)[i]] <= start_ts[t]
        BY <2>1 DEF ValidInv
      <4> QED  BY <2>1, <2>2, <2>3, <2>4, <3>1, <4>1, <4>2
    <3>2. CASE pc' = [pc EXCEPT ![t] = "release"]
      BY <3>2 DEF TypeOK
    <3> QED  BY <2>2, <3>1, <3>2
  <2> QED  BY <1>1, <1>4, <2>1, <2>5 DEF Step
<1>5. ASSUME NEW t \in Threads, GetEndTs(t) PROVE ValidInv'
  <2>1. pc[t] = "access" /\ row_cnt[t] = lock_cnt[t]
    BY <1>5 DEF GetEndTs
  <2>2. /\ UNCHANGED <<wts, query, start_ts, row_cnt, lock_cnt>>
        /\ pc'[t] = "cleanup" /\ Sorted(t)' = Sorted(t)
    BY <1>5, SortedSame DEF GetEndTs, Goto, rowVars, TypeOK
  <2>3. V(t)'
    BY <2>1, <2>2 DEF ValidInv
  <2> QED  BY <1>1, <1>5, <2>2, <2>3 DEF Step
<1>6. ASSUME NEW t \in Threads, ReturnRow(t) PROVE ValidInv'
  <2> DEFINE k == row_cnt[t]
  <2>1. /\ pc[t] = "cleanup" /\ query[t] \in Queries
        /\ k \in 1..Len(query[t]) /\ lock_cnt[t] = Len(query[t])
        /\ UNCHANGED <<query, start_ts>>
        /\ row_cnt' = [row_cnt EXCEPT ![t] = @ - 1]
        /\ pc' = [pc EXCEPT ![t] = IF row_cnt[t] = 1 THEN "release" ELSE "cleanup"]
    BY <1>6, ReturnRowFacts
  <2>2. PICK r \in Rows :
           r = Sorted(t)[k] /\ (wts' = [wts EXCEPT ![r] = end_ts[t]] \/ wts' = wts)
    BY <1>6, ReturnRowFacts
  <2>3. \A s \in Rows : s = r \/ wts'[s] = wts[s]
    BY <2>2 DEF TypeOK
  <2>4. latch[r] = t
    BY <2>1, <2>2, OwnRows
  <2>5. V(t)'
    <3>1. Sorted(t)' = Sorted(t) /\ row_cnt'[t] = k - 1 /\ Len(query[t]) \in Nat
      BY <2>1, SortedSame, SortedFacts DEF TypeOK
    <3>2. pc'[t] \in {"release", "cleanup"}
      BY <2>1 DEF TypeOK
    <3>3. ASSUME NEW i \in 1..(k - 1)
          PROVE  wts'[Sorted(t)[i]] <= start_ts[t]
      <4>1. i \in 1..Len(query[t]) /\ i # k /\ i \in 1..k
        BY <2>1, <3>1
      <4>2. Sorted(t)[i] # r /\ Sorted(t)[i] \in Rows
        BY <2>1, <2>2, <4>1, SortedInjective, SortedFacts
      <4> QED  BY <2>1, <2>3, <4>1, <4>2 DEF ValidInv
    <3> QED  BY <2>1, <3>1, <3>2, <3>3
  <2> QED  BY <1>1, <1>6, <2>3, <2>4, <2>5 DEF Step
<1>7. ASSUME NEW t \in Threads, Release(t) PROVE ValidInv'
  <2>1. pc[t] = "release" /\ wts' = wts /\ (Clear(t) \/ pc' = pc)
    BY <1>7, ReleaseFacts
  <2>2. pc'[t] \in {"fetch", "release"}
    BY <2>1 DEF Clear, Goto, TypeOK
  <2> QED  BY <1>1, <1>7, <2>1, <2>2 DEF Step
<1>8. CASE UNCHANGED vars
  <2>1. \A u \in Threads : Sorted(u)' = Sorted(u)
    BY <1>8, SortedSame DEF vars, txnVars
  <2> QED  BY <1>8, <2>1 DEF vars, rowVars, txnVars, ValidInv
<1> QED  BY <1>2, <1>3, <1>4, <1>5, <1>6, <1>7, <1>8 DEF Next, Terminated

LEMMA CopiedSame ==
    ASSUME NEW u, query'[u] = query[u], row_cnt'[u] = row_cnt[u]
    PROVE  Copied(u)' = Copied(u)
BY DEF Copied

LEMMA CopiedRows ==
    ASSUME TypeOK, PhaseInv, NEW t \in Threads, pc[t] = "access"
    PROVE  /\ query[t] \in Queries /\ Copied(t) \in SUBSET Rows
           /\ Len(query[t]) \in Nat /\ row_cnt[t] \in 0..Len(query[t])
<1>1. query[t] \in Queries
  BY DEF PhaseInv, TypeOK
<1>2. Len(query[t]) \in Nat /\ row_cnt[t] \in 0..Len(query[t])
  BY <1>1, SortedFacts DEF PhaseInv, TypeOK
<1>3. \A i \in 1..row_cnt[t] : query[t][i].row \in Rows
  BY <1>1, <1>2, SortedFacts
<1> QED  BY <1>1, <1>2, <1>3 DEF Copied

LEMMA SeenNext ==
    TypeOK /\ PhaseInv /\ LatchInv /\ SeenInv /\ [Next]_vars => SeenInv'
<1> SUFFICES ASSUME TypeOK, PhaseInv, LatchInv, SeenInv, [Next]_vars PROVE SeenInv'
  OBVIOUS
<1> DEFINE A(t, r) == wts[r] > start_ts[t] \/ seen[t][r] = data[r]
           B(t, r) == \A u \in Threads : pc[u] = "cleanup" /\ latch[r] = u
                                            => end_ts[u] > start_ts[t]
           C(t) == \A r \in Rows \ Copied(t) : seen[t][r] = NoImage
           S(t) == pc[t] = "access" => (\A r \in Copied(t) : A(t, r) /\ B(t, r)) /\ C(t)
<1>0. \A u \in Threads : S(u)
  BY DEF SeenInv
\* What the others have copied stays right, or is given away.
<1>1. ASSUME NEW t \in Threads, Step(t), S(t)',
             \A r \in Rows : \/ wts'[r] = wts[r] /\ data'[r] = data[r]
                             \/ pc[t] = "cleanup" /\ latch[r] = t /\ wts'[r] = end_ts[t],
             \A r \in Rows : latch'[r] = latch[r] \/ latch'[r] \in {t, NoThread},
             pc'[t] = "cleanup" =>
                /\ latch' = latch
                /\ \/ pc[t] = "cleanup" /\ end_ts'[t] = end_ts[t]
                   \/ end_ts'[t] = timestamp
      PROVE  SeenInv'
  <2> SUFFICES ASSUME NEW u \in Threads, u # t, pc'[u] = "access" PROVE S(u)'
    BY <1>1 DEF SeenInv
  <2>1. /\ pc[u] = "access" /\ seen'[u] = seen[u] /\ start_ts'[u] = start_ts[u]
        /\ Copied(u)' = Copied(u)
    BY <1>1, Frame, CopiedSame
  <2>2. Copied(u) \in SUBSET Rows
    BY <2>1, CopiedRows
  <2>3. ASSUME NEW r \in Copied(u) PROVE A(u, r)'
    <3>1. r \in Rows /\ A(u, r) /\ B(u, r)
      BY <1>0, <2>1, <2>2
    <3> QED  BY <1>1, <2>1, <3>1
  <2>4. ASSUME NEW r \in Copied(u) PROVE B(u, r)'
    <3>1. r \in Rows /\ B(u, r)
      BY <1>0, <2>1, <2>2
    <3> SUFFICES ASSUME NEW v \in Threads, pc'[v] = "cleanup", latch'[r] = v
                 PROVE  end_ts'[v] > start_ts'[u]
      OBVIOUS
    <3>2. CASE v = t
      <4>1. timestamp \in Nat /\ start_ts[u] \in Nat /\ start_ts[u] < timestamp
        BY <2>1 DEF PhaseInv, TypeOK
      <4>2. latch[r] = t
        BY <1>1, <3>2
      <4> QED  BY <1>1, <2>1, <3>1, <3>2, <4>1, <4>2
    <3>3. CASE v # t
      <4>1. pc'[v] = pc[v] /\ end_ts'[v] = end_ts[v]
        BY <1>1, <3>3, Frame
      <4>2. latch[r] = v
        BY <1>1, <3>1, <3>3, NoThreadAssumption
      <4> QED  BY <2>1, <3>1, <4>1, <4>2
    <3> QED  BY <3>2, <3>3
  <2>5. C(u)'
    BY <1>0, <2>1
  <2> HIDE DEF A, B, C
  <2> QED  BY <2>1, <2>3, <2>4, <2>5
<1>2. ASSUME NEW t \in Threads, Fetch(t) PROVE SeenInv'
  <2>1. /\ pc'[t] = "access" /\ UNCHANGED <<wts, data, latch, row_cnt, seen>>
        /\ row_cnt[t] = 0 /\ seen[t] = NoReads
    BY <1>2 DEF Fetch, Goto, rowVars, PhaseInv, TypeOK
  <2>2. Copied(t)' = {}
    BY <2>1 DEF Copied
  <2>3. S(t)'
    BY <2>1, <2>2 DEF NoReads, NoImage, Image
  <2> HIDE DEF S
  <2>4. Step(t)
    BY <1>2 DEF Step
  <2> QED  BY <1>1, <2>1, <2>3, <2>4
<1>3. ASSUME NEW t \in Threads, Access(t) PROVE SeenInv'
  <2>1. PICK r \in Rows : /\ r = query[t][row_cnt[t] + 1].row
                          /\ latch[r] = NoThread
                          /\ Clear(t) \/ Copy(t, r)
    BY <1>3, AccessCases
  <2>2. /\ pc[t] = "access" /\ UNCHANGED <<latch, wts, data>>
    BY <1>3, AccessCases
  <2>3. S(t)' /\ pc'[t] # "cleanup"
    <3>1. CASE Clear(t)
      BY <3>1 DEF Clear, Goto, TypeOK
    <3>2. CASE Copy(t, r)
      <4>1. /\ UNCHANGED <<pc, query, start_ts, end_ts>> /\ row_cnt'[t] = row_cnt[t] + 1
            /\ seen'[t] = [seen[t] EXCEPT ![r] = data[r]] /\ seen[t] \in [Rows -> Images]
            /\ row_cnt[t] \in Nat
        BY <3>2 DEF Copy, TypeOK
      <4>2. Copied(t)' = Copied(t) \cup {r} /\ Copied(t) \in SUBSET Rows
        <5>1. Copied(t) \in SUBSET Rows
          BY <2>2, CopiedRows
        <5>2. 1..row_cnt'[t] = 1..row_cnt[t] \cup {row_cnt[t] + 1}
          BY <4>1
        <5>3. Copied(t)' = {query[t][i].row : i \in 1..row_cnt'[t]}
          BY <4>1 DEF Copied
        <5> QED  BY <2>1, <5>1, <5>2, <5>3 DEF Copied
      <4>3. ASSUME NEW s \in Copied(t)' PROVE A(t, s)' /\ B(t, s)'
        <5>1. CASE s = r
          <6>1. B(t, s)'
            <7> SUFFICES ASSUME NEW u \in Threads, latch'[s] = u PROVE FALSE
              OBVIOUS
            <7> QED  BY <2>1, <2>2, <5>1, NoThreadAssumption
          <6> QED  BY <2>1, <2>2, <4>1, <5>1, <6>1
        <5>2. CASE s \in Copied(t) /\ s # r
          <6>1. A(t, s) /\ B(t, s)
            BY <1>0, <2>2, <5>2
          <6> QED  BY <2>2, <4>1, <4>2, <5>2, <6>1
        <5> QED  BY <4>2, <5>1, <5>2
      <4>4. C(t)'
        BY <1>0, <2>2, <4>1, <4>2
      <4>5. pc'[t] = "access"
        BY <2>2, <4>1
      <4> HIDE DEF A, B, C
      <4> QED  BY <4>3, <4>4, <4>5
    <3> QED  BY <2>1, <3>1, <3>2
  <2> HIDE DEF S
  <2>4. Step(t)
    BY <1>3 DEF Step
  <2> QED  BY <1>1, <2>2, <2>3, <2>4
<1>4. ASSUME NEW t \in Threads, LatchRow(t) PROVE SeenInv'
  <2>1. /\ pc[t] = "access" /\ UNCHANGED <<wts, data, query, seen, start_ts, end_ts>>
    BY <1>4, LatchRowFacts
  <2>2. PICK r \in Rows :
           /\ latch[r] = NoThread /\ latch' = [latch EXCEPT ![r] = t]
           /\ \/ UNCHANGED <<pc, row_cnt>>
              \/ pc' = [pc EXCEPT ![t] = "release"]
    BY <1>4, LatchRowFacts
  <2>3. \A s \in Rows : latch'[s] = IF s = r THEN t ELSE latch[s]
    BY <2>2 DEF TypeOK
  <2>4. S(t)' /\ pc'[t] # "cleanup"
    <3>1. CASE UNCHANGED <<pc, row_cnt>>
      <4>1. Copied(t)' = Copied(t) /\ Copied(t) \in SUBSET Rows
        BY <2>1, <3>1, CopiedSame, CopiedRows
      <4>2. ASSUME NEW s \in Copied(t) PROVE A(t, s)' /\ B(t, s)'
        <5>1. A(t, s) /\ B(t, s) /\ s \in Rows
          BY <1>0, <2>1, <4>1
        <5> QED  BY <2>1, <2>3, <3>1, <5>1
      <4>3. C(t)'
        BY <1>0, <2>1, <4>1
      <4> HIDE DEF A, B, C
      <4> QED  BY <2>1, <3>1, <4>1, <4>2, <4>3
    <3>2. CASE pc' = [pc EXCEPT ![t] = "release"]
      BY <3>2 DEF TypeOK
    <3> QED  BY <2>2, <3>1, <3>2
  <2> HIDE DEF S
  <2>5. Step(t)
    BY <1>4 DEF Step
  <2> QED  BY <1>1, <2>1, <2>3, <2>4, <2>5
<1>5. ASSUME NEW t \in Threads, GetEndTs(t) PROVE SeenInv'
  <2>1. /\ UNCHANGED <<wts, data, latch>> /\ pc'[t] = "cleanup"
        /\ end_ts'[t] = timestamp
    BY <1>5 DEF GetEndTs, Goto, rowVars, TypeOK
  <2>2. Step(t) /\ S(t)'
    BY <1>5, <2>1 DEF Step
  <2> HIDE DEF S
  <2> QED  BY <1>1, <2>1, <2>2
<1>6. ASSUME NEW t \in Threads, ReturnRow(t) PROVE SeenInv'
  <2>1. /\ pc[t] = "cleanup" /\ query[t] \in Queries
        /\ row_cnt[t] \in 1..Len(query[t]) /\ lock_cnt[t] = Len(query[t])
        /\ UNCHANGED <<latch, end_ts>>
        /\ pc' = [pc EXCEPT ![t] = IF row_cnt[t] = 1 THEN "release" ELSE "cleanup"]
    BY <1>6, ReturnRowFacts
  <2>2. PICK r \in Rows :
           /\ r = Sorted(t)[row_cnt[t]]
           /\ \/ /\ data' = [data EXCEPT ![r] = Image(Written(t))]
                 /\ wts' = [wts EXCEPT ![r] = end_ts[t]]
              \/ UNCHANGED <<data, wts>>
    BY <1>6, ReturnRowFacts
  <2>3. latch[r] = t
    BY <2>1, <2>2, OwnRows
  <2>4. \A s \in Rows : \/ wts'[s] = wts[s] /\ data'[s] = data[s]
                        \/ pc[t] = "cleanup" /\ latch[s] = t /\ wts'[s] = end_ts[t]
    BY <2>1, <2>2, <2>3 DEF TypeOK
  <2>5. pc'[t] # "access"
    BY <2>1 DEF TypeOK
  <2>6. Step(t) /\ S(t)'
    BY <1>6, <2>5 DEF Step
  <2> HIDE DEF S
  <2> QED  BY <1>1, <2>1, <2>4, <2>6
<1>7. ASSUME NEW t \in Threads, Release(t) PROVE SeenInv'
  <2>1. pc[t] = "release" /\ UNCHANGED <<wts, data>> /\ (Clear(t) \/ pc' = pc)
    BY <1>7, ReleaseFacts
  <2>2. PICK r \in Rows : latch' = [latch EXCEPT ![r] = NoThread]
    BY <1>7, ReleaseFacts
  <2>3. \A s \in Rows : latch'[s] = latch[s] \/ latch'[s] \in {t, NoThread}
    BY <2>2 DEF TypeOK
  <2>4. pc'[t] \in {"fetch", "release"}
    BY <2>1 DEF Clear, Goto, TypeOK
  <2>5. Step(t) /\ S(t)'
    BY <1>7, <2>4 DEF Step
  <2> HIDE DEF S
  <2> QED  BY <1>1, <2>1, <2>3, <2>4, <2>5
<1>8. CASE UNCHANGED vars
  <2>1. \A u \in Threads : Copied(u)' = Copied(u)
    BY <1>8, CopiedSame DEF vars, txnVars
  <2> QED  BY <1>8, <2>1 DEF vars, rowVars, txnVars, SeenInv
<1> QED  BY <1>2, <1>3, <1>4, <1>5, <1>6, <1>7, <1>8 DEF Next, Terminated

\* A row that is yet to be written is latched by its writer.
LEMMA ToWriteOwn ==
    ASSUME TypeOK, PhaseInv, LatchInv, NEW t \in Threads, NEW r, ToWrite(t, r)
    PROVE  latch[r] = t /\ r \in Rows
<1>1. PICK i \in 1..row_cnt[t] : Sorted(t)[i] = r
  BY DEF ToWrite
<1>2. i \in 1..lock_cnt[t] /\ pc[t] = "cleanup"
  BY DEF ToWrite, PhaseInv, TypeOK
<1> QED  BY <1>1, <1>2, OwnRows

LEMMA ToWriteSame ==
    ASSUME NEW u, NEW r, query'[u] = query[u], row_cnt'[u] = row_cnt[u],
           pc'[u] = pc[u]
    PROVE  ToWrite(u, r)' <=> ToWrite(u, r)
BY SortedSame DEF ToWrite

\* A transaction commits: it has latched what it has accessed, and what it writes
\* is still to be written.
LEMMA CommitFacts ==
    ASSUME TypeOK, PhaseInv, LatchInv, NEW t \in Threads, GetEndTs(t)
    PROVE  /\ \A i \in 1..Len(query[t]) : latch[query[t][i].row] = t
           /\ \A r \in Rows : ToWrite(t, r)' <=> r \in RowsOf(query[t], "WR")
<1>1. /\ pc[t] = "access" /\ query[t] \in Queries
      /\ row_cnt[t] = Len(query[t]) /\ lock_cnt[t] = Len(query[t])
  BY GetEndTsFacts
<1>2. /\ Len(query[t]) \in Nat /\ DOMAIN query[t] = 1..Len(query[t])
      /\ \A i \in 1..Len(query[t]) : \E j \in 1..Len(query[t]) :
            Sorted(t)[j] = query[t][i].row
      /\ \A i \in 1..Len(query[t]) : \E j \in 1..Len(query[t]) :
            Sorted(t)[i] = query[t][j].row
  BY <1>1, SortedFacts
<1>3. ASSUME NEW i \in 1..Len(query[t]) PROVE latch[query[t][i].row] = t
  <2>1. PICK j \in 1..Len(query[t]) : Sorted(t)[j] = query[t][i].row
    BY <1>2
  <2> QED  BY <1>1, <2>1, OwnRows
<1>4. /\ pc'[t] = "cleanup" /\ row_cnt'[t] = Len(query[t]) /\ query' = query
  BY <1>1 DEF GetEndTs, Goto, TypeOK
<1>5. Sorted(t)' = Sorted(t) /\ \A r : TypeOf(t, r)' = TypeOf(t, r)
  BY <1>4, SortedSame
<1>6. ASSUME NEW r \in Rows PROVE ToWrite(t, r)' <=> r \in RowsOf(query[t], "WR")
  <2>1. ToWrite(t, r)' <=> /\ \E i \in 1..Len(query[t]) : Sorted(t)[i] = r
                           /\ TypeOf(t, r) = "WR"
    BY <1>4, <1>5 DEF ToWrite
  <2>2. (\E i \in 1..Len(query[t]) : Sorted(t)[i] = r)
           <=> \E i \in 1..Len(query[t]) : query[t][i].row = r
    <3>1. ASSUME NEW i \in 1..Len(query[t]), Sorted(t)[i] = r
          PROVE  \E j \in 1..Len(query[t]) : query[t][j].row = r
      BY <1>2, <3>1
    <3>2. ASSUME NEW i \in 1..Len(query[t]), query[t][i].row = r
          PROVE  \E j \in 1..Len(query[t]) : Sorted(t)[j] = r
      BY <1>2, <3>2
    <3> QED  BY <3>1, <3>2
  <2>3. r \in RowsOf(query[t], "WR") => \E i \in 1..Len(query[t]) : query[t][i].row = r
    BY <1>2 DEF RowsOf
  <2>4. ASSUME NEW i \in 1..Len(query[t]), query[t][i].row = r
        PROVE  TypeOf(t, r) = "WR" <=> r \in RowsOf(query[t], "WR")
    BY <1>1, <2>4, TypeOfFacts
  <2> QED  BY <2>1, <2>2, <2>3, <2>4
<1> QED  BY <1>3, <1>6

LEMMA DataNext ==
    TypeOK /\ PhaseInv /\ LatchInv /\ DataInv /\ [Next]_vars => DataInv'
<1> SUFFICES ASSUME TypeOK, PhaseInv, LatchInv, DataInv, [Next]_vars PROVE DataInv'
  OBVIOUS
<1> DEFINE I(r) == ImageBefore(Len(order) + 1, r)
           D(r) == /\ \A t \in Threads : ToWrite(t, r) => I(r) = Image(Written(t))
                   /\ (\A t \in Threads : ~ ToWrite(t, r)) => data[r] = I(r)
<1>0. \A r \in Rows : D(r)
  BY DEF DataInv
<1>1. ASSUME NEW t \in Threads, Step(t), NEW u \in Threads, u # t, NEW r
      PROVE  (ToWrite(u, r)' <=> ToWrite(u, r)) /\ Written(u)' = Written(u)
  BY <1>1, Frame, ToWriteSame DEF Written
\* Nothing is written and nobody's writes change.
<1>2. ASSUME NEW t \in Threads, Step(t), pc[t] # "cleanup", pc'[t] # "cleanup",
             UNCHANGED <<data, order>>
      PROVE  DataInv'
  <2> SUFFICES ASSUME NEW r \in Rows PROVE D(r)'
    BY DEF DataInv
  <2>1. I(r)' = I(r)
    BY <1>2, HistorySame
  <2>2. ~ ToWrite(t, r) /\ ~ ToWrite(t, r)'
    BY <1>2 DEF ToWrite
  <2>3. \A u \in Threads : /\ ToWrite(u, r)' <=> ToWrite(u, r)
                           /\ ToWrite(u, r) => Image(Written(u))' = Image(Written(u))
    BY <1>1, <1>2, <2>2 DEF Image
  <2>4. D(r) /\ data'[r] = data[r]
    BY <1>0, <1>2
  <2> HIDE DEF I
  <2> QED  BY <2>1, <2>3, <2>4
<1>3. ASSUME NEW t \in Threads, Fetch(t) PROVE DataInv'
  <2>1. pc[t] = "fetch" /\ pc'[t] = "access" /\ UNCHANGED <<data, order>>
    BY <1>3 DEF Fetch, Goto, rowVars, TypeOK
  <2> QED  BY <1>2, <1>3, <2>1 DEF Step
<1>4. ASSUME NEW t \in Threads, Access(t) PROVE DataInv'
  <2>1. pc[t] = "access" /\ UNCHANGED <<data, order>>
    BY <1>4, AccessCases
  <2>2. pc' = pc \/ Clear(t)
    BY <1>4, AccessCases DEF Copy
  <2>3. pc'[t] # "cleanup"
    BY <2>1, <2>2 DEF Clear, Goto, TypeOK
  <2> QED  BY <1>2, <1>4, <2>1, <2>3 DEF Step
<1>5. ASSUME NEW t \in Threads, LatchRow(t) PROVE DataInv'
  <2>1. pc[t] = "access" /\ UNCHANGED <<data, order>>
    BY <1>5, LatchRowFacts
  <2>2. pc' = pc \/ pc' = [pc EXCEPT ![t] = "release"]
    BY <1>5, LatchRowFacts
  <2>3. pc'[t] # "cleanup"
    BY <2>1, <2>2 DEF TypeOK
  <2> QED  BY <1>2, <1>5, <2>1, <2>3 DEF Step
<1>6. ASSUME NEW t \in Threads, GetEndTs(t) PROVE DataInv'
  <2> SUFFICES ASSUME NEW r \in Rows PROVE D(r)'
    BY DEF DataInv
  <2>1. Step(t) /\ query[t] \in Queries /\ pc[t] = "access"
    BY <1>6, GetEndTsFacts DEF Step
  <2>2. /\ data' = data /\ Written(t)' = Written(t)
        /\ \A i \in 1..Len(query[t]) : latch[query[t][i].row] = t
        /\ ToWrite(t, r)' <=> r \in RowsOf(query[t], "WR")
    BY <1>6, CommitFacts DEF GetEndTs, rowVars, Written
  <2>3. I(r)' = IF r \in RowsOf(query[t], "WR") THEN Image(Written(t)) ELSE I(r)
    <3>1. PICK e \in Entries : /\ e = [txn |-> Written(t), reads |-> seen[t],
                                       writes |-> RowsOf(query[t], "WR")]
                               /\ order' = Append(order, e)
      BY <1>6, GetEndTsFacts
    <3>2. e.writes = RowsOf(query[t], "WR") /\ e.txn = Written(t)
      BY <3>1
    <3>3. order \in Seq(Entries)
      BY DEF TypeOK
    <3> QED  BY <3>1, <3>2, <3>3, HistoryAppend
  <2>4. Image(Written(t))' = Image(Written(t))
    BY <2>2 DEF Image
  <2>5. \A u \in Threads : u # t =>
           /\ ToWrite(u, r)' <=> ToWrite(u, r)
           /\ Image(Written(u))' = Image(Written(u))
    BY <1>1, <2>1 DEF Image
  <2>6. ~ ToWrite(t, r)
    BY <2>1 DEF ToWrite
  <2>7. CASE r \in RowsOf(query[t], "WR")
    <3>1. latch[r] = t
      <4>1. DOMAIN query[t] = 1..Len(query[t])
        BY <2>1, SortedFacts
      <4>2. \E i \in 1..Len(query[t]) : query[t][i].row = r
        BY <4>1, <2>7 DEF RowsOf
      <4> QED  BY <2>2, <4>2
    <3>2. \A u \in Threads : u # t => ~ ToWrite(u, r)
      BY <3>1, ToWriteOwn
    <3> HIDE DEF I
    <3> QED  BY <2>2, <2>3, <2>4, <2>5, <2>7, <3>2
  <2>8. CASE r \notin RowsOf(query[t], "WR")
    <3>1. D(r)
      BY <1>0
    <3> HIDE DEF I
    <3> QED  BY <2>2, <2>3, <2>5, <2>6, <2>8, <3>1
  <2> QED  BY <2>7, <2>8
<1>7. ASSUME NEW t \in Threads, ReturnRow(t) PROVE DataInv'
  <2> DEFINE k == row_cnt[t]
  <2>1. /\ pc[t] = "cleanup" /\ query[t] \in Queries
        /\ k \in 1..Len(query[t]) /\ lock_cnt[t] = Len(query[t])
        /\ UNCHANGED <<query, start_ts, order>>
        /\ row_cnt' = [row_cnt EXCEPT ![t] = @ - 1]
        /\ pc' = [pc EXCEPT ![t] = IF row_cnt[t] = 1 THEN "release" ELSE "cleanup"]
    BY <1>7, ReturnRowFacts
  <2>2. PICK r \in Rows :
           /\ r = Sorted(t)[k]
           /\ \/ /\ TypeOf(t, r) = "WR"
                 /\ data' = [data EXCEPT ![r] = Image(Written(t))]
              \/ TypeOf(t, r) # "WR" /\ data' = data
    BY <1>7, ReturnRowFacts
  <2>3. /\ Step(t) /\ Len(query[t]) \in Nat /\ Sorted(t)' = Sorted(t)
        /\ \A s : TypeOf(t, s)' = TypeOf(t, s)
        /\ row_cnt'[t] = k - 1
        /\ pc'[t] = IF k = 1 THEN "release" ELSE "cleanup"
    BY <1>7, <2>1, SortedFacts, SortedSame DEF TypeOK, Step
  <2>4. ASSUME NEW s PROVE ToWrite(t, s)' <=> ToWrite(t, s) /\ s # r
    <3>1. \A i \in 1..(k - 1) : i \in 1..k /\ i \in 1..Len(query[t]) /\ i # k
      BY <2>1, <2>3
    <3>2. \A i \in 1..(k - 1) : Sorted(t)[i] # r
      BY <2>1, <2>2, <3>1, SortedInjective
    <3>3. \A i \in 1..k : i = k \/ i \in 1..(k - 1)
      BY <2>1, <2>3
    <3>4. (\E i \in 1..(k - 1) : Sorted(t)[i] = s)
             <=> (\E i \in 1..k : Sorted(t)[i] = s) /\ s # r
      BY <2>2, <3>1, <3>2, <3>3
    <3>5. k = 1 => ~ \E i \in 1..(k - 1) : Sorted(t)[i] = s
      OBVIOUS
    <3> QED  BY <2>1, <2>3, <3>4, <3>5 DEF ToWrite
  <2>5. ToWrite(t, r) <=> TypeOf(t, r) = "WR"
    BY <2>1, <2>2, <2>3 DEF ToWrite
  <2>6. latch[r] = t
    BY <2>1, <2>2, OwnRows
  <2>7. \A u \in Threads : u # t => ~ ToWrite(u, r)
    BY <2>6, ToWriteOwn
  <2> SUFFICES ASSUME NEW s \in Rows PROVE D(s)'
    BY DEF DataInv
  <2>8. I(s)' = I(s)
    BY <2>1, HistorySame
  <2>9. /\ D(s)
        /\ data'[s] = IF s = r /\ TypeOf(t, r) = "WR" THEN Image(Written(t)) ELSE data[s]
    BY <1>0, <2>2 DEF TypeOK
  <2>10. \A u \in Threads : Image(Written(u))' = Image(Written(u))
    BY <2>1 DEF Image, Written
  <2>11. \A u \in Threads : u # t => (ToWrite(u, s)' <=> ToWrite(u, s))
    BY <1>1, <2>3
  <2> HIDE DEF I
  <2>12. CASE s = r
    BY <2>4, <2>5, <2>7, <2>8, <2>9, <2>10, <2>11, <2>12
  <2>13. CASE s # r
    BY <2>4, <2>8, <2>9, <2>10, <2>11, <2>13
  <2> QED  BY <2>12, <2>13
<1>8. ASSUME NEW t \in Threads, Release(t) PROVE DataInv'
  <2>1. pc[t] = "release" /\ UNCHANGED <<data, order>> /\ (Clear(t) \/ pc' = pc)
    BY <1>8, ReleaseFacts
  <2>2. pc'[t] # "cleanup"
    BY <2>1 DEF Clear, Goto, TypeOK
  <2> QED  BY <1>2, <1>8, <2>1, <2>2 DEF Step
<1>9. CASE UNCHANGED vars
  <2>1. \A r : I(r)' = I(r)
    BY <1>9, HistorySame DEF vars
  <2>2. \A u, r : ToWrite(u, r)' <=> ToWrite(u, r)
    BY <1>9, ToWriteSame DEF vars, txnVars
  <2>3. \A u : Image(Written(u))' = Image(Written(u))
    BY <1>9 DEF vars, txnVars, Image, Written
  <2>4. data' = data
    BY <1>9 DEF vars, rowVars
  <2> HIDE DEF I
  <2>5. \A r \in Rows : D(r)'
    BY <1>0, <2>1, <2>2, <2>3, <2>4
  <2> QED  BY <2>5 DEF DataInv, I
<1> QED  BY <1>3, <1>4, <1>5, <1>6, <1>7, <1>8, <1>9 DEF Next, Terminated

\* What a committing transaction has copied is what the history says: its rows
\* are its own, validated, and nobody is yet to write them.
LEMMA CopiesCurrent ==
    ASSUME IInv, NEW t \in Threads, GetEndTs(t), NEW r \in Rows, seen[t][r] # NoImage
    PROVE  seen[t][r] = ImageBefore(Len(order) + 1, r)
<1> USE DEF IInv
<1>1. /\ pc[t] = "access" /\ query[t] \in Queries
      /\ row_cnt[t] = Len(query[t]) /\ lock_cnt[t] = Len(query[t])
  BY GetEndTsFacts
<1>2. r \in Copied(t)
  BY <1>1 DEF SeenInv
<1>3. PICK i \in 1..Len(query[t]) : query[t][i].row = r
  BY <1>1, <1>2 DEF Copied
<1>4. PICK j \in 1..Len(query[t]) : Sorted(t)[j] = r
  BY <1>1, <1>3, SortedFacts
<1>5. wts[r] <= start_ts[t] /\ wts[r] \in Nat /\ start_ts[t] \in Nat
  BY <1>1, <1>4 DEF ValidInv, TypeOK
<1>6. seen[t][r] = data[r]
  BY <1>1, <1>2, <1>5 DEF SeenInv
<1>7. latch[r] = t
  BY <1>3, CommitFacts
<1>8. ~ ToWrite(t, r)
  BY <1>1 DEF ToWrite
<1>9. \A u \in Threads : ~ ToWrite(u, r)
  BY <1>7, <1>8, ToWriteOwn
<1> QED  BY <1>6, <1>9 DEF DataInv

LEMMA SerialNext == IInv /\ [Next]_vars => Serializable'
<1> SUFFICES ASSUME IInv, [Next]_vars PROVE Serializable'
  OBVIOUS
<1>1. ASSUME order' = order PROVE Serializable'
  BY <1>1, HistorySame DEF IInv, Serializable
<1>2. ASSUME NEW t \in Threads, GetEndTs(t) PROVE Serializable'
  <2>1. PICK e \in Entries : /\ e = [txn |-> Written(t), reads |-> seen[t],
                                     writes |-> RowsOf(query[t], "WR")]
                             /\ order' = Append(order, e)
    BY <1>2, GetEndTsFacts DEF IInv
  <2>2. order \in Seq(Entries)
    BY DEF IInv, TypeOK
  <2>3. PICK n \in Nat : n = Len(order)
    BY <2>2
  <2>4. /\ DOMAIN order' = 1..(n + 1) /\ DOMAIN order = 1..n
        /\ \A i \in 1..n : order'[i] = order[i]
        /\ order'[n + 1] = e /\ e.reads = seen[t]
    BY <2>1, <2>2, <2>3
  <2> SUFFICES ASSUME NEW i \in 1..(n + 1), NEW r \in Rows, order'[i].reads[r] # NoImage
               PROVE  order'[i].reads[r] = ImageBefore(i, r)'
    BY <2>4 DEF Serializable, NoImage, Image
  <2>5. ImageBefore(i, r)' = ImageBefore(i, r)
    BY <2>1, <2>2, <2>3, HistoryAppend
  <2>6. CASE i \in 1..n
    BY <2>4, <2>5, <2>6 DEF IInv, Serializable
  <2>7. CASE i = n + 1
    BY <1>2, <2>3, <2>4, <2>5, <2>7, CopiesCurrent
  <2> QED  BY <2>6, <2>7
<1>3. ASSUME NEW t \in Threads, Step(t), ~ GetEndTs(t) PROVE order' = order
  BY <1>3 DEF Step, Fetch, Access, LatchRow, ReturnRow, Release
<1>4. CASE UNCHANGED vars
  BY <1>1, <1>4 DEF vars
<1> QED  BY <1>1, <1>2, <1>3, <1>4 DEF Next, Terminated, Step

\* The strengthened invariant: the latches held are those counted, what has been
\* validated stays valid while it is latched, a copy that is out of date is given
\* away by the row's timestamp, and the table lags behind the history only by the
\* writes of transactions between their end timestamp and Row_occ::write.
THEOREM Invariance == Spec => []IInv
<1>1. IInv /\ [Next]_vars => IInv'
  BY TypeNext, PhaseNext, LatchNext, ValidNext, SeenNext, DataNext, SerialNext DEF IInv
<1> QED  BY <1>1, InitIInv, PTL DEF Spec

\* The OCC build is serializable in the order of its end timestamps: latching and
\* validating every access against wts (OptCC::per_row_validate) is enough,
\* whatever was written between a copy and the validation.
THEOREM SerializableTheorem == Spec => []Serializable
<1>1. IInv => Serializable
  BY DEF IInv
<1> QED  BY <1>1, Invariance, PTL

\* Every latch is among those its holder has counted and will release, also when
\* the validation fails half-way (per_row_validate counts before it validates).
THEOREM LatchesGivenBackTheorem == Spec => []LatchesGivenBack
<1>1. IInv => LatchesGivenBack
  <2> SUFFICES ASSUME IInv, NEW r \in Rows, latch[r] # NoThread, NEW t, t = latch[r]
               PROVE  /\ pc[t] # "fetch"
                      /\ \E i \in (released[t] + 1)..lock_cnt[t] : Sorted(t)[i] = r
    BY DEF LatchesGivenBack
  <2>1. t \in Threads
    BY DEF IInv, TypeOK
  <2>2. r \in Latched(t)
    BY <2>1 DEF IInv, LatchInv
  <2>3. PICK i \in (released[t] + 1)..lock_cnt[t] : Sorted(t)[i] = r
    BY <2>2 DEF Latched
  <2>4. lock_cnt[t] # 0 \/ released[t] # 0
    BY <2>3, <2>1 DEF IInv, TypeOK
  <2> QED  BY <2>1, <2>3, <2>4 DEF IInv, PhaseInv
<1> QED  BY <1>1, Invariance, PTL

\* Row_occ::write never takes a row's timestamp back (its assertion): the row has
\* been latched since its wts was found not to be above the writer's start, and
\* the end timestamp is later than the start.
THEOREM WtsGrowsTheorem == Spec => WtsGrows
<1>1. IInv /\ [Next]_vars => [\A r \in Rows : data'[r] # data[r] => wts'[r] > wts[r]]_vars
  <2> SUFFICES ASSUME IInv, Next
               PROVE  \A r \in Rows : data'[r] # data[r] => wts'[r] > wts[r]
    OBVIOUS
  <2> USE DEF IInv
  <2>1. ASSUME NEW t \in Threads, ReturnRow(t)
        PROVE  \A r \in Rows : data'[r] # data[r] => wts'[r] > wts[r]
    <3>1. /\ pc[t] = "cleanup" /\ query[t] \in Queries /\ start_ts[t] < end_ts[t]
          /\ row_cnt[t] \in 1..Len(query[t])
      BY <2>1, ReturnRowFacts
    <3>2. PICK r \in Rows :
             /\ r = Sorted(t)[row_cnt[t]]
             /\ \/ /\ data' = [data EXCEPT ![r] = Image(Written(t))]
                   /\ wts' = [wts EXCEPT ![r] = end_ts[t]]
                \/ UNCHANGED <<data, wts>>
      BY <2>1, ReturnRowFacts
    <3>3. /\ wts[r] \in Nat /\ start_ts[t] \in Nat /\ end_ts[t] \in Nat
          /\ row_cnt[t] \in 1..row_cnt[t]
      BY <3>1 DEF TypeOK
    <3>4. wts[r] <= start_ts[t]
      BY <3>1, <3>2, <3>3 DEF ValidInv
    <3>5. wts \in [Rows -> Nat] /\ data \in [Rows -> Images]
      BY DEF TypeOK
    <3>6. end_ts[t] > wts[r]
      BY <3>1, <3>3, <3>4
    <3> QED  BY <3>2, <3>5, <3>6
  <2>2. ASSUME NEW t \in Threads, Step(t), ~ ReturnRow(t) PROVE data' = data
    BY <2>2 DEF Step, Fetch, Access, LatchRow, GetEndTs, Release, rowVars
  <2>3. CASE Terminated
    BY <2>3 DEF Terminated, vars, rowVars
  <2> QED  BY <2>1, <2>2, <2>3 DEF Next, Step
<1> QED  BY <1>1, Invariance, PTL DEF Spec, WtsGrows

\* Of any set of transactions that wait for latches, one waits for a latch that
\* none of the others holds: each wants a row above all it has latched, since
\* the accesses were sorted, so the one that wants the highest row is free to go
\* on.
THEOREM NoLatchCycleTheorem == Spec => []NoLatchCycle
<1>1. IInv => NoLatchCycle
  <2> SUFFICES ASSUME IInv, NEW S \in SUBSET Threads, S # {},
                      \A t \in S : \E u \in S : Blocked(t, u)
               PROVE  FALSE
    BY DEF NoLatchCycle
  <2> USE DEF IInv
  <2> DEFINE want(t) == Sorted(t)[lock_cnt[t] + 1]
  <2>1. ASSUME NEW t \in S PROVE want(t) \in Rows
    <3>1. pc[t] = "access" /\ row_cnt[t] = Len(query[t]) /\ lock_cnt[t] < row_cnt[t]
      BY <2>1 DEF Blocked
    <3>2. query[t] \in Queries /\ Len(query[t]) \in Nat /\ lock_cnt[t] \in Nat
      BY <3>1, CopiedRows DEF TypeOK
    <3>3. lock_cnt[t] + 1 \in 1..Len(query[t])
      BY <3>1, <3>2
    <3> QED  BY <3>2, <3>3, SortedFacts
  <2>2. ASSUME NEW t \in S, NEW u \in S, Blocked(t, u) PROVE want(t) < want(u)
    <3>1. pc[u] = "access" /\ row_cnt[u] = Len(query[u]) /\ lock_cnt[u] < row_cnt[u]
      BY <2>2 DEF Blocked
    <3>2. query[u] \in Queries /\ Len(query[u]) \in Nat /\ lock_cnt[u] \in Nat
      BY <3>1, CopiedRows DEF TypeOK
    <3>3. want(t) \in Latched(u)
      BY <2>1, <2>2 DEF Blocked, LatchInv
    <3>4. released[u] = 0
      BY <3>1 DEF PhaseInv
    <3>5. PICK i \in 1..lock_cnt[u] : Sorted(u)[i] = want(t)
      BY <3>3, <3>4 DEF Latched
    <3>6. i \in 1..Len(query[u]) /\ lock_cnt[u] + 1 \in 1..Len(query[u]) /\ i < lock_cnt[u] + 1
      BY <3>1, <3>2
    <3>7. Ascending(Sorted(u), Len(query[u]))
      BY <3>2, SortedFacts
    <3> QED  BY <3>5, <3>6, <3>7 DEF Ascending
  <2> DEFINE W == {want(t) : t \in S}
  <2>3. W \in SUBSET Rows /\ W # {}
    BY <2>1
  <2> HIDE DEF want
  <2>4. PICK w \in W : \A v \in W : v <= w
    <3> HIDE DEF W
    <3> QED  BY <2>3, HighestRow
  <2>5. PICK t \in S : want(t) = w
    BY <2>4
  <2>6. PICK u \in S : Blocked(t, u)
    OBVIOUS
  <2>7. want(t) < want(u) /\ want(u) <= want(t) /\ want(t) \in Nat /\ want(u) \in Nat
    BY <2>1, <2>2, <2>4, <2>5, <2>6, RowsAssumption
  <2> QED  BY <2>7
<1> QED  BY <1>1, Invariance, PTL
=============================================================================
