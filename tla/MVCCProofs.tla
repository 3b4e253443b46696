----------------------------- MODULE MVCCProofs -----------------------------
(* The safety of the MVCC build, for every number of threads, rows,        *)
(* queries and transactions and every length of the histories.             *)
EXTENDS MVCC, FiniteSetTheorems, WellFoundedInduction, TLAPS

Request == [row : Rows, type : {"RD", "WR"}]
Slot == [valid : BOOLEAN, reserved : BOOLEAN, ts : Nat, buf : Nat \cup {NoBuf}]
RowRecord ==
    [base : Nat, latest : Nat, latest_wts : Nat, oldest_wts : Nat, hist : Seq(Slot),
     num_versions : Nat, prewrite_ts : Nat, prewrite_id : Nat, max_served_rts : Nat,
     requests : SUBSET Threads, data : Seq(Nat)]

TypeOK ==
    /\ setup \in Setups
    /\ starts \in 0..MaxTxn /\ timestamp = starts + 1
    /\ all_ts \in [Threads -> Nat] /\ min_ts \in Nat
    /\ mvcc \in [Rows -> RowRecord]
    /\ pc \in [Threads -> {"start", "add_ts", "access", "wait", "use", "commit", "abort"}]
    /\ query \in [Threads -> Seq(Request)]
    /\ ts \in [Threads -> Nat]
    /\ row_cnt \in [Threads -> Nat]
    /\ held \in [Threads -> Seq(Nat)]
    /\ seen \in [Threads -> Seq(Nat)]
    /\ lost \in [Threads -> BOOLEAN]

\* A transaction runs a query under a timestamp drawn before now, and has a buffer and
\* has read a version for each row it has got.
TxnOK(t) ==
    /\ pc[t] = "start" => row_cnt[t] = 0 /\ query[t] = << >> /\ ts[t] = 0
    /\ pc[t] # "start" => query[t] \in setup.queries /\ ts[t] > 0
    /\ pc[t] \in {"start", "add_ts"} => row_cnt[t] = 0
    /\ pc[t] \in {"wait", "use"} => row_cnt[t] < Len(query[t])
    /\ row_cnt[t] <= Len(query[t])
    /\ ts[t] < timestamp
    /\ pc[t] \notin {"commit", "abort"} =>
          /\ Len(seen[t]) = row_cnt[t]
          /\ Len(held[t]) = IF pc[t] = "use" THEN row_cnt[t] + 1 ELSE row_cnt[t]

\* The timestamp is its own.
TxnInv ==
    /\ \A t \in Threads : TxnOK(t)
    /\ \A t, u \in Threads : ts[t] = ts[u] /\ t # u => ts[t] = 0

----------------------------------------------------------------------------
(* Timestamps, and places in a history, are natural numbers.              *)

\* A set of naturals has a least member ...
LEMMA NatLeast ==
    ASSUME NEW S \in SUBSET Nat, S # {}
    PROVE  \E x \in S : \A y \in S : x <= y
<1> DEFINE R == OpToRel(<, Nat)
<1>1. IsWellFoundedOn(R, Nat)
  BY NatLessThanWellFounded
<1>2. \A a, b \in Nat : a < b => <<a, b>> \in R
  BY DEF OpToRel
<1> HIDE DEF R
<1>3. PICK x \in S : \A y \in S : ~ (<<y, x>> \in R)
  BY <1>1, WFMin
<1>4. ASSUME NEW y \in S PROVE x <= y
  <2>1. x \in Nat /\ y \in Nat
    OBVIOUS
  <2>2. ~ (y < x)
    BY <2>1, <1>2, <1>3, Zenon
  <2> QED  BY <2>1, <2>2
<1> QED  BY <1>4

\* Induction on a set of naturals.
LEMMA NatSetInduction ==
    ASSUME NEW S \in SUBSET Nat, 0 \in S, \A n \in S : n + 1 \in S
    PROVE  S = Nat
<1> SUFFICES ASSUME Nat \ S # {} PROVE FALSE
  OBVIOUS
<1>1. PICK x \in Nat \ S : \A y \in Nat \ S : x <= y
  <2> DEFINE T == Nat \ S
  <2>1. T \in SUBSET Nat /\ T # {}
    OBVIOUS
  <2> HIDE DEF T
  <2>2. \E x \in T : \A y \in T : x <= y
    BY <2>1, NatLeast
  <2> QED  BY <2>2 DEF T
<1>2. x - 1 \in Nat /\ ~ (x <= x - 1)
  BY <1>1
<1>3. x - 1 \in S
  BY <1>1, <1>2
<1>4. x \in S
  BY <1>2, <1>3
<1> QED  BY <1>1, <1>4

\* ... and, if it is bounded, a greatest one.
LEMMA NatGreatest ==
    ASSUME NEW S \in SUBSET Nat, S # {}, NEW n \in Nat, \A x \in S : x <= n
    PROVE  \E x \in S : \A y \in S : y <= x
<1> DEFINE T == {n - x : x \in S}
<1>1. T \in SUBSET Nat /\ T # {}
  <2>1. \A x \in S : x \in Nat /\ n - x \in Nat
    OBVIOUS
  <2> QED  BY <2>1
<1>2. PICK m \in T : \A y \in T : m <= y
  <2> HIDE DEF T
  <2> QED  BY <1>1, NatLeast
<1>3. PICK x \in S : m = n - x
  BY <1>2
<1>4. ASSUME NEW y \in S PROVE y <= x
  <2>1. n - x <= n - y
    BY <1>2, <1>3
  <2> QED  BY <2>1
<1> QED  BY <1>4

----------------------------------------------------------------------------
(* One row.                                                                *)

Bufs(m) == {i \in DOMAIN m.hist : m.hist[i].buf # NoBuf}

\* Timestamps tell the versions apart, the base is older than all of them, and the
\* latest version is what latest and latest_wts say.
VersionsInOrder(m) ==
    /\ m.num_versions = Cardinality(Valid(m))
    /\ \A i, j \in Valid(m) : m.hist[i].ts = m.hist[j].ts => i = j
    /\ \A i \in Valid(m) : m.oldest_wts < m.hist[i].ts /\ m.hist[i].ts <= m.latest_wts
    /\ Valid(m) = {} => m.latest = m.base /\ m.latest_wts = m.oldest_wts
    /\ Valid(m) # {} => \E i \in Valid(m) : m.latest = m.hist[i].buf /\ m.latest_wts = m.hist[i].ts

\* No two places share a buffer, and a version's buffer holds that version.
BuffersApart(m) ==
    /\ m.base \in DOMAIN m.data /\ m.data[m.base] = m.oldest_wts
    /\ \A i \in Bufs(m) : m.hist[i].buf \in DOMAIN m.data /\ m.hist[i].buf # m.base
    /\ \A i, j \in Bufs(m) : m.hist[i].buf = m.hist[j].buf => i = j
    /\ \A i \in Valid(m) : i \in Bufs(m) /\ m.data[m.hist[i].buf] = m.hist[i].ts

\* The slot that is reserved is that of the prewrite, which is younger than all.
ReservationKnown(m) ==
    /\ \A i \in DOMAIN m.hist :
          m.hist[i].reserved /\ ~ m.hist[i].valid => ExistsPrewrite(m) /\ i = m.prewrite_id
    /\ ExistsPrewrite(m) =>
          /\ m.prewrite_id \in Bufs(m)
          /\ m.hist[m.prewrite_id].reserved /\ ~ m.hist[m.prewrite_id].valid
          /\ m.latest_wts < m.prewrite_ts

GoodRow(m) ==
    /\ m \in RowRecord /\ m.hist # << >>
    /\ VersionsInOrder(m) /\ BuffersApart(m) /\ ReservationKnown(m)

RowsGood == \A r \in Rows : GoodRow(mvcc[r])

----------------------------------------------------------------------------
(* Rows and transactions.                                                  *)

\* t has reserved a version of r and not yet returned it.
Reserves(t, r) ==
    \E i \in DOMAIN query[t] :
        /\ query[t][i] = [row |-> r, type |-> "WR"]
        /\ i <= row_cnt[t] \/ (pc[t] = "use" /\ i = row_cnt[t] + 1)

\* The reservations in the rows are those of the transactions.
ReservesKnown(t) == \A r \in Rows : Reserves(t, r) <=> mvcc[r].prewrite_ts = ts[t]

\* A transaction that has been given a buffer finds it, and a reserved one is its own.
HeldKnown(t) ==
    pc[t] = "use" =>
        LET m == mvcc[Req(t).row]
        IN  /\ Last(held[t]) \in DOMAIN m.data
            /\ Req(t).type = "WR" => Last(held[t]) = ReservedBuf(m)

\* Once used, a reserved buffer holds the version of its transaction.
WrittenKnown(t) ==
    \A i \in 1..row_cnt[t] : query[t][i].type = "WR" =>
        LET m == mvcc[query[t][i].row] IN m.data[ReservedBuf(m)] = ts[t]

\* No row has a version that its transaction has yet to commit.
NotAhead(t) ==
    \A r \in Rows : mvcc[r].latest_wts = ts[t] => ts[t] = 0 \/ pc[t] = "commit"

ThreadInv ==
    \A t \in Threads : ReservesKnown(t) /\ HeldKnown(t) /\ WrittenKnown(t) /\ NotAhead(t)

\* The rows know of no timestamp from the future.
RowClock(m) ==
    /\ m.latest_wts < timestamp
    /\ ExistsPrewrite(m) => m.prewrite_ts < timestamp

ClockInv == \A r \in Rows : RowClock(mvcc[r])

\* Who is in a row's queue waits for that row, and is younger than all it has; no
\* younger read has been served before a prewrite that waits or is under way.
RowQueue(r) ==
    /\ \A u \in mvcc[r].requests :
          /\ pc[u] = "wait" /\ Req(u).row = r
          /\ mvcc[r].latest_wts < ts[u]
          /\ ExistsPrewrite(mvcc[r]) /\ mvcc[r].prewrite_ts < ts[u]
          /\ Req(u).type = "WR" => mvcc[r].max_served_rts <= ts[u]
    /\ ExistsPrewrite(mvcc[r]) => mvcc[r].max_served_rts <= mvcc[r].prewrite_ts

QueueInv == \A r \in Rows : RowQueue(r)

HInv == TypeOK /\ TxnInv /\ RowsGood /\ ThreadInv /\ ClockInv /\ QueueInv

----------------------------------------------------------------------------
(* The history.                                                            *)

\* The versions of r that the transactions of C have written.
Written(C, r) == {c.ts : c \in {d \in C : r \in d.writes}}

CommitInv ==
    \A c \in committed :
        /\ c.ts \in Nat /\ c.ts > 0 /\ c.ts < timestamp
        /\ DOMAIN c.reads \subseteq Rows
        /\ \A t \in Threads : ts[t] = c.ts => pc[t] = "commit"

\* What has been written is the base or older, or a valid version, or about to be
\* installed; and nothing else is there.
RowVersions(m, W) ==
    /\ \A w \in W : \/ w <= m.oldest_wts
                    \/ \E i \in Valid(m) : m.hist[i].ts = w
                    \/ w = m.prewrite_ts
    /\ \A i \in Valid(m) : m.hist[i].ts \in W
    /\ m.oldest_wts \in W \cup {0}

VersionInv ==
    /\ \A r \in Rows : RowVersions(mvcc[r], Written(committed, r))
    /\ \A t \in Threads, r \in Rows :
          pc[t] = "commit" /\ Reserves(t, r) => ts[t] \in Written(committed, r)

\* No version can come before at any more but by the reservation there is.
Served(m, at) == at <= m.latest_wts \/ at <= m.max_served_rts \/ at = m.prewrite_ts

\* Version ver of r is, and stays, the one before at, in rows M and after the
\* transactions of C.
ReadOK(M, C, r, at, ver) ==
    /\ ver < at /\ ver \in Written(C, r) \cup {0}
    /\ \A w \in Written(C, r) : w <= ver \/ at <= w
    /\ ExistsPrewrite(M[r]) => M[r].prewrite_ts <= ver \/ at <= M[r].prewrite_ts
    /\ Served(M[r], at)

\* The cnt versions sn that have been read for query q are those before at ...
EntriesOK(M, C, q, at, cnt, sn) == \A i \in 1..cnt : ReadOK(M, C, q[i].row, at, sn[i])

\* ... and so is what buffer b, given for request req, holds.
BufferOK(M, C, req, at, b) ==
    /\ ReadOK(M, C, req.row, at, M[req.row].data[b])
    /\ req.type = "RD" /\ ExistsPrewrite(M[req.row]) => b # ReservedBuf(M[req.row])

\* What t has read, and what it is about to read, is that version.
SeenOK(t) ==
    pc[t] \in {"access", "wait", "use"} /\ ~ lost[t] =>
        /\ EntriesOK(mvcc, committed, query[t], ts[t], row_cnt[t], seen[t])
        /\ pc[t] = "use" => BufferOK(mvcc, committed, Req(t), ts[t], Last(held[t]))

SeenInv == \A t \in Threads : SeenOK(t)

CommittedInv ==
    \A c \in committed :
        c.lost \/ \A r \in DOMAIN c.reads : ReadOK(mvcc, committed, r, c.ts, c.reads[r])

SInv == HInv /\ CommitInv /\ VersionInv /\ SeenInv /\ CommittedInv

----------------------------------------------------------------------------
(* Numbers.                                                                *)

LEMMA MaxFacts ==
    ASSUME NEW S \in SUBSET Nat, S # {}, NEW n \in Nat, \A x \in S : x <= n
    PROVE  Max(S) \in S /\ \A x \in S : x <= Max(S)
<1>1. PICK x \in S : \A y \in S : y <= x
  BY NatGreatest
<1>2. \A y \in S : x >= y
  BY <1>1
<1>3. Max(S) \in S /\ \A y \in S : Max(S) >= y
  BY <1>2 DEF Max
<1> QED  BY <1>3

LEMMA MinFacts ==
    ASSUME NEW S \in SUBSET Nat, S # {}
    PROVE  Min(S) \in S /\ \A x \in S : Min(S) <= x
<1>1. \E x \in S : \A y \in S : x =< y
  BY NatLeast
<1> QED  BY <1>1 DEF Min

LEMMA MaxOfTwo ==
    ASSUME NEW a \in Nat, NEW b \in Nat
    PROVE  /\ Max({a, b}) \in {a, b}
           /\ a <= Max({a, b}) /\ b <= Max({a, b})
<1>1. \A x \in {a, b} : x <= a + b
  OBVIOUS
<1> QED  BY <1>1, MaxFacts

----------------------------------------------------------------------------
(* What the operations on a row do to its history.                         *)

\* From m to n versions have only been given up, the oldest ones.
Keeps(m, n) ==
    /\ n.latest = m.latest /\ n.latest_wts = m.latest_wts
    /\ n.max_served_rts = m.max_served_rts /\ n.requests = m.requests
    /\ m.oldest_wts <= n.oldest_wts
    /\ n.oldest_wts = m.oldest_wts \/ \E i \in Valid(m) : n.oldest_wts = m.hist[i].ts
    /\ \A i \in Valid(n) : i \in Valid(m) /\ n.hist[i].ts = m.hist[i].ts
    /\ \A i \in Valid(m) : i \in Valid(n) \/ m.hist[i].ts <= n.oldest_wts

LEMMA InitRowGood ==
    /\ GoodRow(InitRow)
    /\ ~ ExistsPrewrite(InitRow) /\ Valid(InitRow) = {}
<1> DEFINE m == InitRow
<1>1. Empty \in Slot /\ [i \in 1..HisLen |-> Empty] \in Seq(Slot)
  BY MvccAssumption DEF Empty, Slot
<1>2. m \in RowRecord /\ m.hist # << >>
  BY <1>1, MvccAssumption DEF InitRow, RowRecord
<1>3. /\ m.hist = [i \in 1..HisLen |-> Empty] /\ m.data = <<0>> /\ m.base = 1
      /\ m.latest = 1 /\ m.latest_wts = 0 /\ m.oldest_wts = 0 /\ m.num_versions = 0
      /\ m.prewrite_ts = NoTs
  BY DEF InitRow
<1> HIDE DEF m
<1>4. Valid(m) = {} /\ Bufs(m) = {} /\ \A i \in DOMAIN m.hist : ~ m.hist[i].reserved
  BY <1>3 DEF Valid, Bufs, Empty
<1>5. ~ ExistsPrewrite(m)
  BY <1>3 DEF ExistsPrewrite
<1>6. VersionsInOrder(m)
  BY <1>3, <1>4, FS_EmptySet DEF VersionsInOrder
<1>7. BuffersApart(m)
  BY <1>3, <1>4 DEF BuffersApart
<1>8. ReservationKnown(m)
  BY <1>4, <1>5 DEF ReservationKnown
<1> QED  BY <1>2, <1>4, <1>5, <1>6, <1>7, <1>8 DEF m, GoodRow

LEMMA RowTypes ==
    ASSUME NEW m \in RowRecord
    PROVE  /\ m.base \in Nat /\ m.latest \in Nat /\ m.latest_wts \in Nat /\ m.oldest_wts \in Nat
           /\ m.hist \in Seq(Slot) /\ DOMAIN m.hist = 1..Len(m.hist) /\ Len(m.hist) \in Nat
           /\ m.num_versions \in Nat /\ m.prewrite_ts \in Nat /\ m.prewrite_id \in Nat
           /\ m.max_served_rts \in Nat /\ m.requests \subseteq Threads /\ m.data \in Seq(Nat)
           /\ DOMAIN m.data = 1..Len(m.data) /\ Len(m.data) \in Nat
           /\ \A i \in DOMAIN m.hist :
                 /\ m.hist[i] \in Slot /\ m.hist[i].ts \in Nat
                 /\ m.hist[i].valid \in BOOLEAN /\ m.hist[i].reserved \in BOOLEAN
                 /\ m.hist[i].buf \in Nat \cup {NoBuf}
<1>1. /\ m.base \in Nat /\ m.latest \in Nat /\ m.latest_wts \in Nat /\ m.oldest_wts \in Nat
      /\ m.hist \in Seq(Slot)
      /\ m.num_versions \in Nat /\ m.prewrite_ts \in Nat /\ m.prewrite_id \in Nat
      /\ m.max_served_rts \in Nat /\ m.requests \subseteq Threads /\ m.data \in Seq(Nat)
  BY DEF RowRecord
<1>2. DOMAIN m.hist = 1..Len(m.hist) /\ Len(m.hist) \in Nat
  BY <1>1
<1>3. DOMAIN m.data = 1..Len(m.data) /\ Len(m.data) \in Nat
  BY <1>1
<1>4. \A i \in DOMAIN m.hist : m.hist[i] \in Slot
  BY <1>1, <1>2
<1>5. \A s \in Slot : /\ s.ts \in Nat /\ s.valid \in BOOLEAN /\ s.reserved \in BOOLEAN
                      /\ s.buf \in Nat \cup {NoBuf}
  BY DEF Slot
<1> QED  BY <1>1, <1>2, <1>3, <1>4, <1>5

LEMMA ValidCounted ==
    ASSUME NEW m \in RowRecord
    PROVE  /\ IsFiniteSet(Valid(m)) /\ Cardinality(Valid(m)) \in Nat
           /\ Cardinality(Valid(m)) <= Len(m.hist)
           /\ Cardinality(Valid(m)) = Len(m.hist) => Valid(m) = DOMAIN m.hist
<1>1. DOMAIN m.hist = 1..Len(m.hist) /\ Len(m.hist) \in Nat
  BY RowTypes
<1>2. IsFiniteSet(1..Len(m.hist)) /\ Cardinality(1..Len(m.hist)) = Len(m.hist)
  BY <1>1, FS_Interval
<1>3. Valid(m) \in SUBSET (1..Len(m.hist))
  BY <1>1 DEF Valid
<1>4. /\ IsFiniteSet(Valid(m)) /\ Cardinality(Valid(m)) <= Len(m.hist)
      /\ Cardinality(1..Len(m.hist)) = Cardinality(Valid(m)) => 1..Len(m.hist) = Valid(m)
  BY <1>2, <1>3, FS_Subset
<1> QED  BY <1>1, <1>2, <1>4, FS_CardinalityType

LEMMA OldestFacts ==
    ASSUME NEW m \in RowRecord, NEW S \in SUBSET DOMAIN m.hist, S # {}
    PROVE  Oldest(m, S) \in S /\ \A j \in S : m.hist[Oldest(m, S)].ts <= m.hist[j].ts
<1> DEFINE T == {m.hist[i].ts : i \in S}
<1>1. T \in SUBSET Nat /\ T # {}
  BY RowTypes
<1>2. PICK x \in T : \A y \in T : x <= y
  <2> HIDE DEF T
  <2> QED  BY <1>1, NatLeast
<1>3. \E i \in S : \A j \in S : m.hist[i].ts <= m.hist[j].ts
  BY <1>2
<1> QED  BY <1>3 DEF Oldest

LEMMA YoungestFacts ==
    ASSUME NEW m \in RowRecord, NEW S \in SUBSET DOMAIN m.hist, S # {},
           NEW n \in Nat, \A i \in S : m.hist[i].ts <= n
    PROVE  Youngest(m, S) \in S /\ \A j \in S : m.hist[j].ts <= m.hist[Youngest(m, S)].ts
<1> DEFINE T == {m.hist[i].ts : i \in S}
<1>1. T \in SUBSET Nat /\ T # {} /\ \A x \in T : x <= n
  BY RowTypes
<1>2. PICK x \in T : \A y \in T : y <= x
  <2> HIDE DEF T
  <2> QED  BY <1>1, NatGreatest
<1>3. PICK i \in S : m.hist[i].ts = x
  BY <1>2
<1>4. \A j \in S : m.hist[i].ts \in Nat /\ m.hist[j].ts \in Nat /\ m.hist[j].ts <= m.hist[i].ts
  BY <1>2, <1>3, RowTypes
<1>5. \E k \in S : \A j \in S : m.hist[k].ts >= m.hist[j].ts
  BY <1>4
<1>6. /\ Youngest(m, S) \in S
      /\ \A j \in S : m.hist[Youngest(m, S)].ts >= m.hist[j].ts
  BY <1>5 DEF Youngest
<1> QED  BY <1>6, RowTypes

\* reserveRow's garbage collection.
LEMMA CollectedGood ==
    ASSUME NEW m, GoodRow(m), ~ ExistsPrewrite(m), NEW min \in Nat
    PROVE  LET n == Collected(m, min)
           IN  /\ GoodRow(n) /\ ~ ExistsPrewrite(n)
               /\ Keeps(m, n) /\ n.data = m.data
               /\ n.num_versions = Len(n.hist) => n.base # n.latest
<1> DEFINE S == {i \in Valid(m) : m.hist[i].ts < min}
           k == Youngest(m, S)
           n == Collected(m, min)
           newhist == [i \in DOMAIN m.hist |->
                          IF i \notin S THEN m.hist[i]
                          ELSE [m.hist[i] EXCEPT !.valid = FALSE, !.reserved = FALSE,
                                   !.buf = IF i = k THEN m.base ELSE @]]
           new == [m EXCEPT !.base = m.hist[k].buf, !.oldest_wts = m.hist[k].ts,
                            !.num_versions = @ - Cardinality(S), !.hist = newhist]
<1>1. /\ m \in RowRecord /\ m.hist # << >>
      /\ VersionsInOrder(m) /\ BuffersApart(m) /\ ReservationKnown(m)
  BY DEF GoodRow
<1>2. S \in SUBSET DOMAIN m.hist /\ S \subseteq Valid(m)
  BY DEF Valid
<1>3. ASSUME n = m
      PROVE  /\ GoodRow(n) /\ ~ ExistsPrewrite(n) /\ Keeps(m, n) /\ n.data = m.data
             /\ n.num_versions = Len(n.hist) => n.base # n.latest
  <2>1. Keeps(m, m)
    BY <1>1, RowTypes DEF Keeps
  <2>2. m.num_versions = Len(m.hist) => m.base # m.latest
    <3> SUFFICES ASSUME m.num_versions = Len(m.hist) PROVE m.base # m.latest
      OBVIOUS
    <3>1. Valid(m) # {}
      <4>1. m.hist \in Seq(Slot) /\ Len(m.hist) # 0
        BY <1>1, RowTypes
      <4>2. Cardinality(Valid(m)) # 0
        BY <1>1, <4>1 DEF VersionsInOrder
      <4> QED  BY <4>2, FS_EmptySet
    <3>2. PICK i \in Valid(m) : m.latest = m.hist[i].buf
      BY <1>1, <3>1 DEF VersionsInOrder
    <3> QED  BY <1>1, <3>2 DEF BuffersApart
  <2> QED  BY <1>3, <2>1, <2>2
<1>4. CASE ~ (m.oldest_wts < min /\ m.num_versions = Len(m.hist)) \/ S = {}
  <2>1. n = m
    BY <1>4 DEF Collected
  <2> QED  BY <1>3, <2>1
<1>5. CASE ~ (~ (m.oldest_wts < min /\ m.num_versions = Len(m.hist)) \/ S = {})
  <2>1. n = new
    <3>1. n = IF ~ (m.oldest_wts < min /\ m.num_versions = Len(m.hist)) \/ S = {}
              THEN m ELSE new
      BY Zenon DEF Collected
    <3> HIDE DEF n, new, S
    <3> QED  BY <1>5, <3>1
  <2>2. k \in S /\ \A j \in S : m.hist[j].ts <= m.hist[k].ts
    <3>1. \A i \in S : m.hist[i].ts <= min
      BY <1>1, <1>2, RowTypes
    <3>2. S # {}
      BY <1>5
    <3> HIDE DEF S
    <3> QED  BY <1>1, <1>2, <3>1, <3>2, YoungestFacts
  <2>3. /\ k \in Valid(m) /\ k \in DOMAIN m.hist /\ k \in Bufs(m)
        /\ m.hist[k].ts \in Nat /\ m.hist[k].buf \in DOMAIN m.data /\ m.hist[k].buf \in Nat
        /\ m.data[m.hist[k].buf] = m.hist[k].ts /\ m.oldest_wts < m.hist[k].ts
        /\ m.hist[k].ts < min
    <3>1. k \in Valid(m) /\ k \in DOMAIN m.hist /\ m.hist[k].ts < min
      BY <1>2, <2>2
    <3> HIDE DEF k, S
    <3>2. k \in Bufs(m) /\ m.data[m.hist[k].buf] = m.hist[k].ts
      BY <1>1, <3>1 DEF BuffersApart
    <3>3. m.hist[k].ts \in Nat /\ m.oldest_wts < m.hist[k].ts
      BY <1>1, <3>1, RowTypes DEF VersionsInOrder
    <3>4. m.hist[k].buf \in DOMAIN m.data /\ m.hist[k].buf \in Nat
      <4>1. m.hist[k].buf \in DOMAIN m.data
        BY <1>1, <3>2 DEF BuffersApart
      <4>2. DOMAIN m.data \subseteq Nat
        BY <1>1, RowTypes
      <4> QED  BY <4>1, <4>2
    <3> QED  BY <3>1, <3>2, <3>3, <3>4
  <2>4. /\ IsFiniteSet(Valid(m)) /\ IsFiniteSet(S) /\ Cardinality(S) \in Nat
        /\ Cardinality(S) <= Cardinality(Valid(m)) /\ Cardinality(Valid(m)) \in Nat
        /\ Cardinality(Valid(m) \ S) = Cardinality(Valid(m)) - Cardinality(S)
    <3>1. IsFiniteSet(Valid(m)) /\ Cardinality(Valid(m)) \in Nat
      BY <1>1, ValidCounted
    <3>2. IsFiniteSet(S) /\ Cardinality(S) <= Cardinality(Valid(m))
      BY <3>1, <1>2, FS_Subset
    <3>3. Valid(m) \cap S = S
      BY <1>2
    <3>4. Cardinality(Valid(m) \ S) = Cardinality(Valid(m)) - Cardinality(Valid(m) \cap S)
      <4> HIDE DEF S
      <4> QED  BY <3>1, <3>2, FS_Difference
    <3> QED  BY <3>1, <3>2, <3>3, <3>4, FS_CardinalityType
  <2>5. /\ newhist \in Seq(Slot) /\ Len(newhist) = Len(m.hist)
        /\ DOMAIN newhist = DOMAIN m.hist
        /\ \A i \in DOMAIN m.hist : i \notin S => newhist[i] = m.hist[i]
        /\ \A i \in S : /\ newhist[i].valid = FALSE /\ newhist[i].reserved = FALSE
                        /\ newhist[i].ts = m.hist[i].ts
                        /\ newhist[i].buf = IF i = k THEN m.base ELSE m.hist[i].buf
    <3>1. \A i \in DOMAIN m.hist : m.hist[i] \in Slot
      BY <1>1, RowTypes
    <3>2. ASSUME NEW i \in S
          PROVE  /\ newhist[i] \in Slot
                 /\ newhist[i].valid = FALSE /\ newhist[i].reserved = FALSE
                 /\ newhist[i].ts = m.hist[i].ts
                 /\ newhist[i].buf = IF i = k THEN m.base ELSE m.hist[i].buf
      <4>1. i \in DOMAIN m.hist /\ m.hist[i] \in Slot /\ m.base \in Nat
        BY <1>1, <1>2, <3>1, RowTypes
      <4>2. newhist[i] = [m.hist[i] EXCEPT !.valid = FALSE, !.reserved = FALSE,
                                            !.buf = IF i = k THEN m.base ELSE @]
        BY <4>1
      <4> HIDE DEF newhist, k, S
      <4> QED  BY <4>1, <4>2 DEF Slot
    <3>3. \A i \in DOMAIN m.hist : newhist[i] \in Slot
      <4> TAKE i \in DOMAIN m.hist
      <4>1. CASE i \in S
        BY <3>2, <4>1
      <4>2. CASE i \notin S
        <5>1. newhist[i] = m.hist[i]
          BY <4>2
        <5> QED  BY <3>1, <5>1
      <4> QED  BY <4>1, <4>2
    <3>4. DOMAIN m.hist = 1..Len(m.hist) /\ Len(m.hist) \in Nat
      BY <1>1, RowTypes
    <3>5. newhist \in [1..Len(m.hist) -> Slot]
      BY <3>3, <3>4
    <3>6. newhist \in Seq(Slot) /\ Len(newhist) = Len(m.hist)
      <4> HIDE DEF newhist
      <4> QED  BY <3>4, <3>5
    <3> QED  BY <3>2, <3>6, <3>4
  <2> HIDE DEF newhist, k, S
  <2>6. /\ n.base = m.hist[k].buf /\ n.oldest_wts = m.hist[k].ts /\ n.hist = newhist
        /\ n.num_versions = m.num_versions - Cardinality(S)
        /\ n.latest = m.latest /\ n.latest_wts = m.latest_wts /\ n.data = m.data
        /\ n.prewrite_ts = m.prewrite_ts /\ n.max_served_rts = m.max_served_rts
        /\ n.requests = m.requests
    BY <1>1, <2>1 DEF RowRecord
  <2>7. m.num_versions = Cardinality(Valid(m))
    BY <1>1 DEF VersionsInOrder
  <2>8. n \in RowRecord
    <3>1. m.num_versions - Cardinality(S) \in Nat
      BY <2>4, <2>7
    <3> QED  BY <1>1, <2>1, <2>3, <2>5, <3>1 DEF RowRecord
  <2> HIDE DEF n, new
  <2>9. Valid(n) = Valid(m) \ S
    <3>1. \A i \in DOMAIN m.hist : newhist[i].valid <=> m.hist[i].valid /\ i \notin S
      BY <1>1, <2>5, RowTypes
    <3> QED  BY <2>5, <2>6, <3>1 DEF Valid
  <2>10. \A i \in Valid(n) : i \in Valid(m) /\ n.hist[i] = m.hist[i] /\ i \notin S
    BY <2>5, <2>6, <2>9 DEF Valid
  <2>11. \A i \in Valid(n) : n.oldest_wts < n.hist[i].ts
    <3> TAKE i \in Valid(n)
    <3>1. i \in Valid(m) /\ n.hist[i] = m.hist[i] /\ i \notin S /\ m.hist[i].ts \in Nat
      BY <2>10, <1>1, RowTypes DEF Valid
    <3>2. ~ (m.hist[i].ts < min)
      BY <3>1 DEF S
    <3> QED  BY <2>3, <2>6, <3>1, <3>2
  <2>12. \E i \in Valid(m) : m.latest = m.hist[i].buf /\ m.latest_wts = m.hist[i].ts
    BY <1>1, <2>3 DEF VersionsInOrder
  <2>13. VersionsInOrder(n)
    <3>1. n.num_versions = Cardinality(Valid(n))
      BY <2>4, <2>6, <2>7, <2>9
    <3>2. /\ \A i, j \in Valid(n) : n.hist[i].ts = n.hist[j].ts => i = j
          /\ \A i \in Valid(n) : n.hist[i].ts <= n.latest_wts
      BY <1>1, <2>6, <2>10 DEF VersionsInOrder
    <3>3. PICK l \in Valid(m) : m.latest = m.hist[l].buf /\ m.latest_wts = m.hist[l].ts
      BY <2>12
    <3>4. ASSUME Valid(n) = {} PROVE n.latest = n.base /\ n.latest_wts = n.oldest_wts
      <4>1. l \in S
        BY <2>9, <3>3, <3>4
      <4>2. m.hist[l].ts <= m.hist[k].ts /\ m.hist[k].ts <= m.latest_wts
        BY <1>1, <2>2, <2>3, <4>1 DEF VersionsInOrder
      <4>3. l = k
        <5>1. m.latest_wts \in Nat
          BY <1>1, RowTypes
        <5>2. m.hist[l].ts = m.hist[k].ts
          BY <2>3, <3>3, <4>2, <5>1
        <5> QED  BY <1>1, <2>3, <3>3, <5>2 DEF VersionsInOrder
      <4> QED  BY <2>6, <3>3, <4>3
    <3>5. ASSUME Valid(n) # {}
          PROVE  \E i \in Valid(n) : n.latest = n.hist[i].buf /\ n.latest_wts = n.hist[i].ts
      <4>1. PICK i \in Valid(n) : TRUE
        BY <3>5
      <4>2. i \in Valid(m) /\ i \notin S /\ m.hist[i].ts <= m.hist[l].ts /\ m.hist[i].ts \in Nat
        BY <1>1, <2>10, <3>3, RowTypes DEF VersionsInOrder, Valid
      <4>3. ~ (m.hist[i].ts < min)
        BY <4>2 DEF S
      <4>4. l \notin S
        BY <1>1, <3>3, <4>2, <4>3, RowTypes DEF S
      <4>5. l \in Valid(n)
        BY <2>9, <3>3, <4>4
      <4> QED  BY <2>6, <2>10, <3>3, <4>5
    <3> QED  BY <2>11, <3>1, <3>2, <3>4, <3>5 DEF VersionsInOrder
  <2>14. /\ Bufs(n) = Bufs(m)
         /\ \A i \in Bufs(m) : n.hist[i].buf = IF i = k THEN m.base ELSE m.hist[i].buf
    <3>1. \A i \in DOMAIN m.hist : n.hist[i].buf = IF i = k THEN m.base ELSE m.hist[i].buf
      BY <2>2, <2>5, <2>6
    <3>2. m.base # NoBuf
      BY <1>1, RowTypes, MvccAssumption
    <3>3. DOMAIN n.hist = DOMAIN m.hist
      BY <2>5, <2>6
    <3> QED  BY <2>3, <3>1, <3>2, <3>3 DEF Bufs
  <2>15. BuffersApart(n)
    <3>1. n.base \in DOMAIN n.data /\ n.data[n.base] = n.oldest_wts
      BY <2>3, <2>6
    <3>2. \A i \in Bufs(n) : n.hist[i].buf \in DOMAIN n.data /\ n.hist[i].buf # n.base
      BY <1>1, <2>3, <2>6, <2>14 DEF BuffersApart
    <3>3. \A i, j \in Bufs(n) : n.hist[i].buf = n.hist[j].buf => i = j
      BY <1>1, <2>14 DEF BuffersApart
    <3>4. \A i \in Valid(n) : i \in Bufs(n) /\ n.data[n.hist[i].buf] = n.hist[i].ts
      BY <1>1, <2>6, <2>10, <2>14 DEF BuffersApart
    <3> QED  BY <3>1, <3>2, <3>3, <3>4 DEF BuffersApart
  <2>16. ~ ExistsPrewrite(n)
    BY <2>6 DEF ExistsPrewrite
  <2>17. ReservationKnown(n)
    <3>1. \A i \in DOMAIN m.hist : ~ (m.hist[i].reserved /\ ~ m.hist[i].valid)
      BY <1>1 DEF ReservationKnown
    <3>2. \A i \in DOMAIN n.hist : ~ (n.hist[i].reserved /\ ~ n.hist[i].valid)
      BY <2>5, <2>6, <3>1
    <3> QED  BY <2>16, <3>2 DEF ReservationKnown
  <2>18. Keeps(m, n)
    <3>1. \A i \in Valid(m) : i \in Valid(n) \/ m.hist[i].ts <= n.oldest_wts
      BY <2>2, <2>6, <2>9
    <3>2. m.oldest_wts <= n.oldest_wts
      <4>1. m.oldest_wts \in Nat
        BY <1>1, RowTypes
      <4>2. n.oldest_wts = m.hist[k].ts /\ m.hist[k].ts \in Nat /\ m.oldest_wts < m.hist[k].ts
        BY <2>3, <2>6
      <4> QED  BY <4>1, <4>2
    <3> QED  BY <2>3, <2>6, <2>10, <3>1, <3>2 DEF Keeps
  <2>19. n.num_versions # Len(n.hist)
    <3>1. Cardinality(S) # 0
      BY <2>2, <2>4, FS_EmptySet
    <3> QED  BY <1>5, <2>4, <2>5, <2>6, <2>7, <3>1
  <2>20. n.hist # << >>
    BY <1>1, <2>3, <2>5, <2>6, RowTypes
  <2> QED  BY <2>6, <2>8, <2>13, <2>15, <2>16, <2>17, <2>18, <2>19, <2>20 DEF GoodRow, n
<1> QED  BY <1>4, <1>5

LEMMA LatestData ==
    ASSUME NEW m, GoodRow(m)
    PROVE  m.latest \in DOMAIN m.data /\ m.data[m.latest] = m.latest_wts
<1>1. VersionsInOrder(m) /\ BuffersApart(m)
  BY DEF GoodRow
<1>2. CASE Valid(m) = {}
  BY <1>1, <1>2 DEF VersionsInOrder, BuffersApart
<1>3. CASE Valid(m) # {}
  BY <1>1, <1>3 DEF VersionsInOrder, BuffersApart
<1> QED  BY <1>2, <1>3

LEMMA KeepsTrans ==
    ASSUME NEW m \in RowRecord, NEW n \in RowRecord, NEW p \in RowRecord, Keeps(m, n), Keeps(n, p)
    PROVE  Keeps(m, p)
<1>1. m.oldest_wts \in Nat /\ n.oldest_wts \in Nat /\ p.oldest_wts \in Nat
  BY RowTypes
<1>2. \A i \in Valid(m) : m.hist[i].ts \in Nat
  BY RowTypes DEF Valid
<1>3. p.oldest_wts = m.oldest_wts \/ \E i \in Valid(m) : p.oldest_wts = m.hist[i].ts
  BY DEF Keeps
<1>4. \A i \in Valid(m) : i \in Valid(p) \/ m.hist[i].ts <= p.oldest_wts
  BY <1>1, <1>2 DEF Keeps
<1>5. m.oldest_wts <= p.oldest_wts
  BY <1>1 DEF Keeps
<1> QED  BY <1>3, <1>4, <1>5 DEF Keeps

\* q is p with the slot k taken at time at, with its buffer or a new one.
Taken(p, q, k, at, b) ==
    /\ q.base = p.base /\ q.latest = p.latest /\ q.latest_wts = p.latest_wts
    /\ q.oldest_wts = p.oldest_wts /\ q.num_versions = p.num_versions
    /\ q.max_served_rts = p.max_served_rts /\ q.requests = p.requests
    /\ q.prewrite_ts = at /\ q.prewrite_id = k
    /\ q.hist = [p.hist EXCEPT ![k] = [valid |-> FALSE, reserved |-> TRUE, ts |-> at, buf |-> b]]
    /\ \/ p.hist[k].buf = NoBuf /\ b = Len(p.data) + 1 /\ q.data = Append(p.data, p.latest_wts)
       \/ /\ p.hist[k].buf = b /\ b # NoBuf
          /\ q.data = [p.data EXCEPT ![b] = p.latest_wts]

LEMMA SlotTaken ==
    ASSUME NEW p, GoodRow(p), ~ ExistsPrewrite(p), NEW k \in Unused(p),
           NEW at \in Nat, p.latest_wts < at, at # NoTs, NEW b, NEW q \in RowRecord,
           Taken(p, q, k, at, b)
    PROVE  /\ GoodRow(q) /\ Keeps(p, q) /\ ExistsPrewrite(q)
           /\ b = ReservedBuf(q) /\ b \in DOMAIN q.data /\ b # q.latest
           /\ q.data[b] = q.latest_wts
           /\ \A x \in DOMAIN p.data : x \in DOMAIN q.data /\ (x # b => q.data[x] = p.data[x])
<1>0. /\ q.base = p.base /\ q.latest = p.latest /\ q.latest_wts = p.latest_wts
      /\ q.oldest_wts = p.oldest_wts /\ q.num_versions = p.num_versions
      /\ q.max_served_rts = p.max_served_rts /\ q.requests = p.requests
      /\ q.prewrite_ts = at /\ q.prewrite_id = k
      /\ q.hist = [p.hist EXCEPT ![k] = [valid |-> FALSE, reserved |-> TRUE, ts |-> at, buf |-> b]]
      /\ \/ p.hist[k].buf = NoBuf /\ b = Len(p.data) + 1 /\ q.data = Append(p.data, p.latest_wts)
         \/ /\ p.hist[k].buf = b /\ b # NoBuf
            /\ q.data = [p.data EXCEPT ![b] = p.latest_wts]
  BY DEF Taken
<1> USE <1>0
<1>1. /\ p \in RowRecord /\ p.hist # << >>
      /\ VersionsInOrder(p) /\ BuffersApart(p) /\ ReservationKnown(p)
  BY DEF GoodRow
<1>2. /\ k \in DOMAIN p.hist /\ ~ p.hist[k].valid /\ DOMAIN q.hist = DOMAIN p.hist
      /\ \A i \in DOMAIN p.hist : i # k => q.hist[i] = p.hist[i]
      /\ ~ q.hist[k].valid /\ q.hist[k].reserved /\ q.hist[k].buf = b
  BY DEF Unused
<1>3. Valid(q) = Valid(p) /\ k \notin Valid(p) /\ \A i \in Valid(p) : i # k /\ q.hist[i] = p.hist[i]
  BY <1>2 DEF Valid
<1>4. /\ p.data \in Seq(Nat) /\ DOMAIN p.data = 1..Len(p.data) /\ Len(p.data) \in Nat
      /\ p.latest_wts \in Nat
  BY <1>1, RowTypes
<1>5. /\ b \in DOMAIN q.data /\ b \in Nat
      /\ \A x \in DOMAIN p.data : x \in DOMAIN q.data /\ (x # b => q.data[x] = p.data[x])
      /\ q.data[b] = p.latest_wts
      /\ b # p.base /\ \A i \in Bufs(p) : i # k => p.hist[i].buf # b
  <2>1. CASE p.hist[k].buf = NoBuf /\ b = Len(p.data) + 1 /\ q.data = Append(p.data, p.latest_wts)
    <3>1. /\ b \in DOMAIN q.data /\ b \in Nat /\ q.data[b] = p.latest_wts /\ b \notin DOMAIN p.data
          /\ \A x \in DOMAIN p.data : x \in DOMAIN q.data /\ q.data[x] = p.data[x]
      BY <1>4, <2>1
    <3> QED  BY <1>1, <3>1 DEF BuffersApart
  <2>2. CASE /\ p.hist[k].buf = b /\ b # NoBuf
             /\ q.data = [p.data EXCEPT ![b] = p.latest_wts]
    <3>1. k \in Bufs(p)
      BY <1>2, <2>2 DEF Bufs
    <3>2. b \in DOMAIN p.data /\ b # p.base /\ \A i \in Bufs(p) : i # k => p.hist[i].buf # b
      BY <1>1, <2>2, <3>1 DEF BuffersApart
    <3> QED  BY <1>4, <2>2, <3>2
  <2> QED  BY <2>1, <2>2
<1>6. ExistsPrewrite(q)
  BY DEF ExistsPrewrite
<1>7. VersionsInOrder(q)
  BY <1>1, <1>3 DEF VersionsInOrder
<1>8. Bufs(q) = Bufs(p) \cup {k}
  BY <1>2, <1>5, MvccAssumption DEF Bufs
<1>9. BuffersApart(q)
  <2>1. q.base \in DOMAIN q.data /\ q.data[q.base] = q.oldest_wts
    BY <1>1, <1>5 DEF BuffersApart
  <2>2. ASSUME NEW i \in Bufs(q)
        PROVE  q.hist[i].buf \in DOMAIN q.data /\ q.hist[i].buf # q.base
    <3>1. CASE i = k
      BY <1>2, <1>5, <3>1
    <3>2. CASE i # k
      <4>1. i \in Bufs(p) /\ q.hist[i] = p.hist[i]
        BY <1>2, <1>8, <3>2 DEF Bufs
      <4> QED  BY <1>1, <1>5, <4>1 DEF BuffersApart
    <3> QED  BY <3>1, <3>2
  <2>3. ASSUME NEW i \in Bufs(q), NEW j \in Bufs(q), q.hist[i].buf = q.hist[j].buf PROVE i = j
    <3>1. \A x \in Bufs(q) : x # k => x \in Bufs(p) /\ q.hist[x] = p.hist[x] /\ p.hist[x].buf # b
      BY <1>2, <1>5, <1>8 DEF Bufs
    <3>2. CASE i = k \/ j = k
      BY <1>2, <2>3, <3>1, <3>2
    <3>3. CASE i # k /\ j # k
      BY <1>1, <2>3, <3>1, <3>3 DEF BuffersApart
    <3> QED  BY <3>2, <3>3
  <2>4. \A i \in Valid(q) : i \in Bufs(q) /\ q.data[q.hist[i].buf] = q.hist[i].ts
    BY <1>1, <1>3, <1>5, <1>8 DEF BuffersApart
  <2> QED  BY <2>1, <2>2, <2>3, <2>4 DEF BuffersApart
<1>10. ReservationKnown(q)
  <2>1. \A i \in DOMAIN q.hist : q.hist[i].reserved /\ ~ q.hist[i].valid => i = k
    BY <1>1, <1>2 DEF ReservationKnown
  <2> QED  BY <1>2, <1>6, <1>8, <2>1 DEF ReservationKnown
<1>11. Keeps(p, q)
  BY <1>1, <1>3, RowTypes DEF Keeps
<1>12. b # q.latest
  <2>1. CASE Valid(p) = {}
    BY <1>1, <1>5, <2>1 DEF VersionsInOrder
  <2>2. CASE Valid(p) # {}
    <3>1. PICK i \in Valid(p) : p.latest = p.hist[i].buf
      BY <1>1, <2>2 DEF VersionsInOrder
    <3>2. i \in Bufs(p) /\ i # k
      BY <1>1, <1>3 DEF BuffersApart
    <3> QED  BY <1>5, <3>1, <3>2
  <2> QED  BY <2>1, <2>2
<1>13. q.hist # << >>
  BY <1>1, <1>2, RowTypes
<1> QED  BY <1>2, <1>5, <1>6, <1>7, <1>9, <1>10, <1>11, <1>12, <1>13 DEF GoodRow, ReservedBuf

LEMMA UnusedSlotFacts ==
    ASSUME NEW m, GoodRow(m), ~ ExistsPrewrite(m), m.num_versions < Len(m.hist)
    PROVE  UnusedSlot(m) \in Unused(m)
<1>1. m \in RowRecord /\ VersionsInOrder(m) /\ ReservationKnown(m)
  BY DEF GoodRow
<1>2. DOMAIN m.hist = 1..Len(m.hist) /\ Len(m.hist) \in Nat
  BY <1>1, RowTypes
<1>3. Valid(m) # DOMAIN m.hist
  <2>1. Cardinality(1..Len(m.hist)) = Len(m.hist)
    BY <1>2, FS_Interval
  <2>2. m.num_versions = Cardinality(Valid(m)) /\ m.num_versions \in Nat
    BY <1>1, RowTypes DEF VersionsInOrder
  <2> QED  BY <1>2, <2>1, <2>2
<1>4. Unused(m) = DOMAIN m.hist \ Valid(m)
  BY <1>1 DEF Unused, Valid, ReservationKnown
<1>5. Unused(m) # {} /\ Unused(m) \in SUBSET Nat /\ \A x \in Unused(m) : x <= Len(m.hist)
  BY <1>2, <1>3, <1>4 DEF Valid
<1> DEFINE S == {i \in Unused(m) : m.hist[i].buf # NoBuf}
<1>6. S \in SUBSET Nat /\ S \subseteq Unused(m)
  BY <1>5
<1>7. UnusedSlot(m) = IF S # {} THEN Min(S) ELSE Max(Unused(m))
  BY DEF UnusedSlot
<1> HIDE DEF S
<1>8. CASE S # {}
  BY <1>6, <1>7, <1>8, MinFacts
<1>9. CASE S = {}
  BY <1>2, <1>5, <1>7, <1>9, MaxFacts
<1> QED  BY <1>8, <1>9

\* The version in slot k becomes the base: the row as it is without it.
Rebased(m, k) ==
    [m EXCEPT !.base = m.hist[k].buf, !.oldest_wts = m.hist[k].ts,
              !.num_versions = @ - 1, !.prewrite_id = k,
              !.hist[k] = [valid |-> FALSE, reserved |-> FALSE,
                           ts |-> m.hist[k].ts, buf |-> m.base]]

LEMMA RebasedGood ==
    ASSUME NEW m, GoodRow(m), ~ ExistsPrewrite(m), m.num_versions = Len(m.hist)
    PROVE  LET k == Oldest(m, Valid(m))
               p == Rebased(m, k)
           IN  /\ GoodRow(p) /\ ~ ExistsPrewrite(p) /\ Keeps(m, p) /\ p.data = m.data
               /\ k \in Unused(p) /\ k \in DOMAIN m.hist
<1> DEFINE k == Oldest(m, Valid(m))
           p == Rebased(m, k)
<1>1. /\ m \in RowRecord /\ m.hist # << >>
      /\ VersionsInOrder(m) /\ BuffersApart(m) /\ ReservationKnown(m)
  BY DEF GoodRow
<1>2. /\ m.hist \in Seq(Slot) /\ DOMAIN m.hist = 1..Len(m.hist) /\ Len(m.hist) \in Nat
      /\ Len(m.hist) # 0
  BY <1>1, RowTypes
<1>3. Valid(m) = DOMAIN m.hist /\ Valid(m) # {}
  BY <1>1, <1>2, ValidCounted DEF VersionsInOrder
<1>4. k \in Valid(m) /\ \A j \in Valid(m) : m.hist[k].ts <= m.hist[j].ts
  BY <1>1, <1>3, OldestFacts
<1> HIDE DEF k
<1>5. /\ k \in DOMAIN m.hist /\ k \in Bufs(m) /\ m.hist[k].ts \in Nat
      /\ m.oldest_wts < m.hist[k].ts /\ m.data[m.hist[k].buf] = m.hist[k].ts
  BY <1>1, <1>3, <1>4, RowTypes DEF VersionsInOrder, BuffersApart
<1>6. m.hist[k].buf \in DOMAIN m.data /\ m.hist[k].buf \in Nat /\ m.base \in Nat
  <2>1. m.hist[k].buf \in DOMAIN m.data
    BY <1>1, <1>5 DEF BuffersApart
  <2>2. DOMAIN m.data \subseteq Nat /\ m.base \in Nat
    BY <1>1, RowTypes
  <2> QED  BY <2>1, <2>2
<1>7. /\ p.base = m.hist[k].buf /\ p.oldest_wts = m.hist[k].ts
      /\ p.num_versions = m.num_versions - 1 /\ p.latest = m.latest
      /\ p.latest_wts = m.latest_wts /\ p.data = m.data /\ p.prewrite_ts = m.prewrite_ts
      /\ p.max_served_rts = m.max_served_rts /\ p.requests = m.requests
      /\ p.hist = [m.hist EXCEPT ![k] = [valid |-> FALSE, reserved |-> FALSE,
                                         ts |-> m.hist[k].ts, buf |-> m.base]]
  BY <1>1 DEF RowRecord, Rebased
<1>8. /\ DOMAIN p.hist = DOMAIN m.hist /\ \A i \in DOMAIN m.hist : i # k => p.hist[i] = m.hist[i]
      /\ ~ p.hist[k].valid /\ ~ p.hist[k].reserved /\ p.hist[k].buf = m.base
      /\ p.hist[k].ts = m.hist[k].ts
  BY <1>5, <1>7
<1>9. p.hist \in Seq(Slot)
  <2>1. [valid |-> FALSE, reserved |-> FALSE, ts |-> m.hist[k].ts, buf |-> m.base] \in Slot
    BY <1>5, <1>6 DEF Slot
  <2> QED  BY <1>2, <1>5, <1>7, <2>1
<1>10. p \in RowRecord
  <2>1. m.num_versions - 1 \in Nat
    BY <1>2
  <2>2. p.hist \in Seq(Slot) /\ p.base \in Nat /\ p.oldest_wts \in Nat /\ p.num_versions \in Nat
    BY <1>5, <1>6, <1>7, <1>9, <2>1
  <2>3. k \in Nat
    BY <1>2, <1>5
  <2>4. p = [m EXCEPT !.base = p.base, !.oldest_wts = p.oldest_wts, !.num_versions = p.num_versions,
                      !.prewrite_id = k, !.hist = p.hist]
    BY <1>1, <1>7 DEF RowRecord, Rebased
  <2> HIDE DEF p
  <2> QED  BY <1>1, <2>2, <2>3, <2>4 DEF RowRecord
<1> HIDE DEF p
<1>11. Valid(p) = Valid(m) \ {k} /\ \A i \in Valid(p) : p.hist[i] = m.hist[i]
  BY <1>3, <1>8 DEF Valid
<1>12. ~ ExistsPrewrite(p)
  BY <1>7 DEF ExistsPrewrite
<1>13. VersionsInOrder(p)
  <2>1. p.num_versions = Cardinality(Valid(p))
    <3>1. IsFiniteSet(Valid(m))
      BY <1>1, ValidCounted
    <3>2. Cardinality(Valid(m) \ {k}) = Cardinality(Valid(m)) - 1
      BY <1>4, <3>1, FS_RemoveElement
    <3> QED  BY <1>1, <1>7, <1>11, <3>2 DEF VersionsInOrder
  <2>2. \A i \in Valid(m) : m.hist[i].ts \in Nat
    BY <1>1, <1>3, RowTypes
  <2>3. \A i \in Valid(p) : p.oldest_wts < p.hist[i].ts /\ p.hist[i].ts <= p.latest_wts
    BY <1>1, <1>4, <1>7, <1>11, <2>2 DEF VersionsInOrder
  <2>4. \A i, j \in Valid(p) : p.hist[i].ts = p.hist[j].ts => i = j
    BY <1>1, <1>11 DEF VersionsInOrder
  <2>5. PICK l \in Valid(m) : m.latest = m.hist[l].buf /\ m.latest_wts = m.hist[l].ts
    BY <1>1, <1>3 DEF VersionsInOrder
  <2>6. ASSUME Valid(p) = {} PROVE p.latest = p.base /\ p.latest_wts = p.oldest_wts
    BY <1>7, <1>11, <2>5, <2>6
  <2>7. ASSUME Valid(p) # {}
        PROVE  \E i \in Valid(p) : p.latest = p.hist[i].buf /\ p.latest_wts = p.hist[i].ts
    <3>1. PICK i \in Valid(p) : TRUE
      BY <2>7
    <3>2. p.oldest_wts < p.hist[i].ts /\ p.hist[i].ts <= m.hist[l].ts
      BY <1>7, <2>3, <2>5
    <3>3. l # k
      BY <1>7, <1>11, <2>2, <3>2
    <3> QED  BY <1>7, <1>11, <2>5, <3>3
  <2> QED  BY <2>1, <2>3, <2>4, <2>6, <2>7 DEF VersionsInOrder
<1>14. Bufs(p) = Bufs(m) /\ \A i \in Bufs(m) : p.hist[i].buf = IF i = k THEN m.base ELSE m.hist[i].buf
  BY <1>5, <1>6, <1>8, MvccAssumption DEF Bufs
<1>15. BuffersApart(p)
  <2>1. p.base \in DOMAIN p.data /\ p.data[p.base] = p.oldest_wts
    BY <1>5, <1>6, <1>7
  <2>2. \A i \in Bufs(p) : p.hist[i].buf \in DOMAIN p.data /\ p.hist[i].buf # p.base
    BY <1>1, <1>5, <1>7, <1>14 DEF BuffersApart
  <2>3. \A i, j \in Bufs(p) : p.hist[i].buf = p.hist[j].buf => i = j
    BY <1>1, <1>14 DEF BuffersApart
  <2>4. \A i \in Valid(p) : i \in Bufs(p) /\ p.data[p.hist[i].buf] = p.hist[i].ts
    BY <1>1, <1>7, <1>11, <1>14 DEF BuffersApart
  <2> QED  BY <2>1, <2>2, <2>3, <2>4 DEF BuffersApart
<1>16. ReservationKnown(p)
  BY <1>1, <1>8, <1>12 DEF ReservationKnown
<1>17. Keeps(m, p)
  <2>1. \A i \in Valid(m) : i \in Valid(p) \/ m.hist[i].ts <= p.oldest_wts
    BY <1>5, <1>7, <1>11
  <2>2. m.oldest_wts <= p.oldest_wts
    <3>1. m.oldest_wts \in Nat
      BY <1>1, RowTypes
    <3>2. p.oldest_wts = m.hist[k].ts /\ m.hist[k].ts \in Nat /\ m.oldest_wts < m.hist[k].ts
      BY <1>5, <1>7
    <3> QED  BY <3>1, <3>2
  <2> QED  BY <1>4, <1>7, <1>11, <2>1, <2>2 DEF Keeps
<1>18. p.hist # << >> /\ k \in Unused(p)
  BY <1>2, <1>5, <1>8 DEF Unused
<1> QED  BY <1>5, <1>7, <1>10, <1>12, <1>13, <1>15, <1>16, <1>17, <1>18 DEF GoodRow, k, p

LEMMA DoubledGood ==
    ASSUME NEW m, GoodRow(m), ~ ExistsPrewrite(m)
    PROVE  LET p == Doubled(m)
           IN  /\ GoodRow(p) /\ ~ ExistsPrewrite(p) /\ Keeps(m, p) /\ p.data = m.data
               /\ p.prewrite_id \in Unused(p)
<1> DEFINE p == Doubled(m)
           L == Len(m.hist)
           more == [i \in DOMAIN m.hist |-> Empty]
<1>1. /\ m \in RowRecord /\ m.hist # << >>
      /\ VersionsInOrder(m) /\ BuffersApart(m) /\ ReservationKnown(m)
  BY DEF GoodRow
<1>2. m.hist \in Seq(Slot) /\ DOMAIN m.hist = 1..L /\ L \in Nat /\ L # 0
  BY <1>1, RowTypes
<1>3. more \in Seq(Slot) /\ Len(more) = L /\ \A i \in 1..L : more[i] = Empty
  <2>1. Empty \in Slot
    BY DEF Empty, Slot
  <2> QED  BY <1>2, <2>1
<1>4. /\ p.hist = m.hist \o more /\ p.prewrite_id = L + 1
      /\ p.base = m.base /\ p.oldest_wts = m.oldest_wts /\ p.num_versions = m.num_versions
      /\ p.latest = m.latest /\ p.latest_wts = m.latest_wts /\ p.data = m.data
      /\ p.prewrite_ts = m.prewrite_ts /\ p.max_served_rts = m.max_served_rts
      /\ p.requests = m.requests
  BY <1>1 DEF Doubled, RowRecord
<1> HIDE DEF more
<1>5. p.hist \in Seq(Slot) /\ Len(p.hist) = L + L /\ DOMAIN p.hist = 1..(L + L)
  <2> HIDE DEF p
  <2>1. m.hist \o more \in Seq(Slot) /\ Len(m.hist \o more) = L + L
    BY <1>2, <1>3
  <2>2. p.hist \in Seq(Slot) /\ Len(p.hist) = L + L
    BY <1>4, <2>1
  <2> HIDE DEF L
  <2>3. DOMAIN p.hist = 1..Len(p.hist)
    BY <2>2
  <2> QED  BY <2>2, <2>3
<1>6. p \in RowRecord
  <2>1. p = [m EXCEPT !.hist = m.hist \o more, !.prewrite_id = L + 1]
    BY DEF Doubled, more
  <2>2. m.hist \o more \in Seq(Slot) /\ L + 1 \in Nat
    BY <1>2, <1>4, <1>5
  <2> HIDE DEF p, L
  <2> QED  BY <1>1, <2>1, <2>2 DEF RowRecord
<1> HIDE DEF p
<1>7. /\ \A i \in 1..L : p.hist[i] = m.hist[i]
      /\ \A i \in (L + 1)..(L + L) : p.hist[i] = Empty
  BY <1>2, <1>3, <1>4
<1>8. \A i \in DOMAIN p.hist : i \in 1..L \/ p.hist[i] = Empty
  BY <1>2, <1>5, <1>7
<1>9. /\ Valid(p) = Valid(m) /\ Bufs(p) = Bufs(m)
      /\ \A i \in Valid(m) : p.hist[i] = m.hist[i]
      /\ \A i \in Bufs(m) : p.hist[i] = m.hist[i]
  <2>1. \A i \in 1..L : i \in DOMAIN p.hist /\ p.hist[i] = m.hist[i]
    BY <1>2, <1>5, <1>7
  <2>2. Empty.valid = FALSE /\ Empty.buf = NoBuf
    BY DEF Empty
  <2> QED  BY <1>2, <1>8, <2>1, <2>2 DEF Valid, Bufs
<1>10. VersionsInOrder(p)
  BY <1>1, <1>4, <1>9 DEF VersionsInOrder
<1>11. BuffersApart(p)
  <2>1. p.base \in DOMAIN p.data /\ p.data[p.base] = p.oldest_wts
    BY <1>1, <1>4 DEF BuffersApart
  <2>2. \A i \in Bufs(p) : p.hist[i].buf \in DOMAIN p.data /\ p.hist[i].buf # p.base
    BY <1>1, <1>4, <1>9 DEF BuffersApart
  <2>3. \A i, j \in Bufs(p) : p.hist[i].buf = p.hist[j].buf => i = j
    BY <1>1, <1>9 DEF BuffersApart
  <2>4. \A i \in Valid(p) : i \in Bufs(p) /\ p.data[p.hist[i].buf] = p.hist[i].ts
    BY <1>1, <1>4, <1>9 DEF BuffersApart
  <2> QED  BY <2>1, <2>2, <2>3, <2>4 DEF BuffersApart
<1>12. ~ ExistsPrewrite(p)
  BY <1>4 DEF ExistsPrewrite
<1>13. ReservationKnown(p)
  <2>1. \A i \in DOMAIN p.hist : ~ (p.hist[i].reserved /\ ~ p.hist[i].valid)
    BY <1>1, <1>2, <1>7, <1>8 DEF ReservationKnown, Empty
  <2> QED  BY <1>12, <2>1 DEF ReservationKnown
<1>14. Keeps(m, p)
  <2>1. m.oldest_wts <= p.oldest_wts
    BY <1>1, <1>4, RowTypes
  <2> QED  BY <1>4, <1>9, <2>1 DEF Keeps
<1>15. p.prewrite_id \in Unused(p) /\ p.hist # << >>
  <2>1. L + 1 \in DOMAIN p.hist /\ p.hist[L + 1] = Empty
    BY <1>2, <1>5, <1>7
  <2> QED  BY <1>4, <2>1 DEF Unused, Empty
<1> QED  BY <1>4, <1>6, <1>10, <1>11, <1>12, <1>13, <1>14, <1>15 DEF GoodRow, p

\* n is p but for the slot k, of which only the buffer is of interest.
LEMMA SlotReservedGood ==
    ASSUME NEW p, GoodRow(p), ~ ExistsPrewrite(p), NEW k \in Unused(p),
           NEW at \in Nat, p.latest_wts < at, at # NoTs, NEW n \in RowRecord,
           n.prewrite_id = k, DOMAIN n.hist = DOMAIN p.hist, n.hist[k].buf = p.hist[k].buf,
           \A i \in DOMAIN p.hist : i # k => n.hist[i] = p.hist[i],
           n.base = p.base, n.latest = p.latest, n.latest_wts = p.latest_wts,
           n.oldest_wts = p.oldest_wts, n.num_versions = p.num_versions,
           n.max_served_rts = p.max_served_rts, n.requests = p.requests, n.data = p.data
    PROVE  LET q == SlotReserved(n, at)
               b == ReservedBuf(q)
           IN  /\ GoodRow(q) /\ Keeps(p, q) /\ ExistsPrewrite(q) /\ q.prewrite_ts = at
               /\ b \in DOMAIN q.data /\ b # q.latest /\ q.data[b] = q.latest_wts
               /\ \A x \in DOMAIN p.data : x \in DOMAIN q.data /\ (x # b => q.data[x] = p.data[x])
<1> DEFINE new == n.hist[k].buf = NoBuf
           b == IF new THEN Len(n.data) + 1 ELSE n.hist[k].buf
           s == [valid |-> FALSE, reserved |-> TRUE, ts |-> at, buf |-> b]
           d == IF new THEN Append(n.data, n.data[n.latest])
                ELSE [n.data EXCEPT ![b] = n.data[n.latest]]
           q == SlotReserved(n, at)
<1>1. q = [n EXCEPT !.hist[k] = s, !.prewrite_ts = at, !.data = d]
  BY Zenon DEF SlotReserved
<1>2. /\ p \in RowRecord /\ n.data \in Seq(Nat) /\ Len(n.data) \in Nat
      /\ n.hist \in Seq(Slot) /\ DOMAIN n.hist = 1..Len(n.hist) /\ Len(n.hist) \in Nat
      /\ k \in DOMAIN n.hist /\ n.hist[k].buf \in Nat \cup {NoBuf}
      /\ p.hist \in Seq(Slot) /\ DOMAIN p.hist = 1..Len(p.hist) /\ Len(p.hist) \in Nat
  BY RowTypes DEF GoodRow, Unused
<1>3. n.data[n.latest] = p.latest_wts /\ p.latest_wts \in Nat
  BY <1>2, LatestData, RowTypes
<1>4. b \in Nat
  BY <1>2
<1> HIDE DEF b
<1>5. s \in Slot
  BY <1>4 DEF Slot
<1> HIDE DEF s
<1>6. d \in Seq(Nat)
  <2>1. Append(n.data, n.data[n.latest]) \in Seq(Nat)
    BY <1>2, <1>3
  <2>2. [n.data EXCEPT ![b] = n.data[n.latest]] \in Seq(Nat)
    <3>1. n.data \in [1..Len(n.data) -> Nat]
      BY <1>2
    <3>2. [n.data EXCEPT ![b] = n.data[n.latest]] \in [1..Len(n.data) -> Nat]
      BY <1>3, <3>1
    <3> QED  BY <1>2, <3>2
  <2> QED  BY <2>1, <2>2
<1> HIDE DEF d
<1>7. [n.hist EXCEPT ![k] = s] \in Seq(Slot)
  BY <1>2, <1>5
<1>8. [n.hist EXCEPT ![k] = s] = [p.hist EXCEPT ![k] = s]
  BY <1>2
<1>9. q = [n EXCEPT !.hist = [n.hist EXCEPT ![k] = s], !.prewrite_ts = at, !.data = d]
  BY <1>1 DEF RowRecord
<1> HIDE DEF q
<1>10. q \in RowRecord
  <2> DEFINE h == [n.hist EXCEPT ![k] = s]
  <2>1. h \in Seq(Slot) /\ q = [n EXCEPT !.hist = h, !.prewrite_ts = at, !.data = d]
    BY <1>7, <1>9
  <2> HIDE DEF h
  <2> QED  BY <1>6, <2>1 DEF RowRecord
<1>11. /\ q.base = n.base /\ q.latest = n.latest /\ q.latest_wts = n.latest_wts
       /\ q.oldest_wts = n.oldest_wts /\ q.num_versions = n.num_versions
       /\ q.max_served_rts = n.max_served_rts /\ q.requests = n.requests
       /\ q.prewrite_id = n.prewrite_id /\ q.prewrite_ts = at /\ q.data = d
       /\ q.hist = [n.hist EXCEPT ![k] = s]
  BY <1>9 DEF RowRecord
<1>12. q.hist = [p.hist EXCEPT ![k] = [valid |-> FALSE, reserved |-> TRUE, ts |-> at, buf |-> b]]
  BY <1>8, <1>11 DEF s
<1>13. \/ p.hist[k].buf = NoBuf /\ b = Len(p.data) + 1 /\ q.data = Append(p.data, p.latest_wts)
       \/ /\ p.hist[k].buf = b /\ b # NoBuf
          /\ q.data = [p.data EXCEPT ![b] = p.latest_wts]
  BY <1>3, <1>11 DEF b, d
<1>14. /\ GoodRow(q) /\ Keeps(p, q) /\ ExistsPrewrite(q)
       /\ b = ReservedBuf(q) /\ b \in DOMAIN q.data /\ b # q.latest
       /\ q.data[b] = q.latest_wts
       /\ \A x \in DOMAIN p.data : x \in DOMAIN q.data /\ (x # b => q.data[x] = p.data[x])
  <2>1. /\ q.base = p.base /\ q.latest = p.latest /\ q.latest_wts = p.latest_wts
        /\ q.oldest_wts = p.oldest_wts /\ q.num_versions = p.num_versions
        /\ q.max_served_rts = p.max_served_rts /\ q.requests = p.requests
        /\ q.prewrite_ts = at /\ q.prewrite_id = k
    BY <1>11
  <2>2. Taken(p, q, k, at, b)
    BY <1>12, <1>13, <2>1 DEF Taken
  <2> QED  BY <1>10, <2>2, SlotTaken
<1> QED  BY <1>11, <1>14 DEF q

\* What a reservation does to a row: the versions it needs stay, in their buffers.
ReservedOf(m, q, at) ==
    /\ GoodRow(q) /\ Keeps(m, q) /\ ExistsPrewrite(q) /\ q.prewrite_ts = at
    /\ ReservedBuf(q) \in DOMAIN q.data /\ ReservedBuf(q) # q.latest
    /\ q.data[ReservedBuf(q)] = q.latest_wts
    /\ \A x \in DOMAIN m.data :
          x \in DOMAIN q.data /\ (x # ReservedBuf(q) => q.data[x] = m.data[x])

LEMMA ReservedGood ==
    ASSUME NEW m, GoodRow(m), ~ ExistsPrewrite(m), NEW min \in Nat,
           NEW at \in Nat, m.latest_wts < at, at # NoTs
    PROVE  ReservedOf(m, Reserved(m, at, min), at)
<1> DEFINE q == Reserved(m, at, min)
<1> SUFFICES ReservedOf(m, q, at)
  OBVIOUS
<1>1. PICK c : c = Collected(m, min)
  OBVIOUS
<1>2. GoodRow(c) /\ ~ ExistsPrewrite(c) /\ Keeps(m, c) /\ c.data = m.data /\ c \in RowRecord
  BY <1>1, CollectedGood DEF GoodRow
<1>3. /\ c.latest_wts = m.latest_wts /\ c.num_versions \in Nat
      /\ c.num_versions <= Len(c.hist) /\ Len(c.hist) \in Nat
  BY <1>2, ValidCounted, RowTypes DEF Keeps, GoodRow, VersionsInOrder
<1>4. ASSUME NEW p, NEW n \in RowRecord, NEW k \in Unused(p),
             GoodRow(p), ~ ExistsPrewrite(p), Keeps(c, p), p.data = c.data,
             q = SlotReserved(n, at),
             n.prewrite_id = k, DOMAIN n.hist = DOMAIN p.hist, n.hist[k].buf = p.hist[k].buf,
             \A i \in DOMAIN p.hist : i # k => n.hist[i] = p.hist[i],
             n.base = p.base, n.latest = p.latest, n.latest_wts = p.latest_wts,
             n.oldest_wts = p.oldest_wts, n.num_versions = p.num_versions,
             n.max_served_rts = p.max_served_rts, n.requests = p.requests, n.data = p.data
      PROVE  ReservedOf(m, q, at)
  <2>1. p.latest_wts < at
    BY <1>3, <1>4 DEF Keeps
  <2> HIDE DEF q
  <2>2. /\ GoodRow(q) /\ Keeps(p, q) /\ ExistsPrewrite(q) /\ q.prewrite_ts = at
        /\ ReservedBuf(q) \in DOMAIN q.data /\ ReservedBuf(q) # q.latest
        /\ q.data[ReservedBuf(q)] = q.latest_wts
        /\ \A x \in DOMAIN p.data :
              x \in DOMAIN q.data /\ (x # ReservedBuf(q) => q.data[x] = p.data[x])
    BY <1>4, <2>1, SlotReservedGood
  <2>3. m \in RowRecord /\ p \in RowRecord /\ q \in RowRecord
    BY <1>4, <2>2 DEF GoodRow
  <2>4. Keeps(m, q)
    <3>1. Keeps(m, p)
      BY <1>2, <1>4, <2>3, KeepsTrans
    <3> QED  BY <2>2, <2>3, <3>1, KeepsTrans
  <2> QED  BY <1>2, <1>4, <2>2, <2>4 DEF ReservedOf
<1>5. CASE c.num_versions < Len(c.hist)
  <2> DEFINE k == UnusedSlot(c)
             n == [c EXCEPT !.prewrite_id = k]
  <2>1. k \in Unused(c)
    BY <1>2, <1>5, UnusedSlotFacts
  <2>2. q = SlotReserved(n, at)
    BY <1>1, <1>5 DEF Reserved
  <2>3. k \in Nat
    BY <1>2, <2>1, RowTypes DEF Unused
  <2> HIDE DEF k, q
  <2>4. /\ n \in RowRecord /\ n.prewrite_id = k /\ n.hist = c.hist
        /\ n.base = c.base /\ n.latest = c.latest /\ n.latest_wts = c.latest_wts
        /\ n.oldest_wts = c.oldest_wts /\ n.num_versions = c.num_versions
        /\ n.max_served_rts = c.max_served_rts /\ n.requests = c.requests /\ n.data = c.data
    BY <1>2, <2>3 DEF RowRecord
  <2> HIDE DEF n
  <2>5. Keeps(c, c)
    BY <1>2, RowTypes DEF Keeps
  <2> QED  BY <1>2, <1>4, <2>1, <2>2, <2>4, <2>5
<1>6. CASE ~ (c.num_versions < Len(c.hist)) /\ Len(c.hist) >= Cardinality(setup.threads)
  <2>1. c.num_versions = Len(c.hist)
    BY <1>3, <1>6
  <2>2. PICK k : k = Oldest(c, Valid(c))
    OBVIOUS
  <2> DEFINE n == [c EXCEPT !.base = c.hist[k].buf, !.oldest_wts = c.hist[k].ts,
                            !.num_versions = @ - 1,
                            !.hist[k].buf = c.base, !.prewrite_id = k]
             s == [valid |-> FALSE, reserved |-> FALSE, ts |-> c.hist[k].ts, buf |-> c.base]
             p == Rebased(c, k)
  <2>3. q = SlotReserved(n, at)
    <3>1. n = Recycled(c)
      BY <2>2 DEF Recycled
    <3> HIDE DEF n
    <3> QED  BY <1>1, <1>6, <3>1 DEF Reserved
  <2>4. /\ GoodRow(p) /\ ~ ExistsPrewrite(p) /\ Keeps(c, p) /\ p.data = c.data
        /\ k \in Unused(p) /\ k \in DOMAIN c.hist
    BY <1>2, <2>1, <2>2, RebasedGood
  <2>5. /\ p.hist = [c.hist EXCEPT ![k] = s] /\ p.base = c.hist[k].buf
        /\ p.oldest_wts = c.hist[k].ts /\ p.num_versions = c.num_versions - 1
        /\ p.latest = c.latest /\ p.latest_wts = c.latest_wts
        /\ p.max_served_rts = c.max_served_rts /\ p.requests = c.requests
    BY <1>2 DEF RowRecord, Rebased
  <2>6. /\ n.hist = [c.hist EXCEPT ![k].buf = c.base] /\ n.base = c.hist[k].buf
        /\ n.oldest_wts = c.hist[k].ts /\ n.num_versions = c.num_versions - 1
        /\ n.latest = c.latest /\ n.latest_wts = c.latest_wts
        /\ n.max_served_rts = c.max_served_rts /\ n.requests = c.requests /\ n.data = c.data
        /\ n.prewrite_id = k
    BY <1>2 DEF RowRecord
  <2>7. /\ c.hist \in Seq(Slot) /\ c.hist[k] \in Slot /\ c.base \in Nat
        /\ p \in RowRecord /\ c.num_versions - 1 \in Nat /\ k \in Nat
        /\ c.hist[k].buf \in Nat /\ c.hist[k].ts \in Nat
    <3>1. p \in RowRecord
      BY <2>4 DEF GoodRow
    <3>2. p.base \in Nat /\ p.num_versions \in Nat
      BY <3>1, RowTypes
    <3> QED  BY <1>2, <2>4, <2>5, <3>1, <3>2, RowTypes
  <2>8. [c.hist EXCEPT ![k].buf = c.base] \in Seq(Slot)
    <3>1. [c.hist[k] EXCEPT !.buf = c.base] \in Slot
      BY <2>7 DEF Slot
    <3> QED  BY <2>4, <2>7, <3>1
  <2>9. n \in RowRecord
    <3> DEFINE h == [c.hist EXCEPT ![k].buf = c.base]
    <3>1. n = [c EXCEPT !.base = c.hist[k].buf, !.oldest_wts = c.hist[k].ts,
                        !.num_versions = @ - 1, !.hist = h, !.prewrite_id = k]
      BY <1>2 DEF RowRecord
    <3>2. h \in Seq(Slot)
      BY <2>8
    <3> HIDE DEF h, n
    <3> QED  BY <1>2, <2>7, <3>1, <3>2 DEF RowRecord
  <2>10. /\ DOMAIN n.hist = DOMAIN p.hist /\ n.hist[k].buf = p.hist[k].buf
         /\ \A i \in DOMAIN p.hist : i # k => n.hist[i] = p.hist[i]
    <3>1. n.hist[k].buf = c.base
      BY <2>4, <2>6, <2>7 DEF Slot
    <3> HIDE DEF n, p
    <3> QED  BY <2>4, <2>5, <2>6, <3>1
  <2> HIDE DEF n, p, q
  <2> QED  BY <1>4, <2>3, <2>4, <2>5, <2>6, <2>9, <2>10
<1>7. CASE ~ (c.num_versions < Len(c.hist)) /\ ~ (Len(c.hist) >= Cardinality(setup.threads))
  <2>1. q = SlotReserved(Doubled(c), at)
    BY <1>1, <1>7 DEF Reserved
  <2>2. PICK p : p = Doubled(c)
    OBVIOUS
  <2>3. /\ GoodRow(p) /\ ~ ExistsPrewrite(p) /\ Keeps(c, p) /\ p.data = c.data
        /\ p.prewrite_id \in Unused(p) /\ p \in RowRecord
    BY <1>2, <2>2, DoubledGood DEF GoodRow
  <2> HIDE DEF q
  <2> QED  BY <1>4, <2>1, <2>2, <2>3
<1> QED  BY <1>5, <1>6, <1>7

\* q is m but for the queue and the reads served.
Requeued(m, q) ==
    /\ q \in RowRecord /\ q.hist = m.hist /\ q.data = m.data
    /\ q.base = m.base /\ q.latest = m.latest /\ q.latest_wts = m.latest_wts
    /\ q.oldest_wts = m.oldest_wts /\ q.num_versions = m.num_versions
    /\ q.prewrite_ts = m.prewrite_ts /\ q.prewrite_id = m.prewrite_id

LEMMA RequeuedGood ==
    ASSUME NEW m, NEW q, GoodRow(m), Requeued(m, q)
    PROVE  /\ GoodRow(q) /\ Valid(q) = Valid(m) /\ ReservedBuf(q) = ReservedBuf(m)
           /\ ExistsPrewrite(q) <=> ExistsPrewrite(m)
<1>1. /\ Valid(q) = Valid(m) /\ Bufs(q) = Bufs(m) /\ ReservedBuf(q) = ReservedBuf(m)
      /\ ExistsPrewrite(q) <=> ExistsPrewrite(m)
  BY DEF Requeued, Valid, Bufs, ReservedBuf, ExistsPrewrite
<1>2. VersionsInOrder(q)
  BY <1>1 DEF GoodRow, Requeued, VersionsInOrder
<1>3. BuffersApart(q)
  BY <1>1 DEF GoodRow, Requeued, BuffersApart
<1>4. ReservationKnown(q)
  BY <1>1 DEF GoodRow, Requeued, ReservationKnown
<1> QED  BY <1>1, <1>2, <1>3, <1>4 DEF GoodRow, Requeued

\* The transaction of the reservation writes to its version.
LEMMA WrittenGood ==
    ASSUME NEW m, GoodRow(m), ExistsPrewrite(m), NEW x \in Nat
    PROVE  LET b == ReservedBuf(m)
               q == [m EXCEPT !.data[b] = x]
           IN  /\ GoodRow(q) /\ q.hist = m.hist /\ DOMAIN q.data = DOMAIN m.data
               /\ b \in DOMAIN m.data /\ q.data[b] = x
               /\ \A y \in DOMAIN m.data : y # b => q.data[y] = m.data[y]
               /\ q.latest = m.latest /\ q.latest_wts = m.latest_wts
               /\ q.oldest_wts = m.oldest_wts /\ q.requests = m.requests
               /\ q.prewrite_ts = m.prewrite_ts /\ q.prewrite_id = m.prewrite_id
               /\ q.max_served_rts = m.max_served_rts /\ Valid(q) = Valid(m)
<1> DEFINE b == ReservedBuf(m)
           d == [m.data EXCEPT ![b] = x]
           q == [m EXCEPT !.data[b] = x]
<1>1. /\ m \in RowRecord /\ VersionsInOrder(m) /\ BuffersApart(m) /\ ReservationKnown(m)
  BY DEF GoodRow
<1>2. m.prewrite_id \in Bufs(m) /\ ~ m.hist[m.prewrite_id].valid
  BY <1>1 DEF ReservationKnown
<1>3. /\ b \in DOMAIN m.data /\ b # m.base
      /\ \A i \in Bufs(m) : i # m.prewrite_id => m.hist[i].buf # b
      /\ \A i \in Valid(m) : i # m.prewrite_id
  BY <1>1, <1>2 DEF BuffersApart, ReservedBuf, Valid
<1>4. q = [m EXCEPT !.data = d]
  BY <1>1 DEF RowRecord
<1> HIDE DEF q
<1>5. d \in Seq(Nat) /\ DOMAIN d = DOMAIN m.data
  <2>1. m.data \in [1..Len(m.data) -> Nat] /\ Len(m.data) \in Nat
    BY <1>1, RowTypes
  <2>2. d \in [1..Len(m.data) -> Nat]
    BY <2>1
  <2> QED  BY <2>1, <2>2
<1>6. d[b] = x /\ \A y \in DOMAIN m.data : y # b => d[y] = m.data[y]
  BY <1>3
<1> HIDE DEF d
<1>7. /\ q \in RowRecord /\ q.data = d /\ q.hist = m.hist /\ q.base = m.base
      /\ q.latest = m.latest /\ q.latest_wts = m.latest_wts
      /\ q.oldest_wts = m.oldest_wts /\ q.requests = m.requests
      /\ q.num_versions = m.num_versions
      /\ q.prewrite_ts = m.prewrite_ts /\ q.prewrite_id = m.prewrite_id
      /\ q.max_served_rts = m.max_served_rts
  BY <1>1, <1>4, <1>5 DEF RowRecord
<1>8. Valid(q) = Valid(m) /\ Bufs(q) = Bufs(m) /\ (ExistsPrewrite(q) <=> ExistsPrewrite(m))
  BY <1>7 DEF Valid, Bufs, ExistsPrewrite
<1>9. VersionsInOrder(q)
  BY <1>1, <1>7, <1>8 DEF VersionsInOrder
<1>10. BuffersApart(q)
  <2>1. \A i \in Valid(q) : i \in Bufs(q) /\ q.data[q.hist[i].buf] = q.hist[i].ts
    BY <1>1, <1>3, <1>6, <1>7, <1>8 DEF BuffersApart
  <2>2. q.base \in DOMAIN q.data /\ q.data[q.base] = q.oldest_wts
    BY <1>1, <1>3, <1>5, <1>6, <1>7 DEF BuffersApart
  <2> QED  BY <1>1, <1>5, <1>7, <1>8, <2>1, <2>2 DEF BuffersApart
<1>11. ReservationKnown(q)
  BY <1>1, <1>7, <1>8 DEF ReservationKnown
<1>12. q.hist # << >>
  BY <1>7 DEF GoodRow
<1> QED  BY <1>3, <1>5, <1>6, <1>7, <1>8, <1>9, <1>10, <1>11, <1>12 DEF GoodRow, q

\* What W_REQ and XP_REQ have in common.
Ended(m, q) ==
    /\ GoodRow(q) /\ ~ ExistsPrewrite(q)
    /\ q.data = m.data /\ q.oldest_wts = m.oldest_wts
    /\ q.requests = m.requests /\ q.max_served_rts = m.max_served_rts
    /\ \A i \in Valid(m) : i \in Valid(q) /\ q.hist[i].ts = m.hist[i].ts

LEMMA InstalledGood ==
    ASSUME NEW m, GoodRow(m), ExistsPrewrite(m), NEW at \in Nat, at = m.prewrite_ts,
           m.data[ReservedBuf(m)] = at
    PROVE  LET q == Installed(m, at)
           IN  /\ Ended(m, q) /\ q.latest = ReservedBuf(m) /\ q.latest_wts = at
               /\ Valid(q) = Valid(m) \cup {m.prewrite_id} /\ q.hist[m.prewrite_id].ts = at
<1> DEFINE k == m.prewrite_id
           s == [m.hist[k] EXCEPT !.valid = TRUE, !.ts = at]
           h == [m.hist EXCEPT ![k] = s]
           q == Installed(m, at)
<1>1. /\ m \in RowRecord /\ VersionsInOrder(m) /\ BuffersApart(m) /\ ReservationKnown(m)
  BY DEF GoodRow
<1>2. /\ k \in Bufs(m) /\ ~ m.hist[k].valid /\ m.latest_wts < at
      /\ k \in DOMAIN m.hist /\ k \notin Valid(m)
  BY <1>1 DEF ReservationKnown, Bufs, Valid
<1>3. s \in Slot /\ s.valid /\ s.ts = at /\ s.buf = m.hist[k].buf /\ s.reserved = m.hist[k].reserved
  <2>1. m.hist[k] \in Slot
    BY <1>1, <1>2, RowTypes
  <2> QED  BY <2>1 DEF Slot
<1> HIDE DEF s
<1>4. /\ h \in Seq(Slot) /\ DOMAIN h = DOMAIN m.hist /\ h[k] = s
      /\ \A i \in DOMAIN m.hist : i # k => h[i] = m.hist[i]
  <2>1. m.hist \in [1..Len(m.hist) -> Slot] /\ Len(m.hist) \in Nat /\ DOMAIN m.hist = 1..Len(m.hist)
    BY <1>1, RowTypes
  <2>2. h \in [1..Len(m.hist) -> Slot]
    BY <1>3, <2>1
  <2> QED  BY <1>2, <2>1, <2>2
<1> HIDE DEF h
<1>5. q = [m EXCEPT !.hist = h, !.latest_wts = at, !.latest = ReservedBuf(m),
                    !.prewrite_ts = NoTs, !.num_versions = @ + 1]
  BY <1>1 DEF Installed, h, s, RowRecord
<1> HIDE DEF q
<1>6. ReservedBuf(m) \in DOMAIN m.data /\ ReservedBuf(m) \in Nat /\ ReservedBuf(m) # m.base
  <2>1. ReservedBuf(m) \in DOMAIN m.data /\ ReservedBuf(m) # m.base
    BY <1>1, <1>2 DEF BuffersApart, ReservedBuf
  <2>2. DOMAIN m.data = 1..Len(m.data) /\ Len(m.data) \in Nat
    BY <1>1, RowTypes
  <2> QED  BY <2>1, <2>2
<1>7. m.num_versions \in Nat /\ NoTs \in Nat
  BY <1>1, RowTypes, MvccAssumption
<1>8. /\ q \in RowRecord /\ q.hist = h /\ q.data = m.data /\ q.base = m.base
      /\ q.latest = ReservedBuf(m) /\ q.latest_wts = at
      /\ q.oldest_wts = m.oldest_wts /\ q.requests = m.requests
      /\ q.num_versions = m.num_versions + 1
      /\ q.prewrite_ts = NoTs /\ q.max_served_rts = m.max_served_rts
  <2>1. PICK b, v : b = ReservedBuf(m) /\ v = m.num_versions + 1
    OBVIOUS
  <2>2. q = [m EXCEPT !.hist = h, !.latest_wts = at, !.latest = b,
                      !.prewrite_ts = NoTs, !.num_versions = v]
    BY <1>1, <1>5, <2>1 DEF RowRecord
  <2>3. b \in Nat /\ v \in Nat /\ h \in Seq(Slot) /\ NoTs \in Nat
    BY <1>4, <1>6, <1>7, <2>1
  <2>4. /\ q \in RowRecord /\ q.hist = h /\ q.data = m.data /\ q.base = m.base
        /\ q.latest = b /\ q.latest_wts = at
        /\ q.oldest_wts = m.oldest_wts /\ q.requests = m.requests
        /\ q.num_versions = v
        /\ q.prewrite_ts = NoTs /\ q.max_served_rts = m.max_served_rts
    BY <1>1, <2>2, <2>3 DEF RowRecord
  <2> QED  BY <2>1, <2>4
<1>9. Valid(q) = Valid(m) \cup {k} /\ Bufs(q) = Bufs(m)
  BY <1>2, <1>3, <1>4, <1>8 DEF Valid, Bufs
<1>10. ~ ExistsPrewrite(q)
  BY <1>8 DEF ExistsPrewrite
<1>11. \A i \in Valid(m) : q.hist[i] = m.hist[i] /\ m.hist[i].ts < at /\ m.hist[i].ts \in Nat
  <2>1. ASSUME NEW i \in Valid(m)
        PROVE  q.hist[i] = m.hist[i] /\ m.hist[i].ts < at /\ m.hist[i].ts \in Nat
    <3>1. i \in DOMAIN m.hist /\ i # k
      BY <1>2 DEF Valid
    <3>2. m.hist[i].ts \in Nat /\ m.latest_wts \in Nat
      BY <1>1, <3>1, RowTypes
    <3>3. m.hist[i].ts <= m.latest_wts
      BY <1>1 DEF VersionsInOrder
    <3> QED  BY <1>2, <1>4, <1>8, <3>1, <3>2, <3>3
  <2> QED  BY <2>1
<1>12. VersionsInOrder(q)
  <2>1. q.num_versions = Cardinality(Valid(q))
    <3>1. IsFiniteSet(Valid(m))
      BY <1>1, ValidCounted
    <3>2. Cardinality(Valid(m) \cup {k}) = Cardinality(Valid(m)) + 1
      BY <1>2, <3>1, FS_AddElement
    <3>3. m.num_versions = Cardinality(Valid(m))
      BY <1>1 DEF VersionsInOrder
    <3> QED  BY <1>8, <1>9, <3>2, <3>3
  <2>2. q.hist[k].ts = at /\ q.hist[k].buf = ReservedBuf(m)
    BY <1>3, <1>4, <1>8 DEF ReservedBuf
  <2>3. m.oldest_wts < at
    <3>1. m.oldest_wts <= m.latest_wts
      <4>1. CASE Valid(m) = {}
        BY <1>1, <4>1, RowTypes DEF VersionsInOrder
      <4>2. CASE Valid(m) # {}
        BY <1>1, <1>11, <4>2, RowTypes DEF VersionsInOrder
      <4> QED  BY <4>1, <4>2
    <3> QED  BY <1>1, <1>2, <3>1, RowTypes
  <2>4. \A i, j \in Valid(q) : q.hist[i].ts = q.hist[j].ts => i = j
    BY <1>1, <1>9, <1>11, <2>2 DEF VersionsInOrder
  <2>5. \A i \in Valid(q) : q.oldest_wts < q.hist[i].ts /\ q.hist[i].ts <= q.latest_wts
    BY <1>1, <1>8, <1>9, <1>11, <2>2, <2>3 DEF VersionsInOrder
  <2> QED  BY <1>8, <1>9, <2>1, <2>2, <2>4, <2>5 DEF VersionsInOrder
<1>13. BuffersApart(q)
  <2>1. \A i \in Bufs(m) : q.hist[i].buf = m.hist[i].buf
    BY <1>3, <1>4, <1>8 DEF Bufs
  <2>2. \A i \in Valid(q) : i \in Bufs(q) /\ q.data[q.hist[i].buf] = q.hist[i].ts
    <3>1. q.data[q.hist[k].buf] = q.hist[k].ts
      BY <1>3, <1>4, <1>8 DEF ReservedBuf
    <3> QED  BY <1>1, <1>2, <1>8, <1>9, <1>11, <3>1 DEF BuffersApart
  <2> QED  BY <1>1, <1>8, <1>9, <2>1, <2>2 DEF BuffersApart
<1>14. ReservationKnown(q)
  <2>1. \A i \in DOMAIN q.hist : ~ (q.hist[i].reserved /\ ~ q.hist[i].valid)
    BY <1>1, <1>3, <1>4, <1>8 DEF ReservationKnown
  <2> QED  BY <1>10, <2>1 DEF ReservationKnown
<1>15. q.hist # << >>
  BY <1>2, <1>4, <1>8
<1>16. q.hist[k].ts = at
  BY <1>3, <1>4, <1>8
<1> QED  BY <1>8, <1>9, <1>10, <1>11, <1>12, <1>13, <1>14, <1>15, <1>16 DEF GoodRow, Ended, q

LEMMA DroppedGood ==
    ASSUME NEW m, GoodRow(m), ExistsPrewrite(m)
    PROVE  LET q == Dropped(m)
           IN  Ended(m, q) /\ q.latest = m.latest /\ q.latest_wts = m.latest_wts /\ Valid(q) = Valid(m)
<1> DEFINE k == m.prewrite_id
           s == [m.hist[k] EXCEPT !.valid = FALSE, !.reserved = FALSE]
           h == [m.hist EXCEPT ![k] = s]
           q == Dropped(m)
<1>1. /\ m \in RowRecord /\ VersionsInOrder(m) /\ BuffersApart(m) /\ ReservationKnown(m)
  BY DEF GoodRow
<1>2. /\ k \in Bufs(m) /\ ~ m.hist[k].valid /\ k \in DOMAIN m.hist /\ k \notin Valid(m)
  BY <1>1 DEF ReservationKnown, Bufs, Valid
<1>3. s \in Slot /\ ~ s.valid /\ ~ s.reserved /\ s.buf = m.hist[k].buf
  <2>1. m.hist[k] \in Slot
    BY <1>1, <1>2, RowTypes
  <2> QED  BY <2>1 DEF Slot
<1> HIDE DEF s
<1>4. /\ h \in Seq(Slot) /\ DOMAIN h = DOMAIN m.hist /\ h[k] = s
      /\ \A i \in DOMAIN m.hist : i # k => h[i] = m.hist[i]
  <2>1. m.hist \in [1..Len(m.hist) -> Slot] /\ Len(m.hist) \in Nat /\ DOMAIN m.hist = 1..Len(m.hist)
    BY <1>1, RowTypes
  <2>2. h \in [1..Len(m.hist) -> Slot]
    BY <1>3, <2>1
  <2> QED  BY <1>2, <2>1, <2>2
<1> HIDE DEF h
<1>5. q = [m EXCEPT !.hist = h, !.prewrite_ts = NoTs]
  BY <1>1 DEF Dropped, h, s, RowRecord
<1> HIDE DEF q
<1>6. /\ q \in RowRecord /\ q.hist = h /\ q.data = m.data /\ q.base = m.base
      /\ q.latest = m.latest /\ q.latest_wts = m.latest_wts
      /\ q.oldest_wts = m.oldest_wts /\ q.requests = m.requests
      /\ q.num_versions = m.num_versions
      /\ q.prewrite_ts = NoTs /\ q.max_served_rts = m.max_served_rts
  BY <1>1, <1>4, <1>5, MvccAssumption DEF RowRecord
<1>7. Valid(q) = Valid(m) /\ Bufs(q) = Bufs(m)
  BY <1>2, <1>3, <1>4, <1>6 DEF Valid, Bufs
<1>8. ~ ExistsPrewrite(q)
  BY <1>6 DEF ExistsPrewrite
<1>9. \A i \in Valid(m) : q.hist[i] = m.hist[i]
  BY <1>2, <1>4, <1>6 DEF Valid
<1>10. VersionsInOrder(q)
  BY <1>1, <1>6, <1>7, <1>9 DEF VersionsInOrder
<1>11. BuffersApart(q)
  <2>1. \A i \in Bufs(m) : q.hist[i].buf = m.hist[i].buf
    BY <1>3, <1>4, <1>6 DEF Bufs
  <2> QED  BY <1>1, <1>6, <1>7, <1>9, <2>1 DEF BuffersApart
<1>12. ReservationKnown(q)
  <2>1. \A i \in DOMAIN q.hist : ~ (q.hist[i].reserved /\ ~ q.hist[i].valid)
    BY <1>1, <1>3, <1>4, <1>6 DEF ReservationKnown
  <2> QED  BY <1>8, <2>1 DEF ReservationKnown
<1>13. q.hist # << >>
  BY <1>2, <1>4, <1>6
<1> QED  BY <1>6, <1>7, <1>8, <1>9, <1>10, <1>11, <1>12, <1>13 DEF GoodRow, Ended, q

----------------------------------------------------------------------------
(* The end of a reservation lets waiting requests go.                      *)

\* What Keeps says of the versions.
Ages(m, n) ==
    /\ n.latest = m.latest /\ n.latest_wts = m.latest_wts
    /\ m.oldest_wts <= n.oldest_wts
    /\ n.oldest_wts = m.oldest_wts \/ \E i \in Valid(m) : n.oldest_wts = m.hist[i].ts
    /\ \A i \in Valid(n) : i \in Valid(m) /\ n.hist[i].ts = m.hist[i].ts
    /\ \A i \in Valid(m) : i \in Valid(n) \/ m.hist[i].ts <= n.oldest_wts

\* Those who wait on m have timestamps of their own, above the latest version's.
QueueApart(m) ==
    /\ \A u \in m.requests : /\ ts[u] \in Nat /\ m.latest_wts < ts[u] /\ ts[u] < NoTs
                             /\ Req(u).type \in {"RD", "WR"}
    /\ \A u, v \in m.requests : ts[u] = ts[v] => u = v

LEMMA LetGoFacts ==
    ASSUME NEW m \in RowRecord, QueueApart(m)
    PROVE  /\ NextPrewrite(m) \in Nat
           /\ \A u \in m.requests : Req(u).type = "WR" => NextPrewrite(m) <= ts[u]
           /\ \A u \in ReadsLetGo(m) : u \in m.requests /\ Req(u).type = "RD" /\ ts[u] < NextPrewrite(m)
           /\ \A u \in PrewriteLetGo(m) : u \in m.requests /\ Req(u).type = "WR" /\ ts[u] = NextPrewrite(m)
           /\ \A u \in m.requests \ (ReadsLetGo(m) \cup PrewriteLetGo(m)) : NextPrewrite(m) < ts[u]
           /\ PrewriteLetGo(m) = {} => m.requests = ReadsLetGo(m)
           /\ PrewriteLetGo(m) # {} => m.latest_wts < NextPrewrite(m) /\ NextPrewrite(m) # NoTs
<1> DEFINE S == {NoTs} \cup Prewrites(m)
           x == NextPrewrite(m)
<1>1. S \in SUBSET Nat /\ S # {}
  BY MvccAssumption DEF Prewrites, QueueApart
<1>2. x = Min(S)
  BY DEF NextPrewrite
<1>3. x \in S /\ \A y \in S : x <= y
  <2> HIDE DEF S, x
  <2> QED  BY <1>1, <1>2, MinFacts
<1>4. \A u \in m.requests : Req(u).type = "WR" => ts[u] \in S
  BY DEF Prewrites
<1>5. x \in Nat /\ x <= NoTs
  BY <1>1, <1>3
<1>6. x = NoTs \/ \E u \in m.requests : Req(u).type = "WR" /\ ts[u] = x
  BY <1>3 DEF Prewrites
<1> HIDE DEF S, x
<1>7. \A u \in m.requests : Req(u).type = "WR" => x <= ts[u]
  BY <1>3, <1>4
<1>8. /\ ReadsLetGo(m) = {u \in m.requests : Req(u).type = "RD" /\ ts[u] < x}
      /\ PrewriteLetGo(m) = {u \in m.requests : ts[u] = x}
  BY DEF x, ReadsLetGo, PrewriteLetGo
<1>9. /\ \A u \in m.requests : /\ ts[u] \in Nat /\ m.latest_wts < ts[u] /\ ts[u] < NoTs
                               /\ Req(u).type \in {"RD", "WR"}
      /\ \A u, v \in m.requests : ts[u] = ts[v] => u = v
  BY DEF QueueApart
<1>10. NoTs \in Nat
  BY MvccAssumption
<1>11. \A u \in PrewriteLetGo(m) : u \in m.requests /\ Req(u).type = "WR" /\ ts[u] = x
  BY <1>6, <1>8, <1>9, <1>10
<1>12. \A u \in m.requests \ (ReadsLetGo(m) \cup PrewriteLetGo(m)) : x < ts[u]
  BY <1>5, <1>7, <1>8, <1>9
<1>13. ASSUME PrewriteLetGo(m) = {} PROVE m.requests = ReadsLetGo(m)
  <2>1. x = NoTs
    BY <1>6, <1>8, <1>13
  <2>2. \A u \in m.requests : Req(u).type # "WR" /\ ts[u] < x
    BY <1>7, <1>9, <1>10, <2>1
  <2> QED  BY <1>8, <1>9, <2>2
<1>14. PrewriteLetGo(m) # {} => m.latest_wts < x /\ x # NoTs
  BY <1>8, <1>9, <1>10
<1>15. \A u \in ReadsLetGo(m) : u \in m.requests /\ Req(u).type = "RD" /\ ts[u] < x
  BY <1>8
<1> QED  BY <1>5, <1>7, <1>11, <1>12, <1>13, <1>14, <1>15 DEF x

\* n is m after update_buffer.
HandedOver(m, n) ==
    /\ GoodRow(n) /\ Ages(m, n)
    /\ n.requests = m.requests \ (ReadsLetGo(m) \cup PrewriteLetGo(m))
    /\ m.max_served_rts <= n.max_served_rts
    /\ \A u \in ReadsLetGo(m) : ts[u] <= n.max_served_rts
    /\ n.max_served_rts = m.max_served_rts \/ \E u \in ReadsLetGo(m) : n.max_served_rts = ts[u]
    /\ PrewriteLetGo(m) = {} => ~ ExistsPrewrite(n) /\ n.requests = {} /\ n.data = m.data
    /\ PrewriteLetGo(m) # {} =>
          /\ ExistsPrewrite(n) /\ n.prewrite_ts = NextPrewrite(m)
          /\ ReservedBuf(n) \in DOMAIN n.data /\ ReservedBuf(n) # n.latest
          /\ n.data[ReservedBuf(n)] = n.latest_wts
    /\ \A x \in DOMAIN m.data :
          x \in DOMAIN n.data /\ (PrewriteLetGo(m) = {} \/ x # ReservedBuf(n) => n.data[x] = m.data[x])

LEMMA UpdatedGood ==
    ASSUME NEW m, GoodRow(m), ~ ExistsPrewrite(m), QueueApart(m), NEW min \in Nat
    PROVE  HandedOver(m, Updated(m, min))
<1> DEFINE R == ReadsLetGo(m)
           P == PrewriteLetGo(m)
           served == {m.max_served_rts} \cup {ts[u] : u \in R}
           S == m.requests \ (R \cup P)
           x == Max(served)
           m1 == [m EXCEPT !.requests = S, !.max_served_rts = x]
           n == Updated(m, min)
<1>1. m \in RowRecord
  BY DEF GoodRow
<1>2. /\ m.requests \subseteq Threads /\ m.max_served_rts \in Nat
  BY <1>1, RowTypes
<1>3. \A u \in R : u \in m.requests /\ ts[u] \in Nat /\ ts[u] < NoTs
  BY DEF QueueApart, ReadsLetGo
<1>4. /\ served \in SUBSET Nat /\ served # {}
      /\ m.max_served_rts + NoTs \in Nat /\ \A y \in served : y <= m.max_served_rts + NoTs
  BY <1>2, <1>3, MvccAssumption
<1>5. x \in served /\ \A y \in served : y <= x
  <2> HIDE DEF served
  <2> QED  BY <1>4, MaxFacts
<1>6. x \in Nat /\ m.max_served_rts <= x /\ \A u \in R : ts[u] <= x
  BY <1>4, <1>5
<1>7. x = m.max_served_rts \/ \E u \in R : x = ts[u]
  BY <1>5
<1>8. S \in SUBSET Threads
  BY <1>2
<1>9. n = IF P = {} THEN m1 ELSE Reserved(m1, NextPrewrite(m), min)
  BY <1>1 DEF Updated, RowRecord
<1> HIDE DEF x, R, P
<1>10. Requeued(m, m1) /\ m1.requests = S /\ m1.max_served_rts = x
  <2>1. PICK s \in SUBSET Threads, y \in Nat : s = S /\ y = x
    BY <1>6, <1>8
  <2>2. LET p == [m EXCEPT !.requests = s, !.max_served_rts = y]
        IN  Requeued(m, p) /\ p.requests = s /\ p.max_served_rts = y
    BY <1>1 DEF Requeued, RowRecord
  <2> QED  BY <2>1, <2>2
<1>11. PICK q : q = m1
  OBVIOUS
<1> HIDE DEF m1, n
<1>12. Requeued(m, q) /\ q.requests = S /\ q.max_served_rts = x
  BY <1>10, <1>11
<1>13. /\ GoodRow(q) /\ Valid(q) = Valid(m) /\ ~ ExistsPrewrite(q)
  BY <1>12, RequeuedGood
<1>14. /\ q.latest = m.latest /\ q.latest_wts = m.latest_wts /\ q.oldest_wts = m.oldest_wts
       /\ q.hist = m.hist /\ q.data = m.data
  BY <1>12 DEF Requeued
<1>15. CASE P = {}
  <2>1. n = q
    BY <1>9, <1>11, <1>15
  <2>2. S = {}
    BY <1>1, <1>15, LetGoFacts DEF R, P
  <2>3. Ages(m, q)
    BY <1>1, <1>13, <1>14, RowTypes DEF Ages
  <2> QED  BY <1>6, <1>7, <1>12, <1>13, <1>14, <1>15, <2>1, <2>2, <2>3 DEF HandedOver, R, P, n
<1>16. CASE P # {}
  <2>1. NextPrewrite(m) \in Nat /\ m.latest_wts < NextPrewrite(m) /\ NextPrewrite(m) # NoTs
    BY <1>1, <1>16, LetGoFacts DEF P
  <2>2. n = Reserved(q, NextPrewrite(m), min)
    BY <1>9, <1>11, <1>16
  <2>3. ReservedOf(q, n, NextPrewrite(m))
    BY <1>13, <1>14, <2>1, <2>2, ReservedGood
  <2>4. Keeps(q, n) /\ GoodRow(n) /\ ExistsPrewrite(n) /\ n.prewrite_ts = NextPrewrite(m)
    BY <2>3 DEF ReservedOf
  <2>5. Ages(m, n) /\ n.requests = S /\ n.max_served_rts = x
    BY <1>12, <1>13, <1>14, <2>4 DEF Ages, Keeps
  <2>6. /\ ReservedBuf(n) \in DOMAIN n.data /\ ReservedBuf(n) # n.latest
        /\ n.data[ReservedBuf(n)] = n.latest_wts
        /\ \A y \in DOMAIN m.data : y \in DOMAIN n.data /\ (y # ReservedBuf(n) => n.data[y] = m.data[y])
    BY <1>14, <2>3 DEF ReservedOf
  <2> QED  BY <1>6, <1>7, <1>16, <2>4, <2>5, <2>6 DEF HandedOver, R, P, n
<1> QED  BY <1>15, <1>16


----------------------------------------------------------------------------
(* The search for the version a transaction reads.                         *)

Found == [the_ts : Nat, buf : Nat]

\* What the search has after slot i, if it had f before it.
Better(m, at, i, f) ==
    IF m.hist[i].valid /\ m.hist[i].ts < at /\ m.hist[i].ts > f.the_ts
    THEN [the_ts |-> m.hist[i].ts % TsWrap, buf |-> m.hist[i].buf]
    ELSE f

\* g is what the search has after 0, 1 ... n slots.
SearchTo(m, at, n, g) ==
    /\ g \in [0..n -> Found]
    /\ g[0] = [the_ts |-> 0, buf |-> m.base]
    /\ \A i \in 1..n : g[i] = Better(m, at, i, g[i - 1])

LEMMA SearchExists ==
    ASSUME NEW m, GoodRow(m), NEW at \in Nat
    PROVE  \E g : SearchTo(m, at, Len(m.hist), g)
<1> DEFINE L == Len(m.hist)
           S == {n \in Nat : n <= L => \E g : SearchTo(m, at, n, g)}
<1>1. m \in RowRecord /\ BuffersApart(m)
  BY DEF GoodRow
<1>2. /\ m.base \in Nat /\ DOMAIN m.hist = 1..L /\ L \in Nat
      /\ \A i \in 1..L : m.hist[i].ts \in Nat
  BY <1>1, RowTypes
<1>3. \A i \in 1..L : m.hist[i].valid => m.hist[i].buf \in Nat
  <2>1. DOMAIN m.data \subseteq Nat
    BY <1>1, RowTypes
  <2> QED  BY <1>1, <1>2, <2>1 DEF BuffersApart, Valid
<1>4. TsWrap \in Nat \ {0}
  BY MvccAssumption
<1>5. ASSUME NEW i \in 1..L, NEW f \in Found
      PROVE  Better(m, at, i, f) \in Found
  <2>1. m.hist[i].ts % TsWrap \in Nat
    BY <1>2, <1>4
  <2> QED  BY <1>3, <2>1 DEF Better, Found
<1>6. 0 \in S
  <2> DEFINE g == [i \in 0..0 |-> [the_ts |-> 0, buf |-> m.base]]
  <2>1. [the_ts |-> 0, buf |-> m.base] \in Found
    BY <1>2 DEF Found
  <2>2. SearchTo(m, at, 0, g)
    BY <2>1 DEF SearchTo
  <2> QED  BY <2>2
<1>7. ASSUME NEW n \in S PROVE n + 1 \in S
  <2> SUFFICES ASSUME n + 1 <= L PROVE \E g : SearchTo(m, at, n + 1, g)
    OBVIOUS
  <2>1. n \in Nat /\ n <= L /\ n + 1 \in 1..L
    BY <1>2
  <2>2. PICK g : SearchTo(m, at, n, g)
    BY <2>1
  <2>3. PICK f : f = Better(m, at, n + 1, g[n])
    OBVIOUS
  <2>4. f \in Found
    BY <1>5, <2>1, <2>2, <2>3 DEF SearchTo
  <2> DEFINE h == [i \in 0..(n + 1) |-> IF i = n + 1 THEN f ELSE g[i]]
  <2>5. h \in [0..(n + 1) -> Found] /\ \A i \in 0..n : h[i] = g[i]
    BY <2>1, <2>2, <2>4 DEF SearchTo
  <2>6. h[n + 1] = f
    BY <2>1
  <2> HIDE DEF h
  <2>7. ASSUME NEW i \in 1..(n + 1) PROVE h[i] = Better(m, at, i, h[i - 1])
    <3>1. CASE i = n + 1
      <4>1. i - 1 = n /\ n \in 0..n
        BY <2>1, <3>1
      <4> QED  BY <2>3, <2>5, <2>6, <3>1, <4>1
    <3>2. CASE i # n + 1
      <4>1. i \in 1..n /\ i \in 0..n /\ i - 1 \in 0..n
        BY <2>1, <3>2
      <4>2. g[i] = Better(m, at, i, g[i - 1])
        BY <2>2, <4>1 DEF SearchTo
      <4> QED  BY <2>5, <4>1, <4>2
    <3> QED  BY <3>1, <3>2
  <2>8. h[0] = [the_ts |-> 0, buf |-> m.base]
    BY <2>1, <2>2, <2>5 DEF SearchTo
  <2> QED  BY <2>5, <2>7, <2>8 DEF SearchTo
<1>8. S = Nat
  <2>1. S \in SUBSET Nat
    OBVIOUS
  <2> HIDE DEF S
  <2> QED  BY <1>6, <1>7, <2>1, NatSetInduction
<1> QED  BY <1>2, <1>8

LEMMA VersionForIs ==
    ASSUME NEW m, GoodRow(m), NEW at \in Nat
    PROVE  \E g : SearchTo(m, at, Len(m.hist), g) /\ VersionFor(m, at) = g[Len(m.hist)].buf
<1> DEFINE L == Len(m.hist)
           F(g) == [n \in 0..L |->
                      IF n = 0 THEN [the_ts |-> 0, buf |-> m.base]
                      ELSE IF m.hist[n].valid /\ m.hist[n].ts < at /\ m.hist[n].ts > g[n - 1].the_ts
                           THEN [the_ts |-> m.hist[n].ts % TsWrap, buf |-> m.hist[n].buf]
                           ELSE g[n - 1]]
           best == CHOOSE g : g = F(g)
<1>1. L \in Nat
  BY RowTypes DEF GoodRow
<1>2. PICK h : SearchTo(m, at, L, h)
  BY SearchExists
<1>3. h = F(h)
  <2>1. \A n \in 0..L : h[n] = F(h)[n]
    <3> TAKE n \in 0..L
    <3>1. CASE n = 0
      BY <1>1, <1>2, <3>1 DEF SearchTo
    <3>2. CASE n # 0
      <4>1. n \in 1..L
        BY <1>1, <3>2
      <4> QED  BY <1>2, <3>2, <4>1 DEF SearchTo, Better
    <3> QED  BY <3>1, <3>2
  <2>2. h \in [0..L -> Found]
    BY <1>2 DEF SearchTo
  <2> QED  BY <2>1, <2>2
<1>4. best = F(best)
  <2> HIDE DEF F
  <2> QED  BY <1>3
<1>5. VersionFor(m, at) = best[L].buf
  BY DEF VersionFor
<1> HIDE DEF best
<1>6. DOMAIN best = 0..L /\ best[0] = h[0]
  BY <1>1, <1>2, <1>4 DEF SearchTo
<1>7. \A n \in 1..L : best[n] = Better(m, at, n, best[n - 1])
  <2> TAKE n \in 1..L
  <2>1. n \in 0..L /\ n # 0
    BY <1>1
  <2> QED  BY <1>4, <2>1 DEF Better
<1>8. \A n \in 0..L : best[n] = h[n]
  <2> DEFINE S == {n \in Nat : n <= L => best[n] = h[n]}
  <2>1. 0 \in S
    BY <1>6
  <2>2. ASSUME NEW n \in S PROVE n + 1 \in S
    <3>1. CASE n + 1 <= L
      <4>1. n + 1 \in 1..L /\ n <= L /\ (n + 1) - 1 = n
        BY <1>1, <3>1
      <4>2. best[n] = h[n]
        BY <4>1
      <4>3. h[n + 1] = Better(m, at, n + 1, h[(n + 1) - 1])
        BY <1>2, <4>1 DEF SearchTo
      <4>4. best[n + 1] = Better(m, at, n + 1, best[(n + 1) - 1])
        BY <1>7, <4>1
      <4>5. best[n + 1] = h[n + 1]
        BY <4>1, <4>2, <4>3, <4>4
      <4> QED  BY <4>5
    <3>2. CASE ~ (n + 1 <= L)
      BY <3>2
    <3> QED  BY <3>1, <3>2
  <2>3. S = Nat
    <3>1. S \in SUBSET Nat
      OBVIOUS
    <3> HIDE DEF S
    <3> QED  BY <2>1, <2>2, <3>1, NatSetInduction
  <2> QED  BY <1>1, <2>3
<1> QED  BY <1>1, <1>2, <1>5, <1>8


\* The search ends with the base or with a version before at and, as long as the
\* timestamps fit the_ts, with the youngest one before at.
LEMMA VersionForFacts ==
    ASSUME NEW m, GoodRow(m), NEW at \in Nat
    PROVE  LET b == VersionFor(m, at)
           IN  /\ b \in DOMAIN m.data
               /\ \/ b = m.base
                  \/ \E i \in Valid(m) : b = m.hist[i].buf /\ m.hist[i].ts < at
               /\ (\A i \in Valid(m) : m.hist[i].ts < TsWrap) =>
                     \A i \in Valid(m) : m.hist[i].ts < at => m.hist[i].ts <= m.data[b]
<1> DEFINE b == VersionFor(m, at)
           L == Len(m.hist)
<1>1. m \in RowRecord /\ VersionsInOrder(m) /\ BuffersApart(m)
  BY DEF GoodRow
<1>2. /\ DOMAIN m.hist = 1..L /\ L \in Nat /\ m.oldest_wts \in Nat
      /\ \A i \in 1..L : m.hist[i].ts \in Nat
  BY <1>1, RowTypes
<1>3. PICK g : SearchTo(m, at, L, g) /\ b = g[L].buf
  BY VersionForIs
<1> HIDE DEF b
<1>4. TsWrap \in Nat \ {0}
  BY MvccAssumption
\* What holds of the search so far.
<1> DEFINE Place(n) == \/ g[n].buf = m.base /\ g[n].the_ts = 0
                       \/ \E i \in Valid(m) : /\ g[n].buf = m.hist[i].buf /\ m.hist[i].ts < at
                                              /\ g[n].the_ts = m.hist[i].ts % TsWrap
           Fit == \A i \in Valid(m) : m.hist[i].ts < TsWrap
           Top(n) == \A i \in Valid(m) : i <= n /\ m.hist[i].ts < at => m.hist[i].ts <= g[n].the_ts
           S == {n \in Nat : n <= L => Place(n) /\ (Fit => Top(n))}
<1>5. \A n \in 0..L : g[n].the_ts \in Nat
  BY <1>3 DEF SearchTo, Found
<1>6. 0 \in S
  <2>1. Place(0)
    BY <1>3 DEF SearchTo
  <2>2. \A i \in Valid(m) : ~ (i <= 0)
    BY <1>2 DEF Valid
  <2> QED  BY <2>1, <2>2
<1>7. ASSUME NEW n \in S PROVE n + 1 \in S
  <2> SUFFICES ASSUME n + 1 <= L PROVE Place(n + 1) /\ (Fit => Top(n + 1))
    OBVIOUS
  <2>1. n + 1 \in 1..L /\ n \in 0..L /\ n + 1 \in 0..L /\ (n + 1) - 1 = n
    BY <1>2
  <2>2. Place(n) /\ (Fit => Top(n))
    BY <2>1
  <2>3. g[n + 1] = Better(m, at, n + 1, g[n])
    BY <1>3, <2>1 DEF SearchTo
  <2>4. \A i \in Valid(m) : i \in 1..L /\ m.hist[i].ts \in Nat
    BY <1>2 DEF Valid
  <2>5. n + 1 \in Valid(m) <=> m.hist[n + 1].valid
    BY <1>2, <2>1 DEF Valid
  <2>6. CASE m.hist[n + 1].valid /\ m.hist[n + 1].ts < at /\ m.hist[n + 1].ts > g[n].the_ts
    <3>1. g[n + 1].buf = m.hist[n + 1].buf /\ g[n + 1].the_ts = m.hist[n + 1].ts % TsWrap
      BY <2>3, <2>6 DEF Better
    <3>2. Place(n + 1)
      BY <2>5, <2>6, <3>1
    <3>3. ASSUME Fit PROVE Top(n + 1)
      <4>1. m.hist[n + 1].ts % TsWrap = m.hist[n + 1].ts
        <5>1. m.hist[n + 1].ts \in Nat /\ m.hist[n + 1].ts < TsWrap
          BY <2>4, <2>5, <2>6, <3>3
        <5>2. \A y \in Nat : y < TsWrap => y % TsWrap = y
          BY <1>4
        <5> QED  BY <5>1, <5>2
      <4>2. ASSUME NEW i \in Valid(m), i <= n + 1, m.hist[i].ts < at
            PROVE  m.hist[i].ts <= m.hist[n + 1].ts
        <5>1. CASE i = n + 1
          BY <2>4, <5>1
        <5>2. CASE i # n + 1
          <6>1. i <= n
            BY <2>1, <2>4, <4>2, <5>2
          <6>2. m.hist[i].ts <= g[n].the_ts
            BY <2>2, <3>3, <4>2, <6>1
          <6> QED  BY <1>5, <2>1, <2>4, <2>5, <2>6, <6>2
        <5> QED  BY <5>1, <5>2
      <4> QED  BY <3>1, <4>1, <4>2
    <3> QED  BY <3>2, <3>3
  <2>7. CASE ~ (m.hist[n + 1].valid /\ m.hist[n + 1].ts < at /\ m.hist[n + 1].ts > g[n].the_ts)
    <3>1. g[n + 1] = g[n]
      BY <2>3, <2>7 DEF Better
    <3>2. Place(n + 1)
      BY <2>2, <3>1
    <3>3. ASSUME Fit PROVE Top(n + 1)
      <4>1. ASSUME NEW i \in Valid(m), i <= n + 1, m.hist[i].ts < at
            PROVE  m.hist[i].ts <= g[n].the_ts
        <5>1. CASE i = n + 1
          BY <1>5, <2>1, <2>4, <2>5, <2>7, <4>1, <5>1
        <5>2. CASE i # n + 1
          <6>1. i <= n
            BY <2>1, <2>4, <4>1, <5>2
          <6> QED  BY <2>2, <3>3, <4>1, <6>1
        <5> QED  BY <5>1, <5>2
      <4> QED  BY <3>1, <4>1
    <3> QED  BY <3>2, <3>3
  <2> QED  BY <2>6, <2>7
<1>8. S = Nat
  <2>1. S \in SUBSET Nat
    OBVIOUS
  <2> HIDE DEF S
  <2> QED  BY <1>6, <1>7, <2>1, NatSetInduction
<1>9. Place(L) /\ (Fit => Top(L))
  BY <1>2, <1>8
<1> HIDE DEF S
<1>10. b = m.base \/ \E i \in Valid(m) : b = m.hist[i].buf /\ m.hist[i].ts < at
  BY <1>3, <1>9
<1>11. b \in DOMAIN m.data
  BY <1>1, <1>10 DEF BuffersApart
<1>12. ASSUME Fit, NEW j \in Valid(m), m.hist[j].ts < at
       PROVE  m.hist[j].ts <= m.data[b]
  <2>1. \A i \in Valid(m) : i <= L /\ m.hist[i].ts \in Nat
    BY <1>2 DEF Valid
  <2>2. m.hist[j].ts <= g[L].the_ts
    BY <1>9, <1>12, <2>1
  <2>3. g[L].the_ts = 0 => m.hist[j].ts = 0
    BY <2>1, <2>2
  <2>4. m.hist[j].ts # 0
    BY <1>1, <1>2, <2>1 DEF VersionsInOrder
  <2>5. PICK i \in Valid(m) : g[L].buf = m.hist[i].buf /\ g[L].the_ts = m.hist[i].ts % TsWrap
    BY <1>9, <2>3, <2>4
  <2>6. m.hist[i].ts % TsWrap = m.hist[i].ts
    BY <1>4, <1>12, <2>1
  <2>7. m.data[b] = m.hist[i].ts
    BY <1>1, <1>3, <2>5 DEF BuffersApart
  <2> QED  BY <2>2, <2>5, <2>6, <2>7
<1> QED  BY <1>10, <1>11, <1>12 DEF b


----------------------------------------------------------------------------
(* Transactions.                                                           *)

LEMMA TsBelow ==
    ASSUME TypeOK, TxnInv, NEW t \in Threads
    PROVE  ts[t] \in Nat /\ ts[t] < timestamp /\ ts[t] <= MaxTxn /\ ts[t] < NoTs
<1>1. ts[t] \in Nat /\ timestamp \in Nat /\ timestamp <= MaxTxn + 1
  BY MvccAssumption DEF TypeOK
<1>2. ts[t] < timestamp
  BY DEF TxnInv, TxnOK
<1> QED  BY <1>1, <1>2, MvccAssumption

\* The requests of a query, one for a row.
LEMMA QueryFacts ==
    ASSUME TypeOK, TxnInv, NEW t \in Threads
    PROVE  /\ query[t] \in Seq(Request) /\ DOMAIN query[t] = 1..Len(query[t])
           /\ Len(query[t]) \in Nat /\ row_cnt[t] \in Nat /\ row_cnt[t] <= Len(query[t])
           /\ \A i \in DOMAIN query[t] :
                 /\ query[t][i] \in Request
                 /\ query[t][i].row \in Rows /\ query[t][i].type \in {"RD", "WR"}
                 /\ query[t][i] = [row |-> query[t][i].row, type |-> query[t][i].type]
           /\ \A i, j \in DOMAIN query[t] : query[t][i].row = query[t][j].row => i = j
<1>1. query[t] \in Seq(Request) /\ row_cnt[t] \in Nat /\ row_cnt[t] <= Len(query[t])
  BY DEF TypeOK, TxnInv, TxnOK
<1>2. DOMAIN query[t] = 1..Len(query[t]) /\ Len(query[t]) \in Nat
  BY <1>1
<1>3. ASSUME NEW i \in DOMAIN query[t]
      PROVE  /\ query[t][i] \in Request
             /\ query[t][i].row \in Rows /\ query[t][i].type \in {"RD", "WR"}
             /\ query[t][i] = [row |-> query[t][i].row, type |-> query[t][i].type]
  <2>1. query[t][i] \in Request
    BY <1>1, <1>2
  <2> QED  BY <2>1 DEF Request
<1>4. \A i, j \in DOMAIN query[t] : query[t][i].row = query[t][j].row => i = j
  <2>1. CASE pc[t] = "start"
    BY <2>1 DEF TxnInv, TxnOK
  <2>2. CASE pc[t] # "start"
    <3>1. query[t] \in setup.queries /\ setup \in Setups
      BY <2>2 DEF TxnInv, TxnOK, TypeOK
    <3> QED  BY <3>1, QueriesAssumption
  <2> QED  BY <2>1, <2>2
<1> QED  BY <1>1, <1>2, <1>3, <1>4

LEMMA ReqFacts ==
    ASSUME TypeOK, TxnInv, NEW t \in Threads, row_cnt[t] < Len(query[t])
    PROVE  /\ row_cnt[t] + 1 \in DOMAIN query[t] /\ Req(t) = query[t][row_cnt[t] + 1]
           /\ Req(t).row \in Rows /\ Req(t).type \in {"RD", "WR"}
           /\ Req(t) = [row |-> Req(t).row, type |-> Req(t).type]
<1>1. row_cnt[t] + 1 \in DOMAIN query[t]
  <2>1. row_cnt[t] \in Nat /\ Len(query[t]) \in Nat /\ DOMAIN query[t] = 1..Len(query[t])
    BY QueryFacts
  <2> QED  BY <2>1
<1> QED  BY <1>1, QueryFacts DEF Req

LEMMA MinTsNat ==
    ASSUME TypeOK, NEW t \in Threads, NEW x \in MinTs(t)
    PROVE  x \in Nat
<1>1. Range(all_ts) \in SUBSET Nat /\ Range(all_ts) # {}
  BY DEF TypeOK, Range
<1>2. Min(Range(all_ts)) \in Nat
  BY <1>1, MinFacts
<1>3. min_ts \in Nat
  BY DEF TypeOK
<1>4. Max({min_ts, Min(Range(all_ts))}) \in Nat
  BY <1>2, <1>3, MaxOfTwo
<1> DEFINE top == IF t = Thread0 THEN Max({min_ts, Min(Range(all_ts))}) ELSE min_ts
<1>5. top \in Nat
  BY <1>3, <1>4
<1>6. x \in min_ts..top
  BY DEF MinTs
<1> HIDE DEF top
<1> QED  BY <1>3, <1>5, <1>6

\* A reservation has one transaction, which has started.
LEMMA ReserverFacts ==
    ASSUME HInv, NEW t \in Threads, NEW r \in Rows, Reserves(t, r)
    PROVE  /\ mvcc[r].prewrite_ts = ts[t] /\ ExistsPrewrite(mvcc[r]) /\ ts[t] > 0
           /\ \A u \in Threads : u # t => ts[u] # ts[t] /\ ~ Reserves(u, r)
<1>1. TypeOK /\ TxnInv /\ ThreadInv
  BY DEF HInv
<1>2. mvcc[r].prewrite_ts = ts[t]
  BY <1>1 DEF ThreadInv, ReservesKnown
<1>3. ts[t] < NoTs /\ ts[t] \in Nat /\ NoTs \in Nat
  BY <1>1, TsBelow, MvccAssumption
<1>4. pc[t] # "start"
  <2> SUFFICES ASSUME pc[t] = "start" PROVE FALSE
    OBVIOUS
  <2>1. query[t] = << >>
    BY <1>1 DEF TxnInv, TxnOK
  <2> QED  BY <2>1 DEF Reserves
<1>5. ts[t] > 0
  BY <1>1, <1>4 DEF TxnInv, TxnOK
<1>6. ASSUME NEW u \in Threads, u # t PROVE ts[u] # ts[t] /\ ~ Reserves(u, r)
  <2>1. ts[u] # ts[t]
    BY <1>1, <1>3, <1>5, <1>6 DEF TxnInv
  <2> QED  BY <1>1, <1>2, <2>1 DEF ThreadInv, ReservesKnown
<1> QED  BY <1>2, <1>3, <1>5, <1>6 DEF ExistsPrewrite

----------------------------------------------------------------------------
(* What a step leaves alone.                                               *)

SameTxn(u) ==
    /\ pc'[u] = pc[u] /\ query'[u] = query[u] /\ ts'[u] = ts[u] /\ row_cnt'[u] = row_cnt[u]
    /\ held'[u] = held[u] /\ seen'[u] = seen[u]

\* A row stays what a transaction of timestamp at takes it for.
Kept(m, n, at) ==
    /\ n.prewrite_ts = at <=> m.prewrite_ts = at
    /\ DOMAIN m.data \subseteq DOMAIN n.data
    /\ m.prewrite_ts = at => /\ ReservedBuf(n) = ReservedBuf(m)
                             /\ n.data[ReservedBuf(m)] = m.data[ReservedBuf(m)]
    /\ n.latest_wts = at => m.latest_wts = at

RowsKept(u) == \A r \in Rows : Kept(mvcc[r], mvcc'[r], ts[u])

LEMMA SameThread ==
    ASSUME HInv, NEW u \in Threads, SameTxn(u), RowsKept(u)
    PROVE  (ReservesKnown(u) /\ HeldKnown(u) /\ WrittenKnown(u) /\ NotAhead(u))'
<1>1. TypeOK /\ TxnInv /\ ReservesKnown(u) /\ HeldKnown(u) /\ WrittenKnown(u) /\ NotAhead(u)
  BY DEF HInv, ThreadInv
<1>2. ReservesKnown(u)'
  BY <1>1 DEF ReservesKnown, Reserves, SameTxn, RowsKept, Kept
<1>3. NotAhead(u)'
  BY <1>1 DEF NotAhead, SameTxn, RowsKept, Kept
<1>4. Req(u)' = Req(u)
  BY DEF Req, SameTxn
<1>5. HeldKnown(u)'
  <2> SUFFICES ASSUME pc'[u] = "use"
               PROVE  LET m == mvcc'[Req(u).row]
                      IN  /\ Last(held[u]) \in DOMAIN m.data
                          /\ Req(u).type = "WR" => Last(held[u]) = ReservedBuf(m)
    BY <1>4 DEF HeldKnown, SameTxn, ReservedBuf
  <2>1. pc[u] = "use" /\ row_cnt[u] < Len(query[u])
    BY <1>1 DEF SameTxn, TxnInv, TxnOK
  <2>2. /\ row_cnt[u] + 1 \in DOMAIN query[u] /\ Req(u) = query[u][row_cnt[u] + 1]
        /\ Req(u).row \in Rows /\ Req(u) = [row |-> Req(u).row, type |-> Req(u).type]
    BY <1>1, <2>1, ReqFacts
  <2>3. Last(held[u]) \in DOMAIN mvcc'[Req(u).row].data
    BY <1>1, <2>1, <2>2 DEF HeldKnown, RowsKept, Kept
  <2>4. ASSUME Req(u).type = "WR" PROVE Last(held[u]) = ReservedBuf(mvcc'[Req(u).row])
    <3>1. Reserves(u, Req(u).row)
      BY <2>1, <2>2, <2>4 DEF Reserves
    <3>2. mvcc[Req(u).row].prewrite_ts = ts[u]
      BY <1>1, <2>2, <3>1 DEF ReservesKnown
    <3> QED  BY <1>1, <2>1, <2>2, <2>4, <3>2 DEF HeldKnown, RowsKept, Kept
  <2> QED  BY <2>3, <2>4
<1>6. WrittenKnown(u)'
  <2> SUFFICES ASSUME NEW i \in 1..row_cnt[u], query[u][i].type = "WR"
               PROVE  mvcc'[query[u][i].row].data[ReservedBuf(mvcc'[query[u][i].row])] = ts[u]
    BY DEF WrittenKnown, SameTxn, ReservedBuf
  <2>1. /\ i \in DOMAIN query[u] /\ query[u][i].row \in Rows /\ i <= row_cnt[u]
        /\ query[u][i] = [row |-> query[u][i].row, type |-> "WR"]
    <3>1. row_cnt[u] \in Nat /\ Len(query[u]) \in Nat /\ DOMAIN query[u] = 1..Len(query[u])
          /\ row_cnt[u] <= Len(query[u])
      BY <1>1, QueryFacts
    <3>2. i \in DOMAIN query[u] /\ i <= row_cnt[u]
      BY <3>1
    <3> QED  BY <1>1, <3>2, QueryFacts
  <2>2. Reserves(u, query[u][i].row)
    BY <2>1 DEF Reserves
  <2>3. mvcc[query[u][i].row].prewrite_ts = ts[u]
    BY <1>1, <2>1, <2>2 DEF ReservesKnown
  <2>4. mvcc[query[u][i].row].data[ReservedBuf(mvcc[query[u][i].row])] = ts[u]
    BY <1>1 DEF WrittenKnown
  <2> QED  BY <2>1, <2>3, <2>4 DEF RowsKept, Kept
<1> QED  BY <1>2, <1>3, <1>5, <1>6

LEMMA RowsSame ==
    ASSUME NEW u \in Threads, mvcc' = mvcc
    PROVE  RowsKept(u)
BY DEF RowsKept, Kept


LEMMA SameTxnOK ==
    ASSUME HInv, NEW u \in Threads, SameTxn(u), setup' = setup,
           timestamp' \in Nat, timestamp <= timestamp'
    PROVE  TxnOK(u)'
<1>1. TxnOK(u) /\ ts[u] \in Nat /\ timestamp \in Nat
  BY MvccAssumption DEF HInv, TypeOK, TxnInv
<1>2. ts'[u] < timestamp'
  BY <1>1 DEF TxnOK, SameTxn
<1> QED  BY <1>1, <1>2 DEF TxnOK, SameTxn

\* A step of t that changes no row.
LEMMA LocalStep ==
    ASSUME HInv, NEW t \in Threads, TypeOK', TxnInv', mvcc' = mvcc,
           timestamp' \in Nat, timestamp <= timestamp',
           \A u \in Threads : u # t => SameTxn(u), pc[t] # "wait",
           (ReservesKnown(t) /\ HeldKnown(t) /\ WrittenKnown(t) /\ NotAhead(t))'
    PROVE  HInv'
<1>1. RowsGood'
  BY DEF HInv, RowsGood
<1>2. ThreadInv'
  <2>1. ASSUME NEW u \in Threads
        PROVE  (ReservesKnown(u) /\ HeldKnown(u) /\ WrittenKnown(u) /\ NotAhead(u))'
    <3>1. CASE u = t
      BY <3>1
    <3>2. CASE u # t
      BY <3>2, RowsSame, SameThread
    <3> QED  BY <3>1, <3>2
  <2> QED  BY <2>1 DEF ThreadInv
<1>3. timestamp \in Nat
  BY MvccAssumption DEF HInv, TypeOK
<1>4. ClockInv'
  <2>1. \A r \in Rows : mvcc[r].latest_wts \in Nat /\ mvcc[r].prewrite_ts \in Nat
    BY RowTypes DEF HInv, TypeOK
  <2> QED  BY <1>3, <2>1 DEF HInv, ClockInv, RowClock, ExistsPrewrite
<1>5. QueueInv'
  <2>1. \A r \in Rows : \A u \in mvcc[r].requests : u \in Threads /\ pc[u] = "wait"
    BY RowTypes DEF HInv, TypeOK, QueueInv, RowQueue
  <2>2. \A r \in Rows : \A u \in mvcc[r].requests : SameTxn(u)
    BY <2>1
  <2>3. \A u \in Threads : SameTxn(u) => Req(u)' = Req(u)
    BY DEF SameTxn, Req
  <2> QED  BY <2>1, <2>2, <2>3 DEF HInv, QueueInv, RowQueue, SameTxn, ExistsPrewrite
<1> QED  BY <1>1, <1>2, <1>4, <1>5 DEF HInv

\* A transaction that has no row yet reserves none.
LEMMA NoneReserved ==
    ASSUME HInv, NEW at \in Nat, at = 0 \/ (at = timestamp /\ timestamp # NoTs), NEW r \in Rows
    PROVE  mvcc[r].prewrite_ts # at
<1>1. /\ mvcc[r] \in RowRecord /\ ReservationKnown(mvcc[r])
      /\ (ExistsPrewrite(mvcc[r]) => mvcc[r].prewrite_ts < timestamp)
  BY DEF HInv, RowsGood, GoodRow, ClockInv, RowClock
<1>2. mvcc[r].latest_wts \in Nat /\ mvcc[r].prewrite_ts \in Nat /\ timestamp \in Nat
  BY <1>1, RowTypes, MvccAssumption DEF HInv, TypeOK
<1>3. NoTs # 0
  BY MvccAssumption
<1> QED  BY <1>1, <1>2, <1>3 DEF ReservationKnown, ExistsPrewrite

LEMMA StartHInv ==
    ASSUME HInv, NEW t \in Threads, Start(t)
    PROVE  HInv'
<1>1. TypeOK /\ TxnInv /\ TxnOK(t)
  BY DEF HInv, TxnInv
<1>2. PICK q \in setup.queries : query' = [query EXCEPT ![t] = q]
  BY DEF Start
<1>3. q \in Seq(Request)
  BY <1>1, QueriesAssumption DEF TypeOK, Request
<1>4. starts \in Nat /\ starts < MaxTxn /\ timestamp = starts + 1 /\ timestamp # NoTs
  BY <1>1, MvccAssumption DEF TypeOK, Start
<1>5. TypeOK'
  BY <1>1, <1>2, <1>3, <1>4, MvccAssumption DEF TypeOK, Start, Goto
<1>6. \A u \in Threads : u # t => SameTxn(u)
  BY <1>1, <1>2 DEF TypeOK, Start, Goto, SameTxn
<1>7. pc[t] = "start" /\ pc'[t] = "add_ts" /\ ts'[t] = timestamp /\ row_cnt[t] = 0 /\ row_cnt'[t] = 0
      /\ query'[t] = q /\ Len(held'[t]) = 0 /\ Len(seen'[t]) = 0
  BY <1>1, <1>2 DEF TypeOK, Start, Goto, TxnOK
<1>8. timestamp' = timestamp + 1 /\ setup' = setup /\ mvcc' = mvcc
  BY DEF Start
<1>9. TxnInv'
  <2>1. TxnOK(t)'
    BY <1>2, <1>3, <1>4, <1>7, <1>8 DEF TxnOK
  <2>2. ASSUME NEW u \in Threads, u # t PROVE TxnOK(u)'
    BY <1>4, <1>6, <1>8, <2>2, SameTxnOK
  <2>3. \A u \in Threads : u # t => ts'[u] = ts[u] /\ ts[u] # timestamp
    BY <1>1, <1>4, <1>6, TsBelow DEF SameTxn
  <2>4. \A u, v \in Threads : ts[u] = ts[v] /\ u # v => ts[u] = 0
    BY <1>1 DEF TxnInv
  <2>5. \A u, v \in Threads : ts'[u] = ts'[v] /\ u # v => ts'[u] = 0
    BY <1>7, <2>3, <2>4
  <2> QED  BY <2>1, <2>2, <2>5 DEF TxnInv
<1>10. ReservesKnown(t)'
  <2>1. ASSUME NEW r \in Rows PROVE ~ Reserves(t, r)' /\ mvcc[r].prewrite_ts # timestamp
    <3>1. \A i \in DOMAIN q : ~ (i <= 0)
      BY <1>3
    <3> QED  BY <1>4, <1>7, <3>1, NoneReserved DEF Reserves
  <2> QED  BY <1>7, <1>8, <2>1 DEF ReservesKnown
<1>11. HeldKnown(t)' /\ WrittenKnown(t)'
  BY <1>7 DEF HeldKnown, WrittenKnown
<1>12. NotAhead(t)'
  <2>1. \A r \in Rows : mvcc[r].latest_wts < timestamp /\ mvcc[r].latest_wts \in Nat
    BY RowTypes DEF HInv, ClockInv, RowClock, TypeOK
  <2> QED  BY <1>4, <1>7, <1>8, <2>1 DEF NotAhead
<1> QED  BY <1>4, <1>5, <1>6, <1>7, <1>8, <1>9, <1>10, <1>11, <1>12, LocalStep

LEMMA FinishHInv ==
    ASSUME HInv, NEW t \in Threads, Finish(t)
    PROVE  HInv'
<1>1. TypeOK /\ TxnInv /\ TxnOK(t)
  BY DEF HInv, TxnInv
<1>2. TypeOK'
  BY <1>1 DEF TypeOK, Finish, Goto
<1>3. \A u \in Threads : u # t => SameTxn(u)
  BY <1>1 DEF TypeOK, Finish, Goto, SameTxn
<1>4. pc[t] # "wait" /\ pc'[t] = "start" /\ ts'[t] = 0 /\ row_cnt'[t] = 0 /\ query'[t] = << >>
      /\ Len(held'[t]) = 0 /\ Len(seen'[t]) = 0
  BY <1>1 DEF TypeOK, Finish, Goto
<1>5. timestamp' = timestamp /\ setup' = setup /\ mvcc' = mvcc /\ timestamp \in Nat
      /\ timestamp > 0 /\ timestamp <= timestamp
  BY <1>1, MvccAssumption DEF Finish, TypeOK
<1>6. TxnInv'
  <2>1. TxnOK(t)'
    BY <1>4, <1>5 DEF TxnOK
  <2>2. ASSUME NEW u \in Threads, u # t PROVE TxnOK(u)'
    BY <1>3, <1>5, <2>2, SameTxnOK
  <2>3. \A u, v \in Threads : ts'[u] = ts'[v] /\ u # v => ts'[u] = 0
    BY <1>1, <1>3, <1>4 DEF TxnInv, SameTxn
  <2> QED  BY <2>1, <2>2, <2>3 DEF TxnInv
<1>7. ReservesKnown(t)'
  <2>1. ASSUME NEW r \in Rows PROVE ~ Reserves(t, r)' /\ mvcc[r].prewrite_ts # 0
    <3>1. mvcc[r].prewrite_ts # 0
      BY NoneReserved
    <3> QED  BY <1>4, <3>1 DEF Reserves
  <2> QED  BY <1>4, <1>5, <2>1 DEF ReservesKnown
<1>8. HeldKnown(t)' /\ WrittenKnown(t)' /\ NotAhead(t)'
  BY <1>4 DEF HeldKnown, WrittenKnown, NotAhead
<1> QED  BY <1>2, <1>3, <1>4, <1>5, <1>6, <1>7, <1>8, LocalStep

\* AddTs, an abort, a commit: t goes on with what it has.
GoesOn(t, label) ==
    /\ \/ pc[t] = "add_ts" /\ label = "access"
       \/ pc[t] = "access" /\ label \in {"abort", "commit"}
    /\ pc' = [pc EXCEPT ![t] = label]
    /\ UNCHANGED <<setup, timestamp, mvcc, min_ts, txnVars>> /\ all_ts' \in [Threads -> Nat]

LEMMA GoOnHInv ==
    ASSUME HInv, NEW t \in Threads, NEW label, GoesOn(t, label)
    PROVE  HInv'
<1>1. TypeOK /\ TxnInv /\ TxnOK(t)
  BY DEF HInv, TxnInv
<1>2. TypeOK'
  BY <1>1 DEF TypeOK, txnVars, GoesOn
<1>3. \A u \in Threads : u # t => SameTxn(u)
  BY <1>1 DEF TypeOK, SameTxn, txnVars, GoesOn
<1>4. /\ pc'[t] \in {"access", "abort", "commit"} /\ pc[t] \in {"access", "add_ts"}
      /\ query'[t] = query[t] /\ ts'[t] = ts[t] /\ row_cnt'[t] = row_cnt[t]
      /\ held'[t] = held[t] /\ seen'[t] = seen[t]
  BY <1>1 DEF TypeOK, txnVars, GoesOn
<1>5. timestamp' = timestamp /\ setup' = setup /\ mvcc' = mvcc /\ timestamp \in Nat
      /\ timestamp <= timestamp /\ ts' = ts
  BY <1>1, MvccAssumption DEF TypeOK, txnVars, GoesOn
<1>6. TxnInv'
  <2>1. TxnOK(t)'
    BY <1>1, <1>4, <1>5 DEF TxnOK
  <2>2. ASSUME NEW u \in Threads, u # t PROVE TxnOK(u)'
    BY <1>3, <1>5, <2>2, SameTxnOK
  <2> QED  BY <1>1, <1>5, <2>1, <2>2 DEF TxnInv
<1>7. ReservesKnown(t) /\ HeldKnown(t) /\ WrittenKnown(t) /\ NotAhead(t)
  BY DEF HInv, ThreadInv
<1>8. ReservesKnown(t)'
  BY <1>4, <1>5, <1>7 DEF ReservesKnown, Reserves
<1>9. HeldKnown(t)' /\ WrittenKnown(t)'
  BY <1>4, <1>5, <1>7 DEF HeldKnown, WrittenKnown, ReservedBuf
<1>10. NotAhead(t)'
  BY <1>4, <1>5, <1>7 DEF NotAhead
<1> QED  BY <1>2, <1>3, <1>4, <1>5, <1>6, <1>8, <1>9, <1>10, LocalStep


----------------------------------------------------------------------------
(* Steps that change a row.                                                *)

\* A step that changes row r into n: what is left to show.
LEMMA RowStep ==
    ASSUME HInv, NEW r \in Rows, NEW n, GoodRow(n), RowClock(n),
           mvcc' = [mvcc EXCEPT ![r] = n], timestamp' = timestamp, TypeOK', TxnInv', ThreadInv',
           \A q \in Rows : q # r => \A u \in mvcc[q].requests : SameTxn(u),
           RowQueue(r)'
    PROVE  HInv'
<1>1. /\ TypeOK /\ RowsGood /\ ClockInv /\ QueueInv /\ mvcc \in [Rows -> RowRecord]
  BY DEF HInv, TypeOK
<1>2. mvcc'[r] = n /\ \A q \in Rows : q # r => mvcc'[q] = mvcc[q]
  BY <1>1
<1>3. RowsGood'
  <2>1. \A q \in Rows : GoodRow(mvcc'[q])
    BY <1>1, <1>2 DEF RowsGood
  <2> QED  BY <2>1 DEF RowsGood, GoodRow, VersionsInOrder, BuffersApart, ReservationKnown,
                       Valid, Bufs, ExistsPrewrite
<1>4. ClockInv'
  BY <1>1, <1>2 DEF ClockInv, RowClock, ExistsPrewrite
<1>5. ASSUME NEW q \in Rows PROVE RowQueue(q)'
  <2>1. CASE q = r
    BY <2>1
  <2>2. CASE q # r
    <3>1. \A u \in mvcc[q].requests : SameTxn(u) /\ Req(u)' = Req(u)
      BY <2>2 DEF SameTxn, Req
    <3>2. RowQueue(q)
      BY <1>1 DEF QueueInv
    <3> QED  BY <1>2, <2>2, <3>1, <3>2 DEF RowQueue, SameTxn, ExistsPrewrite
  <2> QED  BY <2>1, <2>2
<1>6. QueueInv'
  BY <1>5 DEF QueueInv
<1> QED  BY <1>3, <1>4, <1>6 DEF HInv


\* A transaction that asks for a row has not been there.
LEMMA NewRow ==
    ASSUME HInv, NEW t \in Threads, pc[t] \in {"access", "wait"}, row_cnt[t] < Len(query[t])
    PROVE  LET m == mvcc[Req(t).row]
           IN  /\ Req(t).row \in Rows /\ Req(t).type \in {"RD", "WR"} /\ GoodRow(m)
               /\ m \in RowRecord /\ m.prewrite_ts # ts[t] /\ m.latest_wts # ts[t]
               /\ ts[t] \in Nat /\ ts[t] > 0 /\ ts[t] < timestamp /\ ts[t] < NoTs
               /\ \A i \in 1..row_cnt[t] : query[t][i].row # Req(t).row
<1>1. TypeOK /\ TxnInv /\ TxnOK(t) /\ ReservesKnown(t) /\ NotAhead(t) /\ RowsGood
  BY DEF HInv, TxnInv, ThreadInv
<1>2. /\ row_cnt[t] + 1 \in DOMAIN query[t] /\ Req(t) = query[t][row_cnt[t] + 1]
      /\ Req(t).row \in Rows /\ Req(t).type \in {"RD", "WR"}
  BY <1>1, ReqFacts
<1>3. ts[t] \in Nat /\ ts[t] > 0 /\ ts[t] < timestamp /\ ts[t] < NoTs
  BY <1>1, TsBelow DEF TxnOK
<1>4. row_cnt[t] \in Nat /\ DOMAIN query[t] = 1..Len(query[t]) /\ Len(query[t]) \in Nat
  BY <1>1, QueryFacts
<1>5. ASSUME NEW i \in DOMAIN query[t], i <= row_cnt[t] PROVE query[t][i].row # Req(t).row
  <2>1. i # row_cnt[t] + 1
    BY <1>4, <1>5
  <2> QED  BY <1>1, <1>2, <2>1, QueryFacts
<1>6. ~ Reserves(t, Req(t).row)
  BY <1>5 DEF Reserves
<1>7. mvcc[Req(t).row].prewrite_ts # ts[t] /\ mvcc[Req(t).row].latest_wts # ts[t]
  BY <1>1, <1>2, <1>3, <1>6 DEF ReservesKnown, NotAhead
<1>8. \A i \in 1..row_cnt[t] : query[t][i].row # Req(t).row
  <2> TAKE i \in 1..row_cnt[t]
  <2>1. i \in DOMAIN query[t] /\ i <= row_cnt[t]
    BY <1>4
  <2> QED  BY <1>5, <2>1
<1> QED  BY <1>1, <1>2, <1>3, <1>7, <1>8 DEF RowsGood, GoodRow

\* Only the queue and max_served_rts of r change.
LEMMA RequeuedKept ==
    ASSUME HInv, NEW r \in Rows, NEW n, Requeued(mvcc[r], n), mvcc' = [mvcc EXCEPT ![r] = n]
    PROVE  /\ GoodRow(n) /\ RowClock(n)
           /\ \A u \in Threads : RowsKept(u)
           /\ mvcc' \in [Rows -> RowRecord] /\ mvcc'[r] = n /\ \A q \in Rows : q # r => mvcc'[q] = mvcc[q]
           /\ \A q \in Rows : /\ mvcc'[q].prewrite_ts = mvcc[q].prewrite_ts
                              /\ mvcc'[q].latest_wts = mvcc[q].latest_wts
                              /\ mvcc'[q].data = mvcc[q].data
                              /\ ReservedBuf(mvcc'[q]) = ReservedBuf(mvcc[q])
<1>1. mvcc \in [Rows -> RowRecord] /\ GoodRow(mvcc[r]) /\ RowClock(mvcc[r])
  BY DEF HInv, TypeOK, RowsGood, ClockInv
<1>2. GoodRow(n) /\ ReservedBuf(n) = ReservedBuf(mvcc[r]) /\ n \in RowRecord
  BY <1>1, RequeuedGood DEF Requeued
<1>3. n.prewrite_ts = mvcc[r].prewrite_ts /\ n.latest_wts = mvcc[r].latest_wts /\ n.data = mvcc[r].data
  BY DEF Requeued
<1>4. /\ mvcc' \in [Rows -> RowRecord] /\ mvcc'[r] = n /\ \A q \in Rows : q # r => mvcc'[q] = mvcc[q]
  BY <1>1, <1>2
<1>5. RowClock(n)
  BY <1>1, <1>3 DEF RowClock, ExistsPrewrite
<1>6. \A q \in Rows : /\ mvcc'[q].prewrite_ts = mvcc[q].prewrite_ts
                      /\ mvcc'[q].latest_wts = mvcc[q].latest_wts
                      /\ mvcc'[q].data = mvcc[q].data
                      /\ ReservedBuf(mvcc'[q]) = ReservedBuf(mvcc[q])
  BY <1>2, <1>3, <1>4
<1>7. ASSUME NEW u \in Threads PROVE RowsKept(u)
  BY <1>6 DEF RowsKept, Kept
<1> QED  BY <1>2, <1>4, <1>5, <1>6, <1>7

LEMMA EnqueueHInv ==
    ASSUME HInv, NEW t \in Threads, pc[t] = "access", row_cnt[t] < Len(query[t]),
           mvcc[Req(t).row].latest_wts < ts[t], ExistsPrewrite(mvcc[Req(t).row]),
           mvcc[Req(t).row].prewrite_ts < ts[t],
           Req(t).type = "WR" => mvcc[Req(t).row].max_served_rts <= ts[t],
           mvcc' = [mvcc EXCEPT ![Req(t).row].requests = @ \cup {t}], Goto(t, "wait"),
           UNCHANGED <<setup, timestamp, all_ts, min_ts, txnVars>>
    PROVE  HInv'
<1> DEFINE r == Req(t).row
           m == mvcc[r]
           n == [m EXCEPT !.requests = @ \cup {t}]
<1>1. TypeOK /\ TxnInv /\ TxnOK(t) /\ QueueInv /\ r \in Rows /\ m \in RowRecord
  BY NewRow DEF HInv, TxnInv
<1>2. mvcc' = [mvcc EXCEPT ![r] = n]
  BY <1>1
<1>3. Requeued(m, n) /\ n.requests = m.requests \cup {t} /\ n.max_served_rts = m.max_served_rts
  BY <1>1 DEF Requeued, RowRecord
<1>4. PICK s : s = n
  OBVIOUS
<1> HIDE DEF n
<1>5. /\ GoodRow(s) /\ RowClock(s) /\ \A u \in Threads : RowsKept(u)
      /\ mvcc' \in [Rows -> RowRecord] /\ mvcc'[r] = s /\ \A q \in Rows : q # r => mvcc'[q] = mvcc[q]
      /\ \A q \in Rows : /\ mvcc'[q].prewrite_ts = mvcc[q].prewrite_ts
                         /\ mvcc'[q].latest_wts = mvcc[q].latest_wts
                         /\ mvcc'[q].data = mvcc[q].data
                         /\ ReservedBuf(mvcc'[q]) = ReservedBuf(mvcc[q])
  BY <1>1, <1>2, <1>3, <1>4, RequeuedKept
<1>6. pc'[t] = "wait" /\ \A u \in Threads : u # t => pc'[u] = pc[u]
  BY <1>1 DEF Goto, TypeOK
<1>7. TypeOK'
  BY <1>1, <1>5 DEF TypeOK, Goto, txnVars
<1>8. /\ query'[t] = query[t] /\ ts'[t] = ts[t] /\ row_cnt'[t] = row_cnt[t] /\ held'[t] = held[t]
      /\ seen'[t] = seen[t] /\ ts' = ts /\ setup' = setup /\ timestamp' = timestamp
      /\ \A u \in Threads : u # t => SameTxn(u)
      /\ \A u \in Threads : Req(u)' = Req(u)
  BY <1>6 DEF SameTxn, txnVars, Req
<1>9. timestamp \in Nat /\ timestamp <= timestamp
  BY <1>1, MvccAssumption DEF TypeOK
<1>10. TxnInv'
  <2>1. TxnOK(t)'
    BY <1>1, <1>6, <1>8 DEF TxnOK
  <2>2. ASSUME NEW u \in Threads, u # t PROVE TxnOK(u)'
    BY <1>8, <1>9, <2>2, SameTxnOK
  <2> QED  BY <1>1, <1>8, <2>1, <2>2 DEF TxnInv
<1>11. ThreadInv'
  <2>1. ASSUME NEW u \in Threads, u # t
        PROVE  (ReservesKnown(u) /\ HeldKnown(u) /\ WrittenKnown(u) /\ NotAhead(u))'
    BY <1>5, <1>8, <2>1, SameThread
  <2>2. ReservesKnown(t) /\ WrittenKnown(t) /\ NotAhead(t)
    BY DEF HInv, ThreadInv
  <2>3. ReservesKnown(t)'
    BY <1>5, <1>6, <1>8, <2>2 DEF ReservesKnown, Reserves
  <2>4. HeldKnown(t)'
    BY <1>6 DEF HeldKnown
  <2>5. WrittenKnown(t)'
    <3> SUFFICES ASSUME NEW i \in 1..row_cnt[t], query[t][i].type = "WR"
                 PROVE  mvcc'[query[t][i].row].data[ReservedBuf(mvcc'[query[t][i].row])] = ts[t]
      BY <1>8 DEF WrittenKnown, ReservedBuf
    <3>1. query[t][i].row \in Rows
      <4>1. i \in DOMAIN query[t]
        BY <1>1, QueryFacts
      <4> QED  BY <1>1, <4>1, QueryFacts
    <3> QED  BY <1>5, <2>2, <3>1 DEF WrittenKnown
  <2>6. NotAhead(t)'
    BY <1>5, <1>6, <1>8, <2>2 DEF NotAhead
  <2> QED  BY <2>1, <2>3, <2>4, <2>5, <2>6 DEF ThreadInv
<1>12. \A q \in Rows : q # r => \A u \in mvcc[q].requests : SameTxn(u)
  <2>1. \A q \in Rows : \A u \in mvcc[q].requests : u \in Threads /\ pc[u] = "wait"
    BY <1>1, RowTypes DEF TypeOK, QueueInv, RowQueue
  <2> QED  BY <1>8, <2>1
<1>13. ASSUME NEW k \in Rows, k = r PROVE RowQueue(k)'
  <2>0. RowQueue(r)
    BY <1>1 DEF QueueInv
  <2>1. s.requests = m.requests \cup {t} /\ s.max_served_rts = m.max_served_rts
    BY <1>3, <1>4
  <2>2. \A u \in m.requests : u \in Threads /\ pc[u] = "wait"
    BY <1>1, <2>0, RowTypes DEF RowQueue
  <2>3. \A u \in m.requests : u # t /\ pc'[u] = "wait"
    BY <1>6, <2>2
  <2>4. s.prewrite_ts = m.prewrite_ts /\ s.latest_wts = m.latest_wts
    BY <1>1, <1>5
  <2> QED  BY <1>5, <1>6, <1>8, <1>13, <2>0, <2>1, <2>2, <2>3, <2>4 DEF RowQueue, ExistsPrewrite
<1>14. PICK k \in Rows : k = r
  BY <1>1
<1> HIDE DEF r
<1> QED  BY <1>14, <1>1, <1>2, <1>4, <1>5, <1>7, <1>8, <1>10, <1>11, <1>12, <1>13, RowStep

LEMMA WaitHInv ==
    ASSUME HInv, NEW t \in Threads, ReadWait(t) \/ PrewriteWait(t)
    PROVE  HInv'
<1> DEFINE m == mvcc[Req(t).row]
<1>1. pc[t] = "access" /\ row_cnt[t] < Len(query[t])
  BY DEF ReadWait, PrewriteWait, AtRow
<1>2. /\ m \in RowRecord /\ m.prewrite_ts # ts[t] /\ m.latest_wts # ts[t]
      /\ ts[t] \in Nat /\ ts[t] < NoTs
  BY <1>1, NewRow
<1>3. /\ m.prewrite_ts \in Nat /\ m.latest_wts \in Nat /\ m.max_served_rts \in Nat /\ NoTs \in Nat
  BY <1>2, RowTypes, MvccAssumption
<1>4. CASE ReadWait(t)
  <2>1. m.latest_wts < ts[t] /\ ExistsPrewrite(m) /\ m.prewrite_ts < ts[t] /\ Req(t).type # "WR"
    BY <1>2, <1>3, <1>4 DEF ReadWait, ExistsPrewrite, AtRow
  <2> QED  BY <1>1, <1>4, <2>1, EnqueueHInv DEF ReadWait
<1>5. CASE PrewriteWait(t)
  <2>1. /\ m.latest_wts < ts[t] /\ ExistsPrewrite(m) /\ m.prewrite_ts < ts[t]
        /\ m.max_served_rts <= ts[t]
    BY <1>2, <1>3, <1>5 DEF PrewriteWait, TooLate
  <2> QED  BY <1>1, <1>5, <2>1, EnqueueHInv DEF PrewriteWait
<1> QED  BY <1>4, <1>5


\* t is given a buffer of its row to read, and perhaps counted among those served.
LEMMA GivenHInv ==
    ASSUME HInv, NEW t \in Threads, AtRow(t, "RD"), NEW b \in DOMAIN mvcc[Req(t).row].data,
           NEW n, Requeued(mvcc[Req(t).row], n), n.requests = mvcc[Req(t).row].requests,
           \/ n.max_served_rts = mvcc[Req(t).row].max_served_rts
           \/ n.max_served_rts = ts[t] /\ ts[t] <= mvcc[Req(t).row].prewrite_ts,
           mvcc' = [mvcc EXCEPT ![Req(t).row] = n], Goto(t, "use"), Give({t}, b),
           UNCHANGED <<setup, timestamp, all_ts, min_ts, query, ts, row_cnt, seen, lost, starts>>
    PROVE  HInv'
<1>1. TypeOK /\ TxnInv /\ TxnOK(t) /\ QueueInv /\ pc[t] = "access" /\ row_cnt[t] < Len(query[t])
  BY DEF HInv, TxnInv, AtRow
<1>2. Req(t).row \in Rows /\ Req(t).type = "RD"
  BY <1>1, ReqFacts DEF AtRow
<1>3. b \in Nat
  <2>1. PICK m \in RowRecord : m = mvcc[Req(t).row]
    BY <1>1, <1>2 DEF TypeOK
  <2>2. DOMAIN m.data \subseteq Nat
    BY RowTypes
  <2> QED  BY <2>1, <2>2
<1>4. held \in [Threads -> Seq(Nat)] /\ held[t] \in Seq(Nat) /\ Append(held[t], b) \in Seq(Nat)
  BY <1>1, <1>3 DEF TypeOK
<1>5. held' \in [Threads -> Seq(Nat)] /\ held'[t] = Append(held[t], b)
      /\ \A u \in Threads : u # t => held'[u] = held[u]
  BY <1>4 DEF Give
<1>6. pc'[t] = "use" /\ \A u \in Threads : u # t => pc'[u] = pc[u]
  BY <1>1 DEF Goto, TypeOK
<1>7. PICK r \in Rows : r = Req(t).row
  BY <1>2
<1>8. /\ GoodRow(n) /\ RowClock(n) /\ \A u \in Threads : RowsKept(u)
      /\ mvcc' \in [Rows -> RowRecord] /\ mvcc'[r] = n /\ \A q \in Rows : q # r => mvcc'[q] = mvcc[q]
      /\ \A q \in Rows : /\ mvcc'[q].prewrite_ts = mvcc[q].prewrite_ts
                         /\ mvcc'[q].latest_wts = mvcc[q].latest_wts
                         /\ mvcc'[q].data = mvcc[q].data
                         /\ ReservedBuf(mvcc'[q]) = ReservedBuf(mvcc[q])
  BY <1>7, RequeuedKept
<1>9. TypeOK'
  BY <1>1, <1>5, <1>8 DEF TypeOK, Goto
<1>10. \A u \in Threads : u # t => SameTxn(u)
  BY <1>5, <1>6 DEF SameTxn
<1>11. timestamp \in Nat /\ timestamp <= timestamp
  BY <1>1, MvccAssumption DEF TypeOK
<1>12. Len(held'[t]) = Len(held[t]) + 1 /\ held'[t][Len(held'[t])] = b
  BY <1>3, <1>4, <1>5
<1>13. TxnInv'
  <2>1. TxnOK(t)'
    BY <1>1, <1>6, <1>12 DEF TxnOK
  <2>2. ASSUME NEW u \in Threads, u # t PROVE TxnOK(u)'
    BY <1>10, <1>11, <2>2, SameTxnOK
  <2> QED  BY <1>1, <2>1, <2>2 DEF TxnInv
<1>14. \A u \in Threads : Req(u)' = Req(u)
  BY DEF Req
<1>15. ThreadInv'
  <2>1. ASSUME NEW u \in Threads, u # t
        PROVE  (ReservesKnown(u) /\ HeldKnown(u) /\ WrittenKnown(u) /\ NotAhead(u))'
    BY <1>8, <1>10, <2>1, SameThread
  <2>2. ReservesKnown(t) /\ WrittenKnown(t) /\ NotAhead(t)
    BY DEF HInv, ThreadInv
  <2>3. ReservesKnown(t)'
    <3>1. ASSUME NEW q \in Rows PROVE Reserves(t, q)' <=> Reserves(t, q)
      <4>1. query[t][row_cnt[t] + 1] # [row |-> q, type |-> "WR"]
        <5>1. query[t][row_cnt[t] + 1].type = "RD"
          BY <1>2 DEF Req
        <5> QED  BY <5>1
      <4> QED  BY <1>1, <4>1 DEF Reserves
    <3> QED  BY <1>8, <2>2, <3>1 DEF ReservesKnown
  <2>4. HeldKnown(t)'
    BY <1>2, <1>6, <1>7, <1>8, <1>12, <1>14 DEF HeldKnown, Last
  <2>5. WrittenKnown(t)'
    <3> SUFFICES ASSUME NEW i \in 1..row_cnt[t], query[t][i].type = "WR"
                 PROVE  mvcc'[query[t][i].row].data[ReservedBuf(mvcc'[query[t][i].row])] = ts[t]
      BY DEF WrittenKnown, ReservedBuf
    <3>1. query[t][i].row \in Rows
      <4>1. i \in DOMAIN query[t]
        BY <1>1, QueryFacts
      <4> QED  BY <1>1, <4>1, QueryFacts
    <3> QED  BY <1>8, <2>2, <3>1 DEF WrittenKnown
  <2>6. NotAhead(t)'
    <3>1. \A q \in Rows : mvcc[q].latest_wts = ts[t] => ts[t] = 0
      BY <1>1, <2>2 DEF NotAhead
    <3> QED  BY <1>8, <3>1 DEF NotAhead
  <2> QED  BY <2>1, <2>3, <2>4, <2>5, <2>6 DEF ThreadInv
<1>16. \A q \in Rows : \A u \in mvcc[q].requests : u \in Threads /\ pc[u] = "wait" /\ u # t /\ SameTxn(u)
  <2>1. \A q \in Rows : \A u \in mvcc[q].requests : u \in Threads /\ pc[u] = "wait"
    BY <1>1, RowTypes DEF TypeOK, QueueInv, RowQueue
  <2> QED  BY <1>1, <1>10, <2>1
<1>17. RowQueue(r)'
  <2> DEFINE m == mvcc[r]
  <2>1. RowQueue(r)
    BY <1>1 DEF QueueInv
  <2>2. n.prewrite_ts = m.prewrite_ts /\ n.latest_wts = m.latest_wts /\ n.requests = m.requests
    BY <1>7, <1>8
  <2>3. \A u \in m.requests : pc'[u] = "wait" /\ ts'[u] = ts[u] /\ Req(u)' = Req(u) /\ ts[u] \in Nat
    BY <1>1, <1>14, <1>16 DEF SameTxn, TypeOK
  <2>4. m.prewrite_ts \in Nat /\ m.max_served_rts \in Nat /\ ts[t] \in Nat
    BY <1>1, RowTypes DEF TypeOK
  <2>5. \/ n.max_served_rts = m.max_served_rts
        \/ n.max_served_rts = ts[t] /\ ts[t] <= m.prewrite_ts
    BY <1>7
  <2>6. ExistsPrewrite(m) => n.max_served_rts <= m.prewrite_ts
    BY <2>1, <2>4, <2>5 DEF RowQueue
  <2>7. \A u \in m.requests : Req(u).type = "WR" => n.max_served_rts <= ts[u]
    BY <2>1, <2>3, <2>4, <2>5 DEF RowQueue
  <2> QED  BY <1>8, <2>1, <2>2, <2>3, <2>6, <2>7 DEF RowQueue, ExistsPrewrite
<1> QED  BY <1>7, <1>8, <1>9, <1>13, <1>15, <1>16, <1>17, RowStep

LEMMA ReadVersionHInv ==
    ASSUME HInv, NEW t \in Threads, ReadVersion(t)
    PROVE  HInv'
<1> DEFINE m == mvcc[Req(t).row]
<1>1. TypeOK /\ TxnInv /\ RowsGood /\ AtRow(t, "RD") /\ row_cnt[t] < Len(query[t])
  BY DEF HInv, ReadVersion, AtRow
<1>2. Req(t).row \in Rows /\ ts[t] \in Nat
  BY <1>1, ReqFacts, TsBelow
<1>3. PICK b : b = VersionFor(m, ts[t])
  OBVIOUS
<1>4. b \in DOMAIN m.data
  BY <1>1, <1>2, <1>3, VersionForFacts DEF RowsGood
<1>5. Requeued(m, m)
  BY <1>1, <1>2 DEF Requeued, TypeOK
<1>6. mvcc' = [mvcc EXCEPT ![Req(t).row] = m]
  BY <1>1 DEF ReadVersion, TypeOK
<1> QED  BY <1>1, <1>3, <1>4, <1>5, <1>6, GivenHInv DEF ReadVersion

LEMMA ReadLatestHInv ==
    ASSUME HInv, NEW t \in Threads, ReadLatest(t)
    PROVE  HInv'
<1> DEFINE m == mvcc[Req(t).row]
           x == Max({m.max_served_rts, ts[t]})
           n == [m EXCEPT !.max_served_rts = x]
<1>1. AtRow(t, "RD") /\ pc[t] = "access" /\ row_cnt[t] < Len(query[t]) /\ ts[t] <= m.prewrite_ts
  BY DEF ReadLatest, AtRow
<1>2. m \in RowRecord /\ GoodRow(m) /\ ts[t] \in Nat /\ Req(t).row \in Rows
  BY <1>1, NewRow
<1>3. m.latest \in DOMAIN m.data
  BY <1>2, LatestData
<1>4. x \in {m.max_served_rts, ts[t]} /\ x \in Nat
  BY <1>2, RowTypes, MaxOfTwo
<1>5. mvcc' = [mvcc EXCEPT ![Req(t).row] = n]
  BY <1>2 DEF ReadLatest, HInv, TypeOK
<1> HIDE DEF x
<1>6. Requeued(m, n) /\ n.requests = m.requests /\ n.max_served_rts = x
  BY <1>2, <1>4 DEF Requeued, RowRecord
<1>7. PICK p : p = n
  OBVIOUS
<1> HIDE DEF n
<1> QED  BY <1>1, <1>3, <1>4, <1>5, <1>6, <1>7, GivenHInv DEF ReadLatest


\* The workload's use of a buffer: row r becomes n.
Used(t, m, n) ==
    LET b == Last(held[t])
    IN  /\ GoodRow(n) /\ n.hist = m.hist /\ DOMAIN n.data = DOMAIN m.data /\ b \in DOMAIN m.data
        /\ n.latest = m.latest /\ n.latest_wts = m.latest_wts /\ n.oldest_wts = m.oldest_wts
        /\ n.requests = m.requests /\ n.prewrite_ts = m.prewrite_ts
        /\ n.prewrite_id = m.prewrite_id /\ n.max_served_rts = m.max_served_rts
        /\ Valid(n) = Valid(m) /\ ReservedBuf(n) = ReservedBuf(m)
        /\ Req(t).type = "RD" => n.data = m.data
        /\ Req(t).type = "WR" =>
              /\ b = ReservedBuf(m) /\ n.data[b] = ts[t] /\ m.prewrite_ts = ts[t]
              /\ ExistsPrewrite(m) /\ \A x \in DOMAIN m.data : x # b => n.data[x] = m.data[x]

LEMMA UseFacts ==
    ASSUME HInv, NEW t \in Threads, Use(t)
    PROVE  \E n : /\ mvcc' = [mvcc EXCEPT ![Req(t).row] = n] /\ Used(t, mvcc[Req(t).row], n)
                  /\ Req(t).row \in Rows /\ Req(t).type \in {"RD", "WR"}
                  /\ row_cnt[t] + 1 \in DOMAIN query[t]
                  /\ Req(t) = query[t][row_cnt[t] + 1]
                  /\ Req(t) = [row |-> Req(t).row, type |-> Req(t).type]
<1> DEFINE r == Req(t).row
           m == mvcc[r]
           b == Last(held[t])
<1>1. TypeOK /\ TxnInv /\ TxnOK(t) /\ RowsGood /\ HeldKnown(t) /\ pc[t] = "use"
  BY DEF HInv, TxnInv, ThreadInv, Use
<1>2. row_cnt[t] < Len(query[t])
  BY <1>1 DEF TxnOK
<1>3. /\ r \in Rows /\ Req(t).type \in {"RD", "WR"} /\ row_cnt[t] + 1 \in DOMAIN query[t]
      /\ Req(t) = query[t][row_cnt[t] + 1] /\ Req(t) = [row |-> r, type |-> Req(t).type]
  BY <1>1, <1>2, ReqFacts
<1>4. GoodRow(m) /\ m \in RowRecord /\ b \in DOMAIN m.data /\ mvcc \in [Rows -> RowRecord]
  BY <1>1, <1>3 DEF RowsGood, GoodRow, HeldKnown, TypeOK
<1>5. CASE Req(t).type = "RD"
  <2>1. mvcc' = mvcc
    BY <1>5 DEF Use
  <2>2. mvcc' = [mvcc EXCEPT ![r] = m]
    BY <1>4, <2>1
  <2>3. Used(t, m, m)
    BY <1>4, <1>5 DEF Used
  <2> QED  BY <1>3, <2>2, <2>3
<1>6. CASE Req(t).type = "WR"
  <2> DEFINE n == [m EXCEPT !.data[b] = ts[t]]
  <2>1. b = ReservedBuf(m)
    BY <1>1, <1>6 DEF HeldKnown
  <2>2. Reserves(t, r)
    BY <1>1, <1>3, <1>6 DEF Reserves
  <2>3. ExistsPrewrite(m) /\ m.prewrite_ts = ts[t]
    BY <1>3, <2>2, ReserverFacts
  <2>4. ts[t] \in Nat
    BY <1>1 DEF TypeOK
  <2>5. mvcc' = [mvcc EXCEPT ![r].data[b] = ts[t]]
    BY <1>6 DEF Use
  <2>6. mvcc' = [mvcc EXCEPT ![r] = n]
    BY <1>3, <1>4, <2>5
  <2>7. /\ GoodRow(n) /\ n.hist = m.hist /\ DOMAIN n.data = DOMAIN m.data
        /\ b \in DOMAIN m.data /\ n.data[b] = ts[t]
        /\ \A y \in DOMAIN m.data : y # b => n.data[y] = m.data[y]
        /\ n.latest = m.latest /\ n.latest_wts = m.latest_wts
        /\ n.oldest_wts = m.oldest_wts /\ n.requests = m.requests
        /\ n.prewrite_ts = m.prewrite_ts /\ n.prewrite_id = m.prewrite_id
        /\ n.max_served_rts = m.max_served_rts /\ Valid(n) = Valid(m)
    <3> HIDE DEF b
    <3> QED  BY <1>4, <2>1, <2>3, <2>4, WrittenGood
  <2> HIDE DEF n
  <2>8. Used(t, m, n)
    BY <1>6, <2>1, <2>3, <2>7 DEF Used, ReservedBuf
  <2> QED  BY <1>3, <2>6, <2>8
<1> QED  BY <1>3, <1>5, <1>6

LEMMA UseHInv ==
    ASSUME HInv, NEW t \in Threads, Use(t)
    PROVE  HInv'
<1>1. TypeOK /\ TxnInv /\ TxnOK(t) /\ QueueInv /\ ClockInv /\ pc[t] = "use"
  BY DEF HInv, TxnInv, Use
<1>2. PICK n : /\ mvcc' = [mvcc EXCEPT ![Req(t).row] = n] /\ Used(t, mvcc[Req(t).row], n)
               /\ Req(t).row \in Rows /\ Req(t).type \in {"RD", "WR"}
               /\ row_cnt[t] + 1 \in DOMAIN query[t] /\ Req(t) = query[t][row_cnt[t] + 1]
               /\ Req(t) = [row |-> Req(t).row, type |-> Req(t).type]
  BY UseFacts
<1>3. PICK r \in Rows : r = Req(t).row
  BY <1>2
<1> DEFINE m == mvcc[r]
           b == Last(held[t])
<1>4. mvcc' = [mvcc EXCEPT ![r] = n] /\ Used(t, m, n)
  BY <1>2, <1>3
<1>5. GoodRow(n) /\ n \in RowRecord /\ m \in RowRecord /\ b \in DOMAIN m.data /\ DOMAIN n.data = DOMAIN m.data
  BY <1>1, <1>4 DEF Used, GoodRow, TypeOK
<1>6. mvcc' \in [Rows -> RowRecord] /\ mvcc'[r] = n /\ \A q \in Rows : q # r => mvcc'[q] = mvcc[q]
  BY <1>1, <1>4, <1>5 DEF TypeOK
<1>7. /\ n.latest_wts = m.latest_wts /\ n.requests = m.requests /\ n.prewrite_ts = m.prewrite_ts
      /\ n.max_served_rts = m.max_served_rts /\ ReservedBuf(n) = ReservedBuf(m)
  BY <1>4 DEF Used
<1>8. m.data[b] \in Nat
  BY <1>5, RowTypes
<1>9. /\ seen' = [seen EXCEPT ![t] = Append(@, m.data[b])] /\ row_cnt' = [row_cnt EXCEPT ![t] = @ + 1]
      /\ pc' = [pc EXCEPT ![t] = "access"]
  BY <1>3 DEF Use, Goto
<1>10. /\ row_cnt[t] \in Nat /\ Len(query[t]) \in Nat /\ DOMAIN query[t] = 1..Len(query[t])
       /\ row_cnt[t] < Len(query[t])
  BY <1>1, QueryFacts DEF TxnOK
<1>11. TypeOK'
  <2>1. seen' \in [Threads -> Seq(Nat)]
    BY <1>1, <1>8, <1>9 DEF TypeOK
  <2>2. row_cnt' \in [Threads -> Nat]
    BY <1>1, <1>9, <1>10 DEF TypeOK
  <2> QED  BY <1>1, <1>6, <1>9, <2>1, <2>2 DEF TypeOK, Use
<1>12. /\ pc'[t] = "access" /\ row_cnt'[t] = row_cnt[t] + 1 /\ Len(seen'[t]) = Len(seen[t]) + 1
       /\ query' = query /\ ts' = ts /\ held' = held /\ timestamp' = timestamp /\ setup' = setup
       /\ \A u \in Threads : u # t => SameTxn(u)
  BY <1>1, <1>8, <1>9 DEF TypeOK, Use, SameTxn
<1>13. timestamp \in Nat /\ timestamp <= timestamp
  BY <1>1, MvccAssumption DEF TypeOK
<1>14. TxnInv'
  <2>1. TxnOK(t)'
    BY <1>1, <1>10, <1>12 DEF TxnOK
  <2>2. ASSUME NEW u \in Threads, u # t PROVE TxnOK(u)'
    BY <1>12, <1>13, <2>2, SameTxnOK
  <2> QED  BY <1>1, <1>12, <2>1, <2>2 DEF TxnInv
<1>15. ThreadInv'
  <2>1. ASSUME NEW u \in Threads, u # t
        PROVE  (ReservesKnown(u) /\ HeldKnown(u) /\ WrittenKnown(u) /\ NotAhead(u))'
    <3>1. m.prewrite_ts = ts[u] => n.data[ReservedBuf(m)] = m.data[ReservedBuf(m)]
      <4>1. CASE Req(t).type = "RD"
        BY <1>4, <4>1 DEF Used
      <4>2. CASE Req(t).type = "WR"
        <5>1. Reserves(t, r)
          BY <1>1, <1>2, <1>3, <4>2 DEF Reserves
        <5>2. m.prewrite_ts = ts[t] /\ ts[u] # ts[t]
          BY <2>1, <5>1, ReserverFacts
        <5> QED  BY <5>2
      <4> QED  BY <1>2, <4>1, <4>2
    <3>2. Kept(m, n, ts[u])
      BY <1>5, <1>7, <3>1 DEF Kept
    <3>3. RowsKept(u)
      BY <1>6, <3>2 DEF RowsKept, Kept
    <3> QED  BY <1>12, <2>1, <3>3, SameThread
  <2>2. ReservesKnown(t) /\ WrittenKnown(t) /\ NotAhead(t)
    BY DEF HInv, ThreadInv
  <2>3. \A q \in Rows : /\ mvcc'[q].prewrite_ts = mvcc[q].prewrite_ts
                        /\ mvcc'[q].latest_wts = mvcc[q].latest_wts
    BY <1>6, <1>7
  <2>4. ReservesKnown(t)'
    <3>1. ASSUME NEW q \in Rows PROVE Reserves(t, q)' <=> Reserves(t, q)
      <4>1. \A i \in DOMAIN query[t] : i <= row_cnt[t] + 1 <=> i <= row_cnt[t] \/ i = row_cnt[t] + 1
        BY <1>10
      <4> QED  BY <1>1, <1>12, <4>1 DEF Reserves
    <3> QED  BY <1>12, <2>2, <2>3, <3>1 DEF ReservesKnown
  <2>5. HeldKnown(t)'
    BY <1>12 DEF HeldKnown
  <2>6. WrittenKnown(t)'
    <3> SUFFICES ASSUME NEW i \in 1..(row_cnt[t] + 1), query[t][i].type = "WR"
                 PROVE  mvcc'[query[t][i].row].data[ReservedBuf(mvcc'[query[t][i].row])] = ts[t]
      BY <1>12 DEF WrittenKnown, ReservedBuf
    <3>1. CASE i = row_cnt[t] + 1
      <4>1. query[t][i].row = r /\ Req(t).type = "WR"
        BY <1>2, <1>3, <3>1
      <4> QED  BY <1>4, <1>6, <1>7, <4>1 DEF Used
    <3>2. CASE i # row_cnt[t] + 1
      <4>1. i \in 1..row_cnt[t] /\ i \in DOMAIN query[t]
        BY <1>10, <3>2
      <4>2. query[t][i].row \in Rows /\ query[t][i].row # r
        <5>1. /\ query[t][i].row \in Rows
              /\ \A j \in DOMAIN query[t] : query[t][i].row = query[t][j].row => i = j
          BY <1>1, <4>1, QueryFacts
        <5>2. row_cnt[t] + 1 \in DOMAIN query[t] /\ query[t][row_cnt[t] + 1].row = r
          BY <1>2, <1>3
        <5> QED  BY <3>2, <5>1, <5>2
      <4> QED  BY <1>6, <2>2, <4>1, <4>2 DEF WrittenKnown
    <3> QED  BY <3>1, <3>2
  <2>7. NotAhead(t)'
    <3>1. \A q \in Rows : mvcc[q].latest_wts = ts[t] => ts[t] = 0
      BY <1>1, <2>2 DEF NotAhead
    <3> QED  BY <1>12, <2>3, <3>1 DEF NotAhead
  <2> QED  BY <2>1, <2>4, <2>5, <2>6, <2>7 DEF ThreadInv
<1>16. \A q \in Rows : \A u \in mvcc[q].requests : u \in Threads /\ pc[u] = "wait" /\ u # t /\ SameTxn(u)
  <2>1. \A q \in Rows : \A u \in mvcc[q].requests : u \in Threads /\ pc[u] = "wait"
    BY <1>1, RowTypes DEF TypeOK, QueueInv, RowQueue
  <2> QED  BY <1>1, <1>12, <2>1
<1>17. RowQueue(r)'
  <2>1. RowQueue(r)
    BY <1>1 DEF QueueInv
  <2>2. \A u \in m.requests : pc'[u] = "wait" /\ ts'[u] = ts[u] /\ Req(u)' = Req(u)
    BY <1>16 DEF SameTxn, Req
  <2> QED  BY <1>6, <1>7, <2>1, <2>2 DEF RowQueue, ExistsPrewrite
<1>18. RowClock(n)
  BY <1>1, <1>7 DEF ClockInv, RowClock, ExistsPrewrite
<1> QED  BY <1>4, <1>5, <1>11, <1>12, <1>14, <1>15, <1>16, <1>17, <1>18, RowStep

\* t reserves a version of r, which becomes n.
Prewritten(t, r, n) ==
    /\ mvcc' = [mvcc EXCEPT ![r] = n] /\ ReservedOf(mvcc[r], n, ts[t]) /\ Give({t}, ReservedBuf(n))
    /\ lost' = [u \in Threads |-> lost[u] \/ u \in Overwritten(r, ReservedBuf(n))]
    /\ mvcc[r].latest_wts < ts[t] /\ mvcc[r].max_served_rts <= ts[t]
    /\ ~ ExistsPrewrite(mvcc[r]) /\ min_ts' \in Nat

LEMMA PrewriteFacts ==
    ASSUME HInv, NEW t \in Threads, Prewrite(t)
    PROVE  \E n : Prewritten(t, Req(t).row, n)
<1> DEFINE r == Req(t).row
           m == mvcc[r]
           n == Reserved(m, ts[t], min_ts')
<1>1. pc[t] = "access" /\ row_cnt[t] < Len(query[t]) /\ TypeOK
  BY DEF Prewrite, AtRow, HInv
<1>2. /\ GoodRow(m) /\ m \in RowRecord /\ m.latest_wts # ts[t] /\ ts[t] \in Nat /\ ts[t] < NoTs
  BY <1>1, NewRow
<1>3. min_ts' \in Nat
  BY <1>1, MinTsNat DEF Prewrite
<1>4. ~ TooLate(m, ts[t]) /\ ~ ExistsPrewrite(m)
  BY DEF Prewrite
<1>5. m.latest_wts < ts[t] /\ m.max_served_rts <= ts[t]
  BY <1>2, <1>4, RowTypes DEF TooLate
<1>6. ts[t] # NoTs
  BY <1>2, MvccAssumption
<1>7. ReservedOf(m, n, ts[t])
  BY <1>2, <1>3, <1>4, <1>5, <1>6, ReservedGood
<1>8. /\ mvcc' = [mvcc EXCEPT ![r] = n] /\ Give({t}, ReservedBuf(n))
      /\ lost' = [u \in Threads |-> lost[u] \/ u \in Overwritten(r, ReservedBuf(n))]
  BY DEF Prewrite
<1> HIDE DEF n
<1> QED  BY <1>3, <1>4, <1>5, <1>7, <1>8 DEF Prewritten


LEMMA PrewriteHInv ==
    ASSUME HInv, NEW t \in Threads, Prewrite(t)
    PROVE  HInv'
<1>1. /\ TypeOK /\ TxnInv /\ TxnOK(t) /\ QueueInv /\ ClockInv /\ pc[t] = "access"
      /\ row_cnt[t] < Len(query[t]) /\ Req(t).type = "WR"
  BY DEF HInv, TxnInv, Prewrite, AtRow
<1>2. PICK n : /\ mvcc' = [mvcc EXCEPT ![Req(t).row] = n]
               /\ ReservedOf(mvcc[Req(t).row], n, ts[t])
               /\ Give({t}, ReservedBuf(n))
               /\ lost' = [u \in Threads |->
                             lost[u] \/ u \in Overwritten(Req(t).row, ReservedBuf(n))]
               /\ mvcc[Req(t).row].latest_wts < ts[t] /\ mvcc[Req(t).row].max_served_rts <= ts[t]
               /\ ~ ExistsPrewrite(mvcc[Req(t).row]) /\ min_ts' \in Nat
  BY PrewriteFacts DEF Prewritten
<1>3. PICK r \in Rows : r = Req(t).row
  BY <1>1, NewRow
<1> DEFINE m == mvcc[r]
           b == ReservedBuf(n)
<1>4. /\ mvcc' = [mvcc EXCEPT ![r] = n] /\ ReservedOf(m, n, ts[t]) /\ ~ ExistsPrewrite(m)
      /\ m.max_served_rts <= ts[t]
  BY <1>2, <1>3
<1>5. /\ m \in RowRecord /\ m.prewrite_ts # ts[t] /\ m.latest_wts # ts[t]
      /\ ts[t] \in Nat /\ ts[t] > 0 /\ ts[t] < timestamp /\ ts[t] < NoTs
      /\ \A i \in 1..row_cnt[t] : query[t][i].row # r
  BY <1>1, <1>3, NewRow
<1>6. /\ GoodRow(n) /\ n \in RowRecord /\ Keeps(m, n) /\ ExistsPrewrite(n) /\ n.prewrite_ts = ts[t]
      /\ b \in DOMAIN n.data /\ DOMAIN m.data \subseteq DOMAIN n.data
  BY <1>4 DEF ReservedOf, GoodRow
<1>7. mvcc' \in [Rows -> RowRecord] /\ mvcc'[r] = n /\ \A q \in Rows : q # r => mvcc'[q] = mvcc[q]
  BY <1>1, <1>4, <1>6 DEF TypeOK
<1>8. b \in Nat
  <2>1. DOMAIN n.data \subseteq Nat
    BY <1>6, RowTypes
  <2> QED  BY <1>6, <2>1
<1>9. held \in [Threads -> Seq(Nat)] /\ held[t] \in Seq(Nat) /\ Append(held[t], b) \in Seq(Nat)
  BY <1>1, <1>8 DEF TypeOK
<1>10. held' \in [Threads -> Seq(Nat)] /\ held'[t] = Append(held[t], b)
       /\ \A u \in Threads : u # t => held'[u] = held[u]
  BY <1>2, <1>9 DEF Give
<1>11. Len(held'[t]) = Len(held[t]) + 1 /\ held'[t][Len(held'[t])] = b
  BY <1>8, <1>9, <1>10
<1>12. pc' = [pc EXCEPT ![t] = "use"] /\ pc'[t] = "use" /\ \A u \in Threads : u # t => pc'[u] = pc[u]
  BY <1>1 DEF Prewrite, Goto, TypeOK
<1>13. /\ query' = query /\ ts' = ts /\ row_cnt' = row_cnt /\ seen' = seen /\ timestamp' = timestamp
       /\ setup' = setup /\ starts' = starts /\ all_ts' = all_ts
  BY DEF Prewrite
<1>14. lost' \in [Threads -> BOOLEAN]
  BY <1>1, <1>2 DEF TypeOK
<1>15. TypeOK'
  BY <1>1, <1>2, <1>7, <1>10, <1>12, <1>13, <1>14 DEF TypeOK
<1>16. \A u \in Threads : u # t => SameTxn(u)
  BY <1>10, <1>12, <1>13 DEF SameTxn
<1>17. timestamp \in Nat /\ timestamp <= timestamp
  BY <1>1, MvccAssumption DEF TypeOK
<1>18. TxnInv'
  <2>1. TxnOK(t)'
    BY <1>1, <1>11, <1>12, <1>13 DEF TxnOK
  <2>2. ASSUME NEW u \in Threads, u # t PROVE TxnOK(u)'
    BY <1>13, <1>16, <1>17, <2>2, SameTxnOK
  <2> QED  BY <1>1, <1>13, <2>1, <2>2 DEF TxnInv
<1>19. n.latest_wts = m.latest_wts /\ n.max_served_rts = m.max_served_rts /\ n.requests = m.requests
  BY <1>6 DEF Keeps
<1>20. ThreadInv'
  <2>1. ASSUME NEW u \in Threads, u # t
        PROVE  (ReservesKnown(u) /\ HeldKnown(u) /\ WrittenKnown(u) /\ NotAhead(u))'
    <3>1. ts[u] # ts[t]
      BY <1>1, <1>5, <2>1 DEF TxnInv
    <3>2. m.prewrite_ts = NoTs /\ ts[u] # NoTs
      <4>1. ts[u] < NoTs /\ ts[u] \in Nat
        BY <1>1, TsBelow
      <4> QED  BY <1>4, <4>1, MvccAssumption DEF ExistsPrewrite
    <3>3. Kept(m, n, ts[u])
      BY <1>6, <1>19, <3>1, <3>2 DEF Kept
    <3>4. RowsKept(u)
      BY <1>7, <3>3 DEF RowsKept, Kept
    <3> QED  BY <1>16, <2>1, <3>4, SameThread
  <2>2. ReservesKnown(t) /\ WrittenKnown(t) /\ NotAhead(t)
    BY DEF HInv, ThreadInv
  <2>3. row_cnt[t] + 1 \in DOMAIN query[t] /\ query[t][row_cnt[t] + 1] = [row |-> r, type |-> "WR"]
    BY <1>1, <1>3, ReqFacts
  <2>4. ReservesKnown(t)'
    <3>1. ASSUME NEW q \in Rows PROVE Reserves(t, q)' <=> mvcc'[q].prewrite_ts = ts[t]
      <4>1. CASE q = r
        <5>1. Reserves(t, q)'
          BY <1>12, <1>13, <2>3, <4>1 DEF Reserves
        <5> QED  BY <1>6, <1>7, <4>1, <5>1
      <4>2. CASE q # r
        <5>1. query[t][row_cnt[t] + 1] # [row |-> q, type |-> "WR"]
          BY <2>3, <4>2
        <5>2. Reserves(t, q)' <=> Reserves(t, q)
          BY <1>1, <1>13, <5>1 DEF Reserves
        <5> QED  BY <1>7, <2>2, <4>2, <5>2 DEF ReservesKnown
      <4> QED  BY <4>1, <4>2
    <3> QED  BY <1>13, <3>1 DEF ReservesKnown
  <2>5. HeldKnown(t)'
    <3>1. Req(t)' = Req(t)
      BY <1>13 DEF Req
    <3> QED  BY <1>3, <1>6, <1>7, <1>11, <3>1 DEF HeldKnown, Last
  <2>6. WrittenKnown(t)'
    <3> SUFFICES ASSUME NEW i \in 1..row_cnt[t], query[t][i].type = "WR"
                 PROVE  mvcc'[query[t][i].row].data[ReservedBuf(mvcc'[query[t][i].row])] = ts[t]
      BY <1>13 DEF WrittenKnown, ReservedBuf
    <3>1. query[t][i].row \in Rows
      <4>1. i \in DOMAIN query[t]
        BY <1>1, QueryFacts
      <4> QED  BY <1>1, <4>1, QueryFacts
    <3>2. mvcc'[query[t][i].row] = mvcc[query[t][i].row]
      BY <1>5, <1>7, <3>1
    <3> QED  BY <2>2, <3>2 DEF WrittenKnown
  <2>7. NotAhead(t)'
    <3>1. \A q \in Rows : mvcc[q].latest_wts # ts[t]
      BY <1>1, <1>5, <2>2 DEF NotAhead
    <3>2. \A q \in Rows : mvcc'[q].latest_wts # ts[t]
      BY <1>7, <1>19, <3>1
    <3> QED  BY <1>13, <3>2 DEF NotAhead
  <2> QED  BY <2>1, <2>4, <2>5, <2>6, <2>7 DEF ThreadInv
<1>21. \A q \in Rows : \A u \in mvcc[q].requests : u \in Threads /\ pc[u] = "wait" /\ u # t /\ SameTxn(u)
  <2>1. \A q \in Rows : \A u \in mvcc[q].requests : u \in Threads /\ pc[u] = "wait"
    BY <1>1, RowTypes DEF TypeOK, QueueInv, RowQueue
  <2> QED  BY <1>1, <1>16, <2>1
<1>22. RowQueue(r)'
  <2>1. m.requests = {}
    BY <1>1, <1>4 DEF QueueInv, RowQueue
  <2> QED  BY <1>4, <1>6, <1>7, <1>19, <2>1 DEF RowQueue
<1>23. RowClock(n)
  BY <1>1, <1>5, <1>6, <1>19 DEF ClockInv, RowClock
<1> QED  BY <1>4, <1>6, <1>13, <1>15, <1>18, <1>20, <1>21, <1>22, <1>23, RowStep


\* t ends its reservation on r, the row of its request i: the row becomes m0, and n
\* when those that waited have been let go.
Returned(t, i, r, m0, n) ==
    LET m == mvcc[r]
        R == ReadsLetGo(m0)
        P == PrewriteLetGo(m0)
    IN  /\ pc[t] \in {"commit", "abort"}
        /\ i \in 1..row_cnt[t] /\ i \in DOMAIN query[t] /\ query[t][i] = [row |-> r, type |-> "WR"]
        /\ \A j \in 1..row_cnt[t] : query[t][j].type = "WR" => j <= i
        /\ m.prewrite_ts = ts[t] /\ ExistsPrewrite(m)
        /\ GoodRow(m) /\ Ended(m, m0) /\ QueueApart(m0) /\ HandedOver(m0, n)
        /\ pc[t] = "commit" => /\ m0.latest_wts = ts[t] /\ m0.hist[m.prewrite_id].ts = ts[t]
                               /\ Valid(m0) = Valid(m) \cup {m.prewrite_id}
        /\ pc[t] = "abort" => m0.latest_wts = m.latest_wts /\ Valid(m0) = Valid(m)
        /\ mvcc' = [mvcc EXCEPT ![r] = n] /\ row_cnt' = [row_cnt EXCEPT ![t] = i - 1]
        /\ held' = [u \in Threads |->
                      IF u \in R THEN Append(held[u], m0.latest)
                      ELSE IF u \in P THEN Append(held[u], ReservedBuf(n)) ELSE held[u]]
        /\ pc' = [u \in Threads |-> IF u \in R \cup P THEN "use" ELSE pc[u]]
        /\ lost' = [u \in Threads |->
                      lost[u] \/ (P # {} /\ u \in Overwritten(r, ReservedBuf(n)))]
        /\ min_ts' \in Nat
        /\ UNCHANGED <<setup, timestamp, all_ts, query, ts, seen, starts, committed>>

LEMMA ReturnFacts ==
    ASSUME HInv, NEW t \in Threads, ReturnRow(t)
    PROVE  \E i, m0, n : \E r \in Rows : Returned(t, i, r, m0, n)
<1>1. /\ TypeOK /\ TxnInv /\ RowsGood /\ QueueInv /\ pc[t] \in {"commit", "abort"}
      /\ WrittenKnown(t)
  BY DEF HInv, ReturnRow, ThreadInv
<1>2. PICK S : S = ToReturn(t)
  OBVIOUS
<1>3. /\ row_cnt[t] \in Nat /\ Len(query[t]) \in Nat /\ DOMAIN query[t] = 1..Len(query[t])
      /\ row_cnt[t] <= Len(query[t])
  BY <1>1, QueryFacts
<1>4. S \in SUBSET Nat /\ S # {} /\ \A x \in S : x <= row_cnt[t]
  <2>1. S # {}
    BY <1>2 DEF ReturnRow
  <2>2. S \subseteq 1..row_cnt[t]
    BY <1>2 DEF ToReturn
  <2>3. \A x \in 1..row_cnt[t] : x \in Nat /\ x <= row_cnt[t]
    BY <1>3
  <2> QED  BY <2>1, <2>2, <2>3
<1>5. Max(S) \in S /\ \A x \in S : x <= Max(S)
  BY <1>3, <1>4, MaxFacts
<1>6. PICK i : i = Max(S)
  OBVIOUS
<1>7. /\ i \in 1..row_cnt[t] /\ query[t][i].type = "WR"
      /\ \A j \in 1..row_cnt[t] : query[t][j].type = "WR" => j <= i
  BY <1>2, <1>5, <1>6 DEF ToReturn
<1>8. i \in DOMAIN query[t] /\ i <= row_cnt[t]
  BY <1>3, <1>7
<1>9. PICK r : r = query[t][i].row
  OBVIOUS
<1>10. r \in Rows /\ query[t][i] = [row |-> r, type |-> "WR"]
  BY <1>1, <1>7, <1>8, <1>9, QueryFacts
<1> DEFINE m == mvcc[r]
<1>11. Reserves(t, r)
  BY <1>8, <1>10 DEF Reserves
<1>12. m.prewrite_ts = ts[t] /\ ExistsPrewrite(m) /\ ts[t] > 0
  BY <1>10, <1>11, ReserverFacts
<1>13. GoodRow(m) /\ m \in RowRecord /\ ts[t] \in Nat
  BY <1>1, <1>10 DEF RowsGood, GoodRow, TypeOK
<1>14. m.data[ReservedBuf(m)] = ts[t]
  BY <1>1, <1>7, <1>9 DEF WrittenKnown
<1>15. PICK m0 : m0 = IF pc[t] = "commit" THEN Installed(m, ts[t]) ELSE Dropped(m)
  OBVIOUS
<1>16. /\ Ended(m, m0)
       /\ pc[t] = "commit" => /\ m0.latest_wts = ts[t] /\ m0.hist[m.prewrite_id].ts = ts[t]
                              /\ Valid(m0) = Valid(m) \cup {m.prewrite_id}
       /\ pc[t] = "abort" => m0.latest_wts = m.latest_wts /\ Valid(m0) = Valid(m)
  <2>1. CASE pc[t] = "commit"
    <3>1. m0 = Installed(m, ts[t])
      BY <1>15, <2>1
    <3> HIDE DEF m
    <3> QED  BY <1>12, <1>13, <1>14, <2>1, <3>1, InstalledGood
  <2>2. CASE pc[t] # "commit"
    <3>1. m0 = Dropped(m)
      BY <1>15, <2>2
    <3> HIDE DEF m
    <3> QED  BY <1>12, <1>13, <2>2, <3>1, DroppedGood
  <2> QED  BY <2>1, <2>2
<1>17. QueueApart(m0)
  <2>1. m0.requests = m.requests
    BY <1>16 DEF Ended
  <2>2. RowQueue(r)
    BY <1>1, <1>10 DEF QueueInv
  <2>3. ASSUME NEW u \in m.requests
        PROVE  /\ u \in Threads /\ ts[u] \in Nat /\ m0.latest_wts < ts[u] /\ ts[u] < NoTs
               /\ Req(u).type \in {"RD", "WR"} /\ ts[u] > 0
    <3>1. u \in Threads /\ pc[u] = "wait"
      BY <1>13, <2>2, RowTypes DEF RowQueue
    <3>2. row_cnt[u] < Len(query[u]) /\ ts[u] > 0
      BY <1>1, <3>1 DEF TxnInv, TxnOK
    <3>3. Req(u).type \in {"RD", "WR"} /\ ts[u] \in Nat /\ ts[u] < NoTs
      BY <1>1, <3>1, <3>2, ReqFacts, TsBelow
    <3>4. m0.latest_wts < ts[u]
      BY <1>1, <1>12, <1>16, <2>2 DEF RowQueue
    <3> QED  BY <3>1, <3>2, <3>3, <3>4
  <2>4. ASSUME NEW u \in m.requests, NEW v \in m.requests, ts[u] = ts[v] PROVE u = v
    <3>1. u \in Threads /\ v \in Threads /\ ts[u] \in Nat /\ ts[u] > 0
      BY <2>3
    <3> QED  BY <1>1, <2>4, <3>1 DEF TxnInv
  <2> QED  BY <2>1, <2>3, <2>4 DEF QueueApart
<1>18. Return(t, r, m0) /\ row_cnt' = [row_cnt EXCEPT ![t] = i - 1]
  BY <1>2, <1>6, <1>9, <1>15 DEF ReturnRow
<1>19. UNCHANGED <<setup, timestamp, all_ts, query, ts, seen, starts, committed>>
  BY DEF ReturnRow
<1>20. min_ts' \in Nat
  <2>1. CASE PrewriteLetGo(m0) = {}
    BY <1>1, <1>18, <2>1 DEF Return, TypeOK
  <2>2. CASE PrewriteLetGo(m0) # {}
    <3>1. min_ts' \in MinTs(t)
      BY <1>18, <2>2 DEF Return
    <3> QED  BY <1>1, <3>1, MinTsNat
  <2> QED  BY <2>1, <2>2
<1>21. PICK n : n = Updated(m0, min_ts')
  OBVIOUS
<1>22. HandedOver(m0, n)
  BY <1>16, <1>17, <1>20, <1>21, UpdatedGood DEF Ended
<1>23. /\ mvcc' = [mvcc EXCEPT ![r] = n]
       /\ held' = [u \in Threads |->
                      IF u \in ReadsLetGo(m0) THEN Append(held[u], m0.latest)
                      ELSE IF u \in PrewriteLetGo(m0) THEN Append(held[u], ReservedBuf(n)) ELSE held[u]]
       /\ pc' = [u \in Threads |-> IF u \in ReadsLetGo(m0) \cup PrewriteLetGo(m0) THEN "use" ELSE pc[u]]
       /\ lost' = [u \in Threads |->
                      lost[u] \/ (PrewriteLetGo(m0) # {} /\ u \in Overwritten(r, ReservedBuf(n)))]
  BY <1>18, <1>21 DEF Return
<1>24. Returned(t, i, r, m0, n)
  BY <1>1, <1>7, <1>8, <1>10, <1>12, <1>13, <1>16, <1>17, <1>18, <1>19, <1>20, <1>22, <1>23
     DEF Returned
<1> QED  BY <1>10, <1>24

\* Those that a return lets go waited for the row, and are given a buffer of it.
LetGo(t, r, m0, n) ==
    LET R == ReadsLetGo(m0)
        P == PrewriteLetGo(m0)
    IN  /\ \A u \in R \cup P :
              /\ u \in Threads /\ pc[u] = "wait" /\ u # t /\ Req(u).row = r
              /\ row_cnt[u] < Len(query[u]) /\ ts[u] \in Nat /\ ts[u] > 0
              /\ n.latest_wts < ts[u] /\ ts[u] # ts[t]
        /\ \A u \in R : Req(u).type = "RD" /\ held'[u] = Append(held[u], m0.latest)
        /\ \A u \in P : Req(u).type = "WR" /\ held'[u] = Append(held[u], ReservedBuf(n))
        /\ \A u \in R \cup P : pc'[u] = "use"
        /\ m0.latest \in DOMAIN n.data /\ n.latest_wts = m0.latest_wts
        /\ \A u \in P : ts[u] = n.prewrite_ts /\ ReservedBuf(n) \in DOMAIN n.data
        /\ \A u \in R : ts[u] # n.prewrite_ts /\ ts[u] <= n.max_served_rts
        /\ \A u \in Threads : u \notin R \cup P /\ u # t => SameTxn(u) /\ ts[u] # n.prewrite_ts
        /\ ts[t] # n.prewrite_ts
        /\ n \in RowRecord /\ m0 \in RowRecord

LEMMA LetGoThreads ==
    ASSUME HInv, NEW t \in Threads, NEW i, NEW r \in Rows, NEW m0, NEW n, Returned(t, i, r, m0, n)
    PROVE  LetGo(t, r, m0, n)
<1> DEFINE R == ReadsLetGo(m0)
           P == PrewriteLetGo(m0)
           m == mvcc[r]
<1>1. /\ TypeOK /\ TxnInv /\ RowQueue(r)
  BY DEF HInv, QueueInv
<1>2. /\ Ended(m, m0) /\ QueueApart(m0) /\ HandedOver(m0, n) /\ GoodRow(m0) /\ m0 \in RowRecord
      /\ GoodRow(n) /\ n \in RowRecord /\ pc[t] \in {"commit", "abort"} /\ m.prewrite_ts = ts[t]
      /\ m \in RowRecord /\ m0.requests = m.requests
  BY DEF Returned, Ended, GoodRow, HandedOver
<1>3. /\ \A u \in R : u \in m0.requests /\ Req(u).type = "RD" /\ ts[u] < NextPrewrite(m0)
      /\ \A u \in P : u \in m0.requests /\ Req(u).type = "WR" /\ ts[u] = NextPrewrite(m0)
      /\ NextPrewrite(m0) \in Nat
  BY <1>2, LetGoFacts
<1>4. n.latest_wts = m0.latest_wts /\ DOMAIN m0.data \subseteq DOMAIN n.data
  BY <1>2 DEF HandedOver, Ages
<1>5. ASSUME NEW u \in R \cup P
      PROVE  /\ u \in Threads /\ pc[u] = "wait" /\ u # t /\ Req(u).row = r
             /\ row_cnt[u] < Len(query[u]) /\ ts[u] \in Nat /\ ts[u] > 0
             /\ n.latest_wts < ts[u] /\ ts[u] # ts[t]
  <2>1. u \in m.requests
    BY <1>2, <1>3
  <2>2. u \in Threads /\ pc[u] = "wait" /\ Req(u).row = r /\ m.prewrite_ts < ts[u]
    BY <1>1, <1>2, <2>1, RowTypes DEF RowQueue
  <2>3. row_cnt[u] < Len(query[u]) /\ ts[u] > 0 /\ ts[u] \in Nat
    BY <1>1, <2>2 DEF TxnInv, TxnOK, TypeOK
  <2>4. m0.latest_wts < ts[u]
    BY <1>2, <2>1 DEF QueueApart
  <2> QED  BY <1>2, <1>4, <2>2, <2>3, <2>4, RowTypes
<1>6. /\ held' = [u \in Threads |->
                      IF u \in R THEN Append(held[u], m0.latest)
                      ELSE IF u \in P THEN Append(held[u], ReservedBuf(n)) ELSE held[u]]
      /\ pc' = [u \in Threads |-> IF u \in R \cup P THEN "use" ELSE pc[u]]
      /\ row_cnt' = [row_cnt EXCEPT ![t] = i - 1]
      /\ query' = query /\ ts' = ts /\ seen' = seen
  BY DEF Returned
<1>7. m0.latest \in DOMAIN n.data
  BY <1>2, <1>4, LatestData
<1>8. P # {} => n.prewrite_ts = NextPrewrite(m0) /\ ReservedBuf(n) \in DOMAIN n.data
  BY <1>2 DEF HandedOver
<1>9. P = {} => n.prewrite_ts = NoTs
  BY <1>2 DEF HandedOver, ExistsPrewrite
<1>10. \A u \in Threads : ts[u] \in Nat /\ ts[u] # NoTs
  BY <1>1, TsBelow, MvccAssumption
<1>11. \A u \in R : ts[u] # n.prewrite_ts /\ ts[u] <= n.max_served_rts
  <2>1. \A u \in R : ts[u] <= n.max_served_rts
    BY <1>2 DEF HandedOver
  <2> QED  BY <1>3, <1>5, <1>8, <1>9, <1>10, <2>1
<1>12. ASSUME NEW u \in Threads, u \notin P PROVE ts[u] # n.prewrite_ts
  <2>1. CASE P = {}
    BY <1>9, <1>10, <2>1
  <2>2. CASE P # {}
    <3>1. PICK p \in P : TRUE
      BY <2>2
    <3>2. p \in Threads /\ ts[p] > 0 /\ ts[p] \in Nat /\ ts[p] = n.prewrite_ts /\ p # u
      BY <1>3, <1>5, <1>8, <1>12, <3>1
    <3> QED  BY <1>1, <3>2 DEF TxnInv
  <2> QED  BY <2>1, <2>2
<1>13. \A u \in R \cup P : pc'[u] = "use"
  BY <1>5, <1>6
<1>14. /\ \A u \in R : held'[u] = Append(held[u], m0.latest)
       /\ \A u \in P : held'[u] = Append(held[u], ReservedBuf(n))
  <2>1. \A u \in P : u \notin R
    BY <1>3
  <2> QED  BY <1>5, <1>6, <2>1
<1>15. \A u \in Threads : u \notin R \cup P /\ u # t => SameTxn(u)
  <2>1. row_cnt \in [Threads -> Nat]
    BY <1>1 DEF TypeOK
  <2> QED  BY <1>6, <2>1 DEF SameTxn
<1>16. t \notin P
  BY <1>5
<1> HIDE DEF R, P
<1>17. \A u \in P : ts[u] = n.prewrite_ts /\ ReservedBuf(n) \in DOMAIN n.data
  BY <1>3, <1>8
<1> QED  BY <1>2, <1>3, <1>4, <1>5, <1>7, <1>11, <1>12, <1>13, <1>14, <1>15, <1>16, <1>17
       DEF R, P, LetGo


LEMMA ReturnRowHInv ==
    ASSUME HInv, NEW t \in Threads, ReturnRow(t)
    PROVE  HInv'
<1>1. PICK i, m0, n : \E r \in Rows : Returned(t, i, r, m0, n)
  BY ReturnFacts
<1>2. PICK r \in Rows : Returned(t, i, r, m0, n)
  BY <1>1
<1> DEFINE m == mvcc[r]
           R == ReadsLetGo(m0)
           P == PrewriteLetGo(m0)
<1>3. TypeOK /\ TxnInv /\ TxnOK(t) /\ QueueInv /\ RowQueue(r) /\ ClockInv
  BY DEF HInv, TxnInv, QueueInv
<1>4. /\ pc[t] \in {"commit", "abort"} /\ i \in 1..row_cnt[t] /\ i \in DOMAIN query[t]
      /\ query[t][i] = [row |-> r, type |-> "WR"]
      /\ \A j \in 1..row_cnt[t] : query[t][j].type = "WR" => j <= i
      /\ m.prewrite_ts = ts[t] /\ ExistsPrewrite(m) /\ Ended(m, m0) /\ QueueApart(m0) /\ HandedOver(m0, n)
      /\ pc[t] = "commit" => m0.latest_wts = ts[t]
      /\ pc[t] = "abort" => m0.latest_wts = m.latest_wts
      /\ mvcc' = [mvcc EXCEPT ![r] = n] /\ row_cnt' = [row_cnt EXCEPT ![t] = i - 1]
      /\ held' = [u \in Threads |->
                    IF u \in R THEN Append(held[u], m0.latest)
                    ELSE IF u \in P THEN Append(held[u], ReservedBuf(n)) ELSE held[u]]
      /\ pc' = [u \in Threads |-> IF u \in R \cup P THEN "use" ELSE pc[u]]
      /\ lost' = [u \in Threads |->
                    lost[u] \/ (P # {} /\ u \in Overwritten(r, ReservedBuf(n)))]
      /\ min_ts' \in Nat
      /\ setup' = setup /\ timestamp' = timestamp /\ all_ts' = all_ts /\ query' = query /\ ts' = ts
      /\ seen' = seen /\ starts' = starts
  BY <1>2 DEF Returned
<1>5. /\ \A u \in R \cup P :
            /\ u \in Threads /\ pc[u] = "wait" /\ u # t /\ Req(u).row = r
            /\ row_cnt[u] < Len(query[u]) /\ ts[u] \in Nat /\ ts[u] > 0
            /\ n.latest_wts < ts[u] /\ ts[u] # ts[t]
      /\ \A u \in R : Req(u).type = "RD" /\ held'[u] = Append(held[u], m0.latest)
      /\ \A u \in P : Req(u).type = "WR" /\ held'[u] = Append(held[u], ReservedBuf(n))
      /\ \A u \in R \cup P : pc'[u] = "use"
      /\ m0.latest \in DOMAIN n.data /\ n.latest_wts = m0.latest_wts
      /\ \A u \in P : ts[u] = n.prewrite_ts /\ ReservedBuf(n) \in DOMAIN n.data
      /\ \A u \in R : ts[u] # n.prewrite_ts
      /\ \A u \in Threads : u \notin R \cup P /\ u # t => SameTxn(u) /\ ts[u] # n.prewrite_ts
      /\ ts[t] # n.prewrite_ts
      /\ n \in RowRecord /\ m0 \in RowRecord
  <2>1. LetGo(t, r, m0, n)
    BY <1>2, LetGoThreads
  <2> QED  BY <2>1 DEF LetGo
<1>6. /\ NextPrewrite(m0) \in Nat
      /\ \A u \in m0.requests : Req(u).type = "WR" => NextPrewrite(m0) <= ts[u]
      /\ \A u \in R : ts[u] < NextPrewrite(m0)
      /\ \A u \in P : u \in m0.requests /\ ts[u] = NextPrewrite(m0)
      /\ \A u \in m0.requests \ (R \cup P) : NextPrewrite(m0) < ts[u]
  BY <1>4, <1>5, LetGoFacts
<1>7. /\ GoodRow(n) /\ n.requests = m0.requests \ (R \cup P) /\ m0.requests = m.requests
      /\ m0.max_served_rts = m.max_served_rts
      /\ n.max_served_rts = m0.max_served_rts \/ \E u \in R : n.max_served_rts = ts[u]
      /\ P = {} => ~ ExistsPrewrite(n) /\ n.requests = {}
      /\ P # {} => ExistsPrewrite(n) /\ n.prewrite_ts = NextPrewrite(m0)
      /\ DOMAIN m.data \subseteq DOMAIN n.data
  BY <1>4 DEF HandedOver, Ended
<1> HIDE DEF R, P
<1>8. mvcc' \in [Rows -> RowRecord] /\ mvcc'[r] = n /\ \A q \in Rows : q # r => mvcc'[q] = mvcc[q]
  BY <1>3, <1>4, <1>5 DEF TypeOK
<1>9. /\ row_cnt[t] \in Nat /\ Len(query[t]) \in Nat /\ DOMAIN query[t] = 1..Len(query[t])
      /\ row_cnt[t] <= Len(query[t]) /\ i \in Nat /\ i - 1 \in Nat /\ i - 1 < row_cnt[t]
      /\ row_cnt'[t] = i - 1 /\ \A u \in Threads : u # t => row_cnt'[u] = row_cnt[u]
  <2>1. /\ row_cnt[t] \in Nat /\ Len(query[t]) \in Nat /\ DOMAIN query[t] = 1..Len(query[t])
        /\ row_cnt[t] <= Len(query[t])
    BY <1>3, QueryFacts
  <2> QED  BY <1>3, <1>4, <2>1 DEF TypeOK
<1>10. m0.latest \in Nat /\ (P # {} => ReservedBuf(n) \in Nat)
  <2>1. DOMAIN n.data \subseteq Nat
    BY <1>5, RowTypes
  <2> QED  BY <1>5, <2>1
<1>11. held' \in [Threads -> Seq(Nat)]
  <2>1. ASSUME NEW u \in Threads PROVE held'[u] \in Seq(Nat)
    <3>1. held[u] \in Seq(Nat)
      BY <1>3 DEF TypeOK
    <3>2. CASE u \in R
      <4>1. held'[u] = Append(held[u], m0.latest)
        BY <1>5, <3>2
      <4> QED  BY <1>10, <3>1, <4>1
    <3>3. CASE u \in P
      <4>1. held'[u] = Append(held[u], ReservedBuf(n)) /\ ReservedBuf(n) \in Nat
        BY <1>5, <1>10, <3>3
      <4> QED  BY <3>1, <4>1
    <3>4. CASE u \notin R /\ u \notin P
      BY <1>4, <3>1, <3>4
    <3> QED  BY <3>2, <3>3, <3>4
  <2> QED  BY <1>4, <2>1
<1>12. pc' \in [Threads -> {"start", "add_ts", "access", "wait", "use", "commit", "abort"}]
  BY <1>3, <1>4 DEF TypeOK
<1>13. row_cnt' \in [Threads -> Nat]
  BY <1>3, <1>4, <1>9 DEF TypeOK
<1>14. lost' \in [Threads -> BOOLEAN]
  BY <1>3, <1>4 DEF TypeOK
<1>15. TypeOK'
  BY <1>3, <1>4, <1>8, <1>11, <1>12, <1>13, <1>14 DEF TypeOK
<1>16. timestamp \in Nat /\ timestamp <= timestamp
  BY <1>3, MvccAssumption DEF TypeOK
<1>17. pc'[t] = pc[t] /\ t \notin R \cup P
  <2>1. t \notin R \cup P
    BY <1>5
  <2> QED  BY <1>4, <2>1
<1>18. ASSUME NEW u \in R \cup P
       PROVE  /\ u \in Threads /\ pc'[u] = "use" /\ Len(held'[u]) = Len(held[u]) + 1
              /\ row_cnt'[u] = row_cnt[u] /\ Req(u)' = Req(u)
              /\ Last(held'[u]) = IF u \in R THEN m0.latest ELSE ReservedBuf(n)
  <2>1. u \in Threads /\ u # t /\ pc'[u] = "use" /\ held[u] \in Seq(Nat)
    BY <1>3, <1>5 DEF TypeOK
  <2>2. row_cnt'[u] = row_cnt[u] /\ Req(u)' = Req(u)
    BY <1>4, <1>9, <2>1 DEF Req
  <2>3. PICK b \in Nat : b = (IF u \in R THEN m0.latest ELSE ReservedBuf(n)) /\ held'[u] = Append(held[u], b)
    BY <1>5, <1>10
  <2>4. Len(held'[u]) = Len(held[u]) + 1 /\ held'[u][Len(held'[u])] = b
    BY <2>1, <2>3
  <2> QED  BY <2>1, <2>2, <2>3, <2>4 DEF Last
<1>19. TxnInv'
  <2>1. TxnOK(t)'
    BY <1>3, <1>4, <1>9, <1>16, <1>17 DEF TxnOK
  <2>2. ASSUME NEW u \in Threads, u # t, u \notin R \cup P PROVE TxnOK(u)'
    BY <1>4, <1>5, <1>16, <2>2, SameTxnOK
  <2>3. ASSUME NEW u \in R \cup P PROVE TxnOK(u)'
    <3>1. TxnOK(u) /\ pc[u] = "wait"
      BY <1>3, <1>5 DEF TxnInv
    <3>2. query' = query /\ ts' = ts /\ seen' = seen /\ timestamp' = timestamp /\ setup' = setup
      BY <1>4
    <3> QED  BY <1>18, <3>1, <3>2 DEF TxnOK
  <2> QED  BY <1>3, <1>4, <2>1, <2>2, <2>3 DEF TxnInv
\* The threads that go on waiting, or are elsewhere.
<1>20. ASSUME NEW u \in Threads, u # t, u \notin R \cup P
       PROVE  (ReservesKnown(u) /\ HeldKnown(u) /\ WrittenKnown(u) /\ NotAhead(u))'
  <2>1. Reserves(t, r)
    <3>1. i <= row_cnt[t]
      BY <1>9
    <3> QED  BY <1>4, <3>1 DEF Reserves
  <2>2. ts[u] # ts[t]
    BY <1>20, <2>1, ReserverFacts
  <2>3. ts[u] # n.prewrite_ts /\ SameTxn(u)
    BY <1>5, <1>20
  <2>4. Kept(m, n, ts[u])
    BY <1>4, <1>5, <1>7, <2>2, <2>3 DEF Kept
  <2>5. RowsKept(u)
    BY <1>8, <2>4 DEF RowsKept, Kept
  <2> QED  BY <2>3, <2>5, SameThread
\* The thread that returns the row.
<1>21. (ReservesKnown(t) /\ HeldKnown(t) /\ WrittenKnown(t) /\ NotAhead(t))'
  <2>1. ReservesKnown(t) /\ WrittenKnown(t) /\ NotAhead(t)
    BY DEF HInv, ThreadInv
  <2>2. \A j \in DOMAIN query[t] : j # i => query[t][j].row # r
    <3>1. query[t][i].row = r
      BY <1>4
    <3> QED  BY <1>3, <1>4, <3>1, QueryFacts
  <2>3. ReservesKnown(t)'
    <3>1. ASSUME NEW q \in Rows PROVE Reserves(t, q)' <=> mvcc'[q].prewrite_ts = ts[t]
      <4>1. CASE q = r
        <5>1. ~ Reserves(t, q)'
          <6> SUFFICES ASSUME NEW j \in DOMAIN query[t], query[t][j] = [row |-> q, type |-> "WR"],
                              j <= i - 1
                       PROVE  FALSE
            BY <1>4, <1>9, <1>17 DEF Reserves
          <6>1. query[t][j].row = r /\ j # i
            BY <1>9, <4>1
          <6> QED  BY <2>2, <6>1
        <5> QED  BY <1>5, <1>8, <4>1, <5>1
      <4>2. CASE q # r
        <5>1. ASSUME NEW j \in DOMAIN query[t], query[t][j] = [row |-> q, type |-> "WR"]
              PROVE  j <= row_cnt[t] <=> j <= i - 1
          <6>1. query[t][j].type = "WR" /\ query[t][j].row = q
            BY <5>1
          <6>2. j # i
            BY <1>4, <4>2, <6>1
          <6>3. j <= row_cnt[t] => j \in 1..row_cnt[t]
            BY <1>9
          <6>4. j <= row_cnt[t] => j <= i
            BY <1>4, <6>1, <6>3
          <6> QED  BY <1>9, <6>2, <6>4
        <5>2. Reserves(t, q)' <=> Reserves(t, q)
          BY <1>4, <1>9, <1>17, <5>1 DEF Reserves
        <5> QED  BY <1>8, <2>1, <4>2, <5>2 DEF ReservesKnown
      <4> QED  BY <4>1, <4>2
    <3> QED  BY <1>4, <3>1 DEF ReservesKnown
  <2>4. HeldKnown(t)'
    BY <1>4, <1>17 DEF HeldKnown
  <2>5. WrittenKnown(t)'
    <3> SUFFICES ASSUME NEW j \in 1..(i - 1), query[t][j].type = "WR"
                 PROVE  mvcc'[query[t][j].row].data[ReservedBuf(mvcc'[query[t][j].row])] = ts[t]
      <4>1. query' = query /\ ts' = ts /\ row_cnt'[t] = i - 1
        BY <1>4, <1>9
      <4> QED  BY <4>1 DEF WrittenKnown, ReservedBuf
    <3>1. j \in 1..row_cnt[t] /\ j \in DOMAIN query[t] /\ j # i
      BY <1>9
    <3>2. query[t][j].row \in Rows
      BY <1>3, <3>1, QueryFacts
    <3>3. mvcc'[query[t][j].row] = mvcc[query[t][j].row]
      BY <1>8, <2>2, <3>1, <3>2
    <3> QED  BY <2>1, <3>1, <3>3 DEF WrittenKnown
  <2>6. NotAhead(t)'
    <3>1. CASE pc[t] = "commit"
      BY <1>17, <3>1 DEF NotAhead
    <3>2. CASE pc[t] = "abort"
      <4>1. \A q \in Rows : mvcc'[q].latest_wts = mvcc[q].latest_wts
        BY <1>4, <1>5, <1>8, <3>2
      <4> QED  BY <1>4, <2>1, <3>2, <4>1 DEF NotAhead
    <3> QED  BY <1>4, <3>1, <3>2
  <2> QED  BY <2>3, <2>4, <2>5, <2>6
\* The threads let go.
<1>22. ASSUME NEW u \in R \cup P
       PROVE  (ReservesKnown(u) /\ HeldKnown(u) /\ WrittenKnown(u) /\ NotAhead(u))'
  <2>1. /\ u \in Threads /\ pc[u] = "wait" /\ Req(u).row = r /\ row_cnt[u] < Len(query[u])
        /\ pc'[u] = "use" /\ row_cnt'[u] = row_cnt[u] /\ Req(u)' = Req(u)
    BY <1>5, <1>18
  <2>2. ReservesKnown(u) /\ WrittenKnown(u) /\ NotAhead(u)
    BY <2>1 DEF HInv, ThreadInv
  <2>3. \A j \in 1..row_cnt[u] : query[u][j].row # r
    BY <2>1, NewRow
  <2>4. row_cnt[u] + 1 \in DOMAIN query[u] /\ query[u][row_cnt[u] + 1] = [row |-> r, type |-> Req(u).type]
    BY <1>3, <2>1, ReqFacts
  <2>5. u \in P => ReservedBuf(n) \in DOMAIN n.data /\ Req(u).type = "WR" /\ ts[u] = n.prewrite_ts
    BY <1>5
  <2>6. u \in R => Req(u).type = "RD" /\ ts[u] # n.prewrite_ts
    BY <1>5
  <2>7. ReservesKnown(u)'
    <3>1. ASSUME NEW q \in Rows PROVE Reserves(u, q)' <=> mvcc'[q].prewrite_ts = ts[u]
      <4>1. Reserves(u, q)' <=> Reserves(u, q) \/ query[u][row_cnt[u] + 1] = [row |-> q, type |-> "WR"]
        BY <1>4, <2>1, <2>4 DEF Reserves
      <4>2. CASE q # r
        <5>1. query[u][row_cnt[u] + 1] # [row |-> q, type |-> "WR"]
          BY <2>4, <4>2
        <5> QED  BY <1>8, <2>2, <4>1, <4>2, <5>1 DEF ReservesKnown
      <4>3. CASE q = r /\ u \in P
        <5>1. query[u][row_cnt[u] + 1] = [row |-> q, type |-> "WR"]
          BY <2>4, <2>5, <4>3
        <5> QED  BY <1>8, <2>5, <4>1, <4>3, <5>1
      <4>4. CASE q = r /\ u \in R
        <5>1. query[u][row_cnt[u] + 1] # [row |-> q, type |-> "WR"]
          BY <2>4, <2>6, <4>4
        <5>2. ~ Reserves(u, r)
          <6>1. m.prewrite_ts # ts[u]
            BY <1>4, <1>5
          <6> QED  BY <2>2, <6>1 DEF ReservesKnown
        <5> QED  BY <1>8, <2>6, <4>1, <4>4, <5>1, <5>2
      <4> QED  BY <1>22, <4>2, <4>3, <4>4
    <3> QED  BY <1>4, <3>1 DEF ReservesKnown
  <2>8. HeldKnown(u)'
    <3>1. Last(held'[u]) = IF u \in R THEN m0.latest ELSE ReservedBuf(n)
      BY <1>18
    <3>2. Last(held'[u]) \in DOMAIN n.data
      BY <1>5, <1>22, <2>5, <3>1
    <3>3. Req(u).type = "WR" => Last(held'[u]) = ReservedBuf(n)
      BY <1>22, <2>6, <3>1
    <3> QED  BY <1>8, <2>1, <3>2, <3>3 DEF HeldKnown
  <2>9. WrittenKnown(u)'
    <3> SUFFICES ASSUME NEW j \in 1..row_cnt[u], query[u][j].type = "WR"
                 PROVE  mvcc'[query[u][j].row].data[ReservedBuf(mvcc'[query[u][j].row])] = ts[u]
      BY <1>4, <2>1 DEF WrittenKnown, ReservedBuf
    <3>1. query[u][j].row \in Rows
      <4>1. j \in DOMAIN query[u]
        BY <1>3, <2>1, QueryFacts
      <4> QED  BY <1>3, <2>1, <4>1, QueryFacts
    <3>2. mvcc'[query[u][j].row] = mvcc[query[u][j].row]
      BY <1>8, <2>3, <3>1
    <3> QED  BY <2>2, <3>2 DEF WrittenKnown
  <2>10. NotAhead(u)'
    <3>1. n.latest_wts # ts[u] /\ ts[u] # 0
      BY <1>5, RowTypes
    <3>2. \A q \in Rows : mvcc[q].latest_wts # ts[u]
      BY <2>1, <2>2, <3>1 DEF NotAhead
    <3>3. \A q \in Rows : mvcc'[q].latest_wts # ts[u]
      BY <1>8, <3>1, <3>2
    <3> QED  BY <1>4, <3>3 DEF NotAhead
  <2> QED  BY <2>7, <2>8, <2>9, <2>10
<1>23. ThreadInv'
  BY <1>20, <1>21, <1>22 DEF ThreadInv
<1>24. ASSUME NEW q \in Rows, q # r, NEW u \in mvcc[q].requests PROVE SameTxn(u)
  <2>1. u \in Threads /\ pc[u] = "wait" /\ Req(u).row = q
    BY <1>3, RowTypes DEF TypeOK, QueueInv, RowQueue
  <2>2. u # t /\ u \notin R \cup P
    BY <1>4, <1>5, <1>24, <2>1
  <2> QED  BY <1>5, <2>1, <2>2
<1>25. RowQueue(r)'
  <2>1. ASSUME NEW u \in n.requests
        PROVE  /\ pc'[u] = "wait" /\ Req(u)' = Req(u) /\ Req(u).row = r /\ n.latest_wts < ts[u]
               /\ ExistsPrewrite(n) /\ n.prewrite_ts < ts[u]
               /\ Req(u).type = "WR" => n.max_served_rts <= ts[u]
    <3>1. u \in m.requests /\ u \in m0.requests /\ u \notin R \cup P
      BY <1>7
    <3>2. u \in Threads /\ pc[u] = "wait" /\ Req(u).row = r /\ ts[u] \in Nat
      BY <1>3, <3>1, RowTypes DEF TypeOK, RowQueue
    <3>3. SameTxn(u)
      BY <1>4, <1>5, <3>1, <3>2
    <3>4. P # {}
      BY <1>7
    <3>5. ExistsPrewrite(n) /\ n.prewrite_ts = NextPrewrite(m0) /\ NextPrewrite(m0) < ts[u]
      BY <1>6, <1>7, <3>1, <3>4
    <3>6. n.latest_wts < ts[u]
      BY <1>4, <1>5, <3>1 DEF QueueApart
    <3>7. ASSUME Req(u).type = "WR" PROVE n.max_served_rts <= ts[u]
      <4>1. CASE n.max_served_rts = m0.max_served_rts
        BY <1>3, <1>7, <3>1, <3>7, <4>1 DEF RowQueue
      <4>2. CASE \E v \in R : n.max_served_rts = ts[v]
        <5>1. PICK v \in R : n.max_served_rts = ts[v]
          BY <4>2
        <5>2. ts[v] < NextPrewrite(m0) /\ ts[v] \in Nat
          BY <1>5, <1>6
        <5> QED  BY <1>6, <3>2, <3>5, <5>1, <5>2
      <4> QED  BY <1>7, <4>1, <4>2
    <3> QED  BY <3>2, <3>3, <3>5, <3>6, <3>7 DEF SameTxn, Req
  <2>2. ASSUME ExistsPrewrite(n) PROVE n.max_served_rts <= n.prewrite_ts
    <3>1. P # {} /\ n.prewrite_ts = NextPrewrite(m0)
      BY <1>7, <2>2
    <3>2. PICK p \in P : TRUE
      BY <3>1
    <3>3. p \in m.requests /\ Req(p).type = "WR" /\ ts[p] = NextPrewrite(m0)
      BY <1>5, <1>6, <1>7, <3>2
    <3>4. CASE n.max_served_rts = m0.max_served_rts
      BY <1>3, <1>7, <3>1, <3>3, <3>4 DEF RowQueue
    <3>5. CASE \E v \in R : n.max_served_rts = ts[v]
      BY <1>5, <1>6, <3>1, <3>5
    <3> QED  BY <1>7, <3>4, <3>5
  <2>3. mvcc'[r] = n /\ ts' = ts
    BY <1>4, <1>8
  <2> QED  BY <2>1, <2>2, <2>3 DEF RowQueue
<1>26. RowClock(n)
  <2>1. \A u \in Threads : ts[u] < timestamp
    BY <1>3, TsBelow
  <2>2. n.latest_wts < timestamp
    <3>1. m.latest_wts < timestamp
      BY <1>3 DEF ClockInv, RowClock
    <3> QED  BY <1>4, <1>5, <2>1, <3>1
  <2>3. ExistsPrewrite(n) => n.prewrite_ts < timestamp
    <3>1. P # {} => \E p \in P : p \in Threads /\ ts[p] = n.prewrite_ts
      BY <1>5
    <3> QED  BY <1>7, <2>1, <3>1
  <2> QED  BY <2>2, <2>3 DEF RowClock
<1> QED  BY <1>4, <1>7, <1>15, <1>19, <1>23, <1>24, <1>25, <1>26, RowStep


----------------------------------------------------------------------------
(* The invariant of the rows.                                              *)

LEMMA InitHInv ==
    ASSUME Init PROVE HInv
<1>1. TypeOK
  BY InitRowGood, MvccAssumption DEF Init, TypeOK, GoodRow
<1>2. TxnInv
  BY DEF Init, TxnInv, TxnOK
<1>3. \A r \in Rows : mvcc[r] = InitRow
  BY DEF Init
<1>4. RowsGood
  BY <1>3, InitRowGood DEF RowsGood
<1>5. /\ InitRow.latest_wts = 0 /\ InitRow.prewrite_ts = NoTs /\ InitRow.requests = {}
  BY DEF InitRow
<1>6. ClockInv
  BY <1>3, <1>5 DEF Init, ClockInv, RowClock, ExistsPrewrite
<1>7. QueueInv
  BY <1>3, <1>5 DEF QueueInv, RowQueue, ExistsPrewrite
<1>8. ThreadInv
  <2>1. NoTs # 0
    BY MvccAssumption
  <2> SUFFICES ASSUME NEW t \in Threads
               PROVE  ReservesKnown(t) /\ HeldKnown(t) /\ WrittenKnown(t) /\ NotAhead(t)
    BY DEF ThreadInv
  <2>2. query[t] = << >> /\ ts[t] = 0 /\ pc[t] = "start" /\ row_cnt[t] = 0
    BY DEF Init
  <2>3. ReservesKnown(t)
    BY <1>3, <1>5, <2>1, <2>2 DEF ReservesKnown, Reserves
  <2> QED  BY <2>2, <2>3 DEF HeldKnown, WrittenKnown, NotAhead
<1> QED  BY <1>1, <1>2, <1>4, <1>6, <1>7, <1>8 DEF HInv

LEMMA StutterHInv ==
    ASSUME HInv, UNCHANGED vars PROVE HInv'
<1>1. UNCHANGED <<setup, timestamp, all_ts, min_ts, mvcc, pc, query, ts, row_cnt, held, seen, lost,
                  starts>>
  BY DEF vars, txnVars
<1>2. TypeOK' /\ TxnInv' /\ RowsGood'
  BY <1>1 DEF HInv, TypeOK, TxnInv, TxnOK, RowsGood
<1>3. ThreadInv'
  BY <1>1 DEF HInv, ThreadInv, ReservesKnown, Reserves, HeldKnown, WrittenKnown, NotAhead, Req,
              ReservedBuf
<1>4. ClockInv' /\ QueueInv'
  BY <1>1 DEF HInv, ClockInv, RowClock, QueueInv, RowQueue, ExistsPrewrite, Req
<1> QED  BY <1>2, <1>3, <1>4 DEF HInv

LEMMA StepHInv ==
    ASSUME HInv, NEW t \in Threads, Step(t) PROVE HInv'
<1>1. CASE Start(t)
  BY <1>1, StartHInv
<1>2. CASE AddTs(t)
  <2>1. ts[t] \in Nat /\ all_ts \in [Threads -> Nat]
    BY DEF HInv, TypeOK
  <2>2. all_ts' \in [Threads -> Nat]
    BY <1>2, <2>1 DEF AddTs
  <2>3. GoesOn(t, "access")
    BY <1>2, <2>2 DEF AddTs, Goto, GoesOn
  <2> QED  BY <2>3, GoOnHInv
<1>3. CASE ReadAbort(t) \/ PrewriteAbort(t)
  <2>1. all_ts' \in [Threads -> Nat]
    BY <1>3 DEF HInv, TypeOK, ReadAbort, PrewriteAbort
  <2>2. GoesOn(t, "abort")
    BY <1>3, <2>1 DEF ReadAbort, PrewriteAbort, Goto, AtRow, GoesOn
  <2> QED  BY <2>2, GoOnHInv
<1>4. CASE ReadWait(t) \/ PrewriteWait(t)
  BY <1>4, WaitHInv
<1>5. CASE ReadLatest(t)
  BY <1>5, ReadLatestHInv
<1>6. CASE ReadVersion(t)
  BY <1>6, ReadVersionHInv
<1>7. CASE Prewrite(t)
  BY <1>7, PrewriteHInv
<1>8. CASE Use(t)
  BY <1>8, UseHInv
<1>9. CASE Commit(t)
  <2>1. all_ts' \in [Threads -> Nat]
    BY <1>9 DEF HInv, TypeOK, Commit
  <2>2. GoesOn(t, "commit")
    BY <1>9, <2>1 DEF Commit, Goto, GoesOn
  <2> QED  BY <2>2, GoOnHInv
<1>10. CASE ReturnRow(t)
  BY <1>10, ReturnRowHInv
<1>11. CASE Finish(t)
  BY <1>11, FinishHInv
<1> QED  BY <1>1, <1>2, <1>3, <1>4, <1>5, <1>6, <1>7, <1>8, <1>9, <1>10, <1>11 DEF Step

LEMMA HInvariant == Spec => []HInv
<1>1. Init => HInv
  BY InitHInv
<1>2. HInv /\ [Next]_vars => HInv'
  <2> SUFFICES ASSUME HInv, [Next]_vars PROVE HInv'
    OBVIOUS
  <2>1. CASE \E t \in Threads : Step(t)
    BY <2>1, StepHInv
  <2>2. CASE Terminated
    BY <2>2, StutterHInv DEF Terminated
  <2>3. CASE UNCHANGED vars
    BY <2>3, StutterHInv
  <2> QED  BY <2>1, <2>2, <2>3 DEF Next
<1> QED  BY <1>1, <1>2, PTL DEF Spec

LEMMA GoodRowSound ==
    ASSUME NEW m, GoodRow(m)
    PROVE  /\ m.num_versions = Cardinality(Valid(m))
           /\ \A i \in Valid(m) : m.hist[i].ts > m.oldest_wts
           /\ IF Valid(m) = {} THEN m.latest = m.base /\ m.latest_wts = m.oldest_wts
              ELSE LET i == Youngest(m, Valid(m))
                   IN  m.latest = m.hist[i].buf /\ m.latest_wts = m.hist[i].ts
           /\ \A i, j \in Bufs(m) : m.hist[i].buf = m.hist[j].buf => i = j
           /\ \A i \in Bufs(m) : m.hist[i].buf # m.base
           /\ ~ ExistsPrewrite(m) => Unused(m) \cup Valid(m) = DOMAIN m.hist
<1>1. m \in RowRecord /\ VersionsInOrder(m) /\ BuffersApart(m) /\ ReservationKnown(m)
  BY DEF GoodRow
<1>2. \A i \in Valid(m) : m.hist[i].ts \in Nat /\ i \in DOMAIN m.hist
  BY <1>1, RowTypes DEF Valid
<1>3. m.oldest_wts \in Nat /\ m.latest_wts \in Nat
  BY <1>1, RowTypes
<1>4. \A i \in Valid(m) : m.hist[i].ts > m.oldest_wts
  BY <1>1, <1>2, <1>3 DEF VersionsInOrder
<1>5. ASSUME Valid(m) # {}
      PROVE  /\ m.latest = m.hist[Youngest(m, Valid(m))].buf
             /\ m.latest_wts = m.hist[Youngest(m, Valid(m))].ts
  <2>1. PICK k : k = Youngest(m, Valid(m))
    OBVIOUS
  <2>2. \A i \in Valid(m) : m.hist[i].ts <= m.latest_wts
    BY <1>1 DEF VersionsInOrder
  <2>3. k \in Valid(m) /\ \A j \in Valid(m) : m.hist[j].ts <= m.hist[k].ts
    <3>1. Valid(m) \in SUBSET DOMAIN m.hist
      BY DEF Valid
    <3> QED  BY <1>1, <1>3, <1>5, <2>1, <2>2, <3>1, YoungestFacts
  <2>4. PICK i \in Valid(m) : m.latest = m.hist[i].buf /\ m.latest_wts = m.hist[i].ts
    BY <1>1, <1>5 DEF VersionsInOrder
  <2>5. m.hist[i].ts = m.hist[k].ts
    BY <1>2, <2>2, <2>3, <2>4
  <2>6. i = k
    BY <1>1, <2>3, <2>5 DEF VersionsInOrder
  <2> QED  BY <2>1, <2>4, <2>6
<1>6. ~ ExistsPrewrite(m) => Unused(m) \cup Valid(m) = DOMAIN m.hist
  BY <1>1 DEF ReservationKnown, Unused, Valid
<1>7. /\ m.num_versions = Cardinality(Valid(m))
      /\ Valid(m) = {} => m.latest = m.base /\ m.latest_wts = m.oldest_wts
  BY <1>1 DEF VersionsInOrder
<1>8. /\ \A i, j \in Bufs(m) : m.hist[i].buf = m.hist[j].buf => i = j
      /\ \A i \in Bufs(m) : m.hist[i].buf # m.base
  BY <1>1 DEF BuffersApart
<1> QED  BY <1>4, <1>5, <1>6, <1>7, <1>8

\* A row's history is always what Row_mvcc::access and reserveRow take it for: what
\* their assertions say (his_size == _num_versions, max_ts == _latest_wts,
\* min_ts > _oldest_wts, a slot to be found), for histories of any length.
THEOREM HistorySoundTheorem == Spec => []HistorySound
<1>1. HInv => HistorySound
  <2> SUFFICES ASSUME HInv PROVE HistorySound
    OBVIOUS
  <2>1. \A r \in Rows : GoodRow(mvcc[r])
    BY DEF HInv, RowsGood
  <2> QED  BY <2>1, GoodRowSound DEF HistorySound, Bufs
<1> QED  BY <1>1, HInvariant, PTL

\* "All valid entries in _requests have greater ts than any entry in _write_history"
\* (row_mvcc.h): whoever waits in a row waits for an older reservation.
THEOREM WaitsForOlderTheorem == Spec => []WaitsForOlder
<1>1. HInv => WaitsForOlder
  <2> SUFFICES ASSUME HInv, NEW r \in Rows, NEW u \in mvcc[r].requests
               PROVE  /\ ExistsPrewrite(mvcc[r]) /\ mvcc[r].prewrite_ts < ts[u]
                      /\ \A i \in Valid(mvcc[r]) : mvcc[r].hist[i].ts < ts[u]
    BY DEF WaitsForOlder
  <2>1. RowQueue(r) /\ GoodRow(mvcc[r]) /\ mvcc[r] \in RowRecord /\ TypeOK
    BY DEF HInv, QueueInv, RowsGood, GoodRow
  <2>2. u \in Threads /\ ts[u] \in Nat
    BY <2>1, RowTypes DEF TypeOK
  <2>3. ExistsPrewrite(mvcc[r]) /\ mvcc[r].prewrite_ts < ts[u] /\ mvcc[r].latest_wts < ts[u]
    BY <2>1 DEF RowQueue
  <2>4. ASSUME NEW i \in Valid(mvcc[r]) PROVE mvcc[r].hist[i].ts < ts[u]
    <3>1. mvcc[r].hist[i].ts <= mvcc[r].latest_wts
      BY <2>1 DEF GoodRow, VersionsInOrder
    <3>2. mvcc[r].hist[i].ts \in Nat /\ mvcc[r].latest_wts \in Nat
      BY <2>1, RowTypes DEF Valid
    <3> QED  BY <2>2, <2>3, <3>1, <3>2
  <2> QED  BY <2>3, <2>4
<1> QED  BY <1>1, HInvariant, PTL

\* The search of access finds the version a reader between the oldest and the latest
\* one must get, if no timestamp outgrows the 32 bits of the_ts.
THEOREM FindsCorrectVersionTheorem == MaxTxn < TsWrap => (Spec => []FindsCorrectVersion)
<1> SUFFICES ASSUME MaxTxn < TsWrap PROVE Spec => []FindsCorrectVersion
  OBVIOUS
<1>1. HInv => FindsCorrectVersion
  <2> SUFFICES ASSUME HInv, NEW t \in Threads, AtRow(t, "RD")
               PROVE  LET m == mvcc[Req(t).row]
                          older == {i \in Valid(m) : m.hist[i].ts < ts[t]}
                      IN  m.oldest_wts <= ts[t] => m.data[VersionFor(m, ts[t])] =
                             Max({m.oldest_wts} \cup {m.hist[i].ts : i \in older})
    BY DEF FindsCorrectVersion
  <2>1. pc[t] = "access" /\ row_cnt[t] < Len(query[t])
    BY DEF AtRow
  <2>2. PICK m, at : m = mvcc[Req(t).row] /\ at = ts[t]
    OBVIOUS
  <2>3. Req(t).row \in Rows /\ GoodRow(m) /\ m \in RowRecord /\ at \in Nat
    BY <2>1, <2>2, NewRow
  <2>4. VersionsInOrder(m) /\ BuffersApart(m)
    BY <2>3 DEF GoodRow
  <2>5. m.oldest_wts \in Nat /\ m.latest_wts \in Nat /\ \A i \in Valid(m) : m.hist[i].ts \in Nat
    BY <2>3, RowTypes DEF Valid
  <2>6. m.latest_wts < TsWrap
    <3>1. m.latest_wts < timestamp
      BY <2>2, <2>3 DEF HInv, ClockInv, RowClock
    <3>2. timestamp \in Nat /\ timestamp <= MaxTxn + 1
      BY MvccAssumption DEF HInv, TypeOK
    <3> QED  BY <2>5, <3>1, <3>2, MvccAssumption
  <2>7. \A i \in Valid(m) : m.hist[i].ts < TsWrap
    <3>1. \A i \in Valid(m) : m.hist[i].ts <= m.latest_wts
      BY <2>4 DEF VersionsInOrder
    <3> QED  BY <2>5, <2>6, <3>1, MvccAssumption
  <2>8. PICK b : b = VersionFor(m, at)
    OBVIOUS
  <2>9. /\ b = m.base \/ \E i \in Valid(m) : b = m.hist[i].buf /\ m.hist[i].ts < at
        /\ \A i \in Valid(m) : m.hist[i].ts < at => m.hist[i].ts <= m.data[b]
    BY <2>3, <2>7, <2>8, VersionForFacts
  <2> DEFINE S == {m.oldest_wts} \cup {m.hist[i].ts : i \in {j \in Valid(m) : m.hist[j].ts < at}}
             ver == m.data[b]
  <2>10. \/ ver = m.oldest_wts
         \/ \E i \in Valid(m) : m.hist[i].ts < at /\ ver = m.hist[i].ts /\ m.oldest_wts < ver
    BY <2>4, <2>9 DEF BuffersApart, VersionsInOrder
  <2>11. /\ m.oldest_wts \in S
         /\ \A i \in Valid(m) : m.hist[i].ts < at => m.hist[i].ts \in S
         /\ \A x \in S : x = m.oldest_wts \/ \E i \in Valid(m) : m.hist[i].ts < at /\ x = m.hist[i].ts
    OBVIOUS
  <2>12. \A i \in Valid(m) : m.hist[i].ts < at => m.hist[i].ts <= ver
    BY <2>9
  <2> HIDE DEF S, ver
  <2>13. ver \in S /\ ver \in Nat /\ m.oldest_wts <= ver
    BY <2>5, <2>10, <2>11
  <2>14. S \in SUBSET Nat /\ S # {} /\ \A x \in S : x <= ver
    BY <2>5, <2>11, <2>12, <2>13
  <2>15. Max(S) \in S /\ \A x \in S : x <= Max(S)
    BY <2>13, <2>14, MaxFacts
  <2>16. ver = Max(S)
    <3>1. Max(S) \in Nat /\ Max(S) <= ver /\ ver <= Max(S)
      BY <2>13, <2>14, <2>15
    <3> QED  BY <2>13, <3>1
  <2> QED  BY <2>2, <2>8, <2>16 DEF S, ver
<1> QED  BY <1>1, HInvariant, PTL

----------------------------------------------------------------------------
(* What has been read stays the version before the reader.                 *)

\* The row goes from m to n and no version that comes can come before at.
Stays(m, n, at) ==
    Served(m, at) =>
        /\ Served(n, at)
        /\ ExistsPrewrite(n) =>
              (ExistsPrewrite(m) /\ n.prewrite_ts = m.prewrite_ts) \/ at <= n.prewrite_ts

LEMMA StillOK ==
    ASSUME NEW M, NEW N, NEW C, NEW D, NEW r, NEW at, NEW ver, ReadOK(M, C, r, at, ver),
           Stays(M[r], N[r], at), Written(C, r) \subseteq Written(D, r),
           \A w \in Written(D, r) :
              w \in Written(C, r) \/ (ExistsPrewrite(M[r]) /\ w = M[r].prewrite_ts)
    PROVE  ReadOK(N, D, r, at, ver)
<1>1. Served(N[r], at) /\ (ExistsPrewrite(N[r]) => N[r].prewrite_ts <= ver \/ at <= N[r].prewrite_ts)
  BY DEF ReadOK, Stays
<1>2. \A w \in Written(D, r) : w <= ver \/ at <= w
  BY DEF ReadOK
<1> QED  BY <1>1, <1>2 DEF ReadOK

LEMMA ServedBy ==
    ASSUME NEW m \in RowRecord, NEW n \in RowRecord, NEW at \in Nat,
           n.latest_wts = m.latest_wts, m.max_served_rts <= n.max_served_rts,
           n.prewrite_ts = m.prewrite_ts
    PROVE  Stays(m, n, at)
<1>1. m.max_served_rts \in Nat /\ n.max_served_rts \in Nat
  BY RowTypes
<1> QED  BY <1>1 DEF Stays, Served, ExistsPrewrite

LEMMA ReadLatestFacts ==
    ASSUME HInv, NEW t \in Threads, ReadLatest(t)
    PROVE  \E n \in RowRecord :
              /\ mvcc' = [mvcc EXCEPT ![Req(t).row] = n] /\ Requeued(mvcc[Req(t).row], n)
              /\ n.requests = mvcc[Req(t).row].requests
              /\ mvcc[Req(t).row].max_served_rts <= n.max_served_rts /\ ts[t] <= n.max_served_rts
              /\ n.max_served_rts \in {mvcc[Req(t).row].max_served_rts, ts[t]}
<1> DEFINE m == mvcc[Req(t).row]
           x == Max({m.max_served_rts, ts[t]})
           n == [m EXCEPT !.max_served_rts = x]
<1>1. pc[t] = "access" /\ row_cnt[t] < Len(query[t])
  BY DEF ReadLatest, AtRow
<1>2. m \in RowRecord /\ ts[t] \in Nat /\ Req(t).row \in Rows
  BY <1>1, NewRow
<1>3. x \in {m.max_served_rts, ts[t]} /\ x \in Nat /\ m.max_served_rts <= x /\ ts[t] <= x
  BY <1>2, RowTypes, MaxOfTwo
<1>4. mvcc' = [mvcc EXCEPT ![Req(t).row] = n]
  BY <1>2 DEF ReadLatest, HInv, TypeOK
<1> HIDE DEF x
<1>5. Requeued(m, n) /\ n.requests = m.requests /\ n.max_served_rts = x /\ n \in RowRecord
  BY <1>2, <1>3 DEF Requeued, RowRecord
<1> QED  BY <1>3, <1>4, <1>5

LEMMA RowsStay ==
    ASSUME HInv, HInv', NEW t \in Threads, Step(t), NEW at \in Nat, at < NoTs,
           pc[t] = "abort" => at # ts[t]
    PROVE  \A r \in Rows : Stays(mvcc[r], mvcc'[r], at)
<1>1. /\ TypeOK /\ mvcc \in [Rows -> RowRecord] /\ mvcc' \in [Rows -> RowRecord] /\ NoTs \in Nat
  BY MvccAssumption DEF HInv, TypeOK
<1>2. ASSUME mvcc' = mvcc PROVE \A r \in Rows : Stays(mvcc[r], mvcc'[r], at)
  BY <1>2 DEF Stays
<1>3. ASSUME NEW r \in Rows, NEW n \in RowRecord, mvcc' = [mvcc EXCEPT ![r] = n],
             Stays(mvcc[r], n, at)
      PROVE  \A q \in Rows : Stays(mvcc[q], mvcc'[q], at)
  <2>1. mvcc'[r] = n /\ \A q \in Rows : q # r => mvcc'[q] = mvcc[q]
    BY <1>1, <1>3
  <2>2. \A q \in Rows : Stays(mvcc[q], mvcc[q], at)
    BY DEF Stays
  <2> QED  BY <1>3, <2>1, <2>2
<1>4. CASE Start(t) \/ AddTs(t) \/ ReadAbort(t) \/ ReadVersion(t) \/ PrewriteAbort(t) \/ Commit(t) \/ Finish(t)
  <2>1. mvcc' = mvcc
    BY <1>4 DEF Start, AddTs, ReadAbort, ReadVersion, PrewriteAbort, Commit, Finish
  <2> QED  BY <1>2, <2>1
<1>5. CASE ReadWait(t) \/ PrewriteWait(t)
  <2>1. pc[t] = "access" /\ row_cnt[t] < Len(query[t])
    BY <1>5 DEF ReadWait, PrewriteWait, AtRow
  <2>2. PICK r \in Rows : r = Req(t).row
    BY <2>1, NewRow
  <2>3. mvcc' = [mvcc EXCEPT ![r].requests = @ \cup {t}]
    BY <1>5, <2>2 DEF ReadWait, PrewriteWait
  <2> DEFINE n == [mvcc[r] EXCEPT !.requests = @ \cup {t}]
  <2>4. mvcc' = [mvcc EXCEPT ![r] = n]
    BY <1>1, <2>3
  <2>5. n \in RowRecord /\ n.latest_wts = mvcc[r].latest_wts /\ n.prewrite_ts = mvcc[r].prewrite_ts
        /\ n.max_served_rts = mvcc[r].max_served_rts
    BY <1>1 DEF RowRecord
  <2> HIDE DEF n
  <2>6. Stays(mvcc[r], n, at)
    BY <2>5 DEF Stays, Served, ExistsPrewrite
  <2> QED  BY <1>3, <2>4, <2>5, <2>6
<1>6. CASE ReadLatest(t)
  <2>1. pc[t] = "access" /\ row_cnt[t] < Len(query[t])
    BY <1>6 DEF ReadLatest, AtRow
  <2>2. PICK r \in Rows : r = Req(t).row
    BY <2>1, NewRow
  <2>3. PICK n \in RowRecord : /\ mvcc' = [mvcc EXCEPT ![r] = n] /\ Requeued(mvcc[r], n)
                               /\ mvcc[r].max_served_rts <= n.max_served_rts
    BY <1>6, <2>2, ReadLatestFacts
  <2>4. Stays(mvcc[r], n, at)
    BY <1>1, <2>3, ServedBy DEF Requeued
  <2> QED  BY <1>3, <2>3, <2>4
<1>7. CASE Prewrite(t)
  <2>1. pc[t] = "access" /\ row_cnt[t] < Len(query[t])
    BY <1>7 DEF Prewrite, AtRow
  <2>2. PICK r \in Rows : r = Req(t).row
    BY <2>1, NewRow
  <2>3. PICK n : /\ mvcc' = [mvcc EXCEPT ![r] = n] /\ ReservedOf(mvcc[r], n, ts[t])
                 /\ mvcc[r].latest_wts < ts[t] /\ mvcc[r].max_served_rts <= ts[t]
                 /\ ~ ExistsPrewrite(mvcc[r])
    BY <1>7, <2>2, PrewriteFacts DEF Prewritten
  <2>4. n \in RowRecord /\ n.latest_wts = mvcc[r].latest_wts /\ n.prewrite_ts = ts[t]
        /\ n.max_served_rts = mvcc[r].max_served_rts
    BY <2>3 DEF ReservedOf, GoodRow, Keeps
  <2>5. mvcc[r].prewrite_ts # at
    BY <1>1, <2>3 DEF ExistsPrewrite
  <2>6. mvcc[r].latest_wts \in Nat /\ mvcc[r].max_served_rts \in Nat /\ ts[t] \in Nat
    BY <1>1, RowTypes DEF TypeOK
  <2>7. Served(mvcc[r], at) => at <= ts[t] /\ Served(n, at)
    BY <2>3, <2>4, <2>5, <2>6 DEF Served
  <2>8. Stays(mvcc[r], n, at)
    BY <2>4, <2>7 DEF Stays
  <2> QED  BY <1>3, <2>3, <2>4, <2>8
<1>8. CASE Use(t)
  <2>1. PICK n : /\ mvcc' = [mvcc EXCEPT ![Req(t).row] = n] /\ Used(t, mvcc[Req(t).row], n)
                 /\ Req(t).row \in Rows
    BY <1>8, UseFacts
  <2>2. PICK r \in Rows : r = Req(t).row
    BY <2>1
  <2>3. n \in RowRecord /\ n.latest_wts = mvcc[r].latest_wts /\ n.prewrite_ts = mvcc[r].prewrite_ts
        /\ n.max_served_rts = mvcc[r].max_served_rts
    BY <2>1, <2>2 DEF Used, GoodRow
  <2>4. Stays(mvcc[r], n, at)
    BY <2>3 DEF Stays, Served, ExistsPrewrite
  <2> QED  BY <1>3, <2>1, <2>2, <2>3, <2>4
<1>9. CASE ReturnRow(t)
  <2>1. PICK i, m0, n : \E r \in Rows : Returned(t, i, r, m0, n)
    BY <1>9, ReturnFacts
  <2>2. PICK r \in Rows : Returned(t, i, r, m0, n)
    BY <2>1
  <2> DEFINE m == mvcc[r]
  <2>3. /\ mvcc' = [mvcc EXCEPT ![r] = n] /\ m.prewrite_ts = ts[t] /\ GoodRow(m) /\ m \in RowRecord
        /\ n \in RowRecord /\ m0 \in RowRecord /\ GoodRow(m0)
        /\ HandedOver(m0, n) /\ Ended(m, m0) /\ QueueApart(m0)
        /\ pc[t] \in {"commit", "abort"} /\ ExistsPrewrite(m)
        /\ pc[t] = "commit" => m0.latest_wts = ts[t]
        /\ pc[t] = "abort" => m0.latest_wts = m.latest_wts
    BY <2>2 DEF Returned, HandedOver, Ended, GoodRow
  <2>4. /\ n.latest_wts = m0.latest_wts /\ m.max_served_rts <= n.max_served_rts
        /\ m0.requests = m.requests
    BY <2>3 DEF HandedOver, Ages, Ended
  <2>5. m.latest_wts < ts[t]
    BY <2>3 DEF GoodRow, ReservationKnown
  <2>6. m.latest_wts \in Nat /\ m.max_served_rts \in Nat /\ n.max_served_rts \in Nat /\ ts[t] \in Nat
        /\ n.prewrite_ts \in Nat
    BY <1>1, <2>3, RowTypes DEF TypeOK
  <2>7. Served(m, at) => Served(n, at)
    BY <2>3, <2>4, <2>5, <2>6 DEF Served
  <2>8. ASSUME Served(m, at), ExistsPrewrite(n) PROVE at <= n.prewrite_ts
    <3>1. PrewriteLetGo(m0) # {} /\ n.prewrite_ts = NextPrewrite(m0)
      BY <2>3, <2>8 DEF HandedOver
    <3>2. PICK p \in PrewriteLetGo(m0) : TRUE
      BY <3>1
    <3>3. p \in m0.requests /\ Req(p).type = "WR" /\ ts[p] = NextPrewrite(m0)
      BY <2>3, <3>2, LetGoFacts
    <3>4. /\ m.latest_wts < ts[p] /\ m.prewrite_ts < ts[p] /\ m.max_served_rts <= ts[p]
      BY <2>4, <3>3 DEF HInv, QueueInv, RowQueue
    <3> QED  BY <2>3, <2>6, <2>8, <3>1, <3>3, <3>4 DEF Served
  <2>9. Stays(m, n, at)
    BY <2>7, <2>8 DEF Stays
  <2> QED  BY <1>3, <2>3, <2>9
<1> QED  BY <1>4, <1>5, <1>6, <1>7, <1>8, <1>9 DEF Step


LEMMA CommitFacts ==
    ASSUME HInv, NEW t \in Threads, Commit(t), NEW r \in Rows
    PROVE  /\ r \in WritesOf(t) <=> Reserves(t, r)
           /\ \A w \in Written(committed, r) : w \in Written(committed', r)
           /\ \A w \in Written(committed', r) :
                 w \in Written(committed, r) \/ (w = ts[t] /\ Reserves(t, r))
           /\ Reserves(t, r) => ts[t] \in Written(committed', r)
<1>1. TypeOK /\ TxnInv /\ pc[t] = "access" /\ row_cnt[t] = Len(query[t])
  BY DEF HInv, Commit
<1>2. \A i \in DOMAIN query[t] : i <= row_cnt[t]
  BY <1>1, QueryFacts
<1>3. r \in WritesOf(t) <=> \E i \in DOMAIN query[t] : query[t][i].row = r /\ query[t][i].type = "WR"
  BY DEF WritesOf
<1>4. \A i \in DOMAIN query[t] : query[t][i] = [row |-> r, type |-> "WR"] <=>
                                   query[t][i].row = r /\ query[t][i].type = "WR"
  <2> TAKE i \in DOMAIN query[t]
  <2>1. query[t][i] = [row |-> query[t][i].row, type |-> query[t][i].type]
    BY <1>1, QueryFacts
  <2> QED  BY <2>1
<1>5. r \in WritesOf(t) <=> Reserves(t, r)
  BY <1>1, <1>2, <1>3, <1>4 DEF Reserves
<1>6. PICK c : /\ c = [ts |-> ts[t], reads |-> ReadsOf(t), writes |-> WritesOf(t), lost |-> lost[t]]
               /\ committed' = committed \cup {c}
  BY DEF Commit
<1>7. c.ts = ts[t] /\ c.writes = WritesOf(t)
  BY <1>6
<1>8. \A w \in Written(committed, r) : w \in Written(committed', r)
  BY <1>6 DEF Written
<1>9. ASSUME NEW w \in Written(committed', r)
      PROVE  w \in Written(committed, r) \/ (w = ts[t] /\ Reserves(t, r))
  <2>1. PICK d \in committed' : r \in d.writes /\ w = d.ts
    BY DEF Written
  <2>2. CASE d \in committed
    BY <2>1, <2>2 DEF Written
  <2>3. CASE d = c
    BY <1>5, <1>7, <2>1, <2>3
  <2> QED  BY <1>6, <2>2, <2>3
<1>10. Reserves(t, r) => ts[t] \in Written(committed', r)
  BY <1>5, <1>6, <1>7 DEF Written
<1> QED  BY <1>5, <1>8, <1>9, <1>10

LEMMA WrittenGrows ==
    ASSUME HInv, NEW t \in Threads, Step(t), NEW r \in Rows
    PROVE  /\ \A w \in Written(committed, r) : w \in Written(committed', r)
           /\ \A w \in Written(committed', r) :
                 w \in Written(committed, r) \/ (ExistsPrewrite(mvcc[r]) /\ w = mvcc[r].prewrite_ts)
<1>1. CASE Commit(t)
  <2>1. Reserves(t, r) => ExistsPrewrite(mvcc[r]) /\ ts[t] = mvcc[r].prewrite_ts
    BY ReserverFacts
  <2> QED  BY <1>1, <2>1, CommitFacts
<1>2. CASE ~ Commit(t)
  <2>1. committed' = committed
    BY <1>2 DEF Step, Start, AddTs, ReadAbort, ReadWait, ReadLatest, ReadVersion, PrewriteAbort,
                PrewriteWait, Prewrite, Use, ReturnRow, Finish
  <2> QED  BY <2>1
<1> QED  BY <1>1, <1>2

LEMMA ReadStays ==
    ASSUME HInv, HInv', NEW t \in Threads, Step(t), NEW at \in Nat, at < NoTs,
           pc[t] = "abort" => at # ts[t],
           NEW r \in Rows, NEW ver, ReadOK(mvcc, committed, r, at, ver)
    PROVE  ReadOK(mvcc', committed', r, at, ver)
<1>1. Stays(mvcc[r], mvcc'[r], at)
  BY RowsStay
<1>2. PICK N, D : N = mvcc' /\ D = committed'
  OBVIOUS
<1>3. /\ Stays(mvcc[r], N[r], at) /\ Written(committed, r) \subseteq Written(D, r)
      /\ \A w \in Written(D, r) :
            w \in Written(committed, r) \/ (ExistsPrewrite(mvcc[r]) /\ w = mvcc[r].prewrite_ts)
  BY <1>1, <1>2, WrittenGrows
<1>4. ReadOK(N, D, r, at, ver)
  BY <1>3, StillOK
<1> QED  BY <1>2, <1>4

\* The timestamp of a transaction is found in the history once it commits.
LEMMA CommitInvKept ==
    ASSUME HInv, HInv', CommitInv, NEW t \in Threads, Step(t)
    PROVE  CommitInv'
<1>1. TypeOK /\ TxnInv /\ timestamp \in Nat
  <2>1. TypeOK /\ TxnInv
    BY DEF HInv
  <2> QED  BY <2>1, MvccAssumption DEF TypeOK
<1>2. CASE Commit(t)
  <2>1. PICK c : /\ c = [ts |-> ts[t], reads |-> ReadsOf(t), writes |-> WritesOf(t), lost |-> lost[t]]
                 /\ committed' = committed \cup {c}
    BY <1>2 DEF Commit
  <2>2. /\ ts' = ts /\ timestamp' = timestamp /\ pc'[t] = "commit" /\ pc[t] = "access"
        /\ \A u \in Threads : u # t => pc'[u] = pc[u]
    BY <1>1, <1>2 DEF Commit, Goto, TypeOK, txnVars
  <2>3. ts[t] \in Nat /\ ts[t] > 0 /\ ts[t] < timestamp
    BY <1>1, <2>2, TsBelow DEF TxnInv, TxnOK
  <2>4. DOMAIN ReadsOf(t) \subseteq Rows
    <3>1. DOMAIN ReadsOf(t) = {query[t][i].row : i \in DOMAIN query[t]}
      BY DEF ReadsOf
    <3>2. \A i \in DOMAIN query[t] : query[t][i].row \in Rows
      BY <1>1, QueryFacts
    <3> QED  BY <3>1, <3>2
  <2>5. \A u \in Threads : ts[u] = ts[t] => u = t
    BY <1>1, <2>3 DEF TxnInv
  <2>6. c.ts = ts[t] /\ c.reads = ReadsOf(t)
    BY <2>1
  <2>7. ASSUME NEW d \in committed'
        PROVE  /\ d.ts \in Nat /\ d.ts > 0 /\ d.ts < timestamp' /\ DOMAIN d.reads \subseteq Rows
               /\ \A u \in Threads : ts'[u] = d.ts => pc'[u] = "commit"
    <3>1. CASE d = c
      BY <2>2, <2>3, <2>4, <2>5, <2>6, <3>1
    <3>2. CASE d \in committed
      BY <2>2, <3>2 DEF CommitInv
    <3> QED  BY <2>1, <2>7, <3>1, <3>2
  <2> QED  BY <2>7 DEF CommitInv
<1>3. CASE ~ Commit(t)
  <2>1. committed' = committed
    BY <1>3 DEF Step, Start, AddTs, ReadAbort, ReadWait, ReadLatest, ReadVersion, PrewriteAbort,
                PrewriteWait, Prewrite, Use, ReturnRow, Finish
  <2>2. CASE Start(t)
    <3>1. ts'[t] = timestamp /\ timestamp' = timestamp + 1 /\ pc[t] = "start"
          /\ \A u \in Threads : u # t => ts'[u] = ts[u] /\ pc'[u] = pc[u]
      BY <1>1, <2>2 DEF Start, Goto, TypeOK
    <3> QED  BY <1>1, <2>1, <3>1 DEF CommitInv
  <2>3. CASE Finish(t)
    <3>1. ts'[t] = 0 /\ timestamp' = timestamp
          /\ \A u \in Threads : u # t => ts'[u] = ts[u] /\ pc'[u] = pc[u]
      BY <1>1, <2>3 DEF Finish, Goto, TypeOK
    <3> QED  BY <1>1, <2>1, <3>1 DEF CommitInv
  <2>4. CASE ~ Start(t) /\ ~ Finish(t)
    <3>1. ts' = ts /\ timestamp' = timestamp
      BY <1>3, <2>4 DEF Step, AddTs, ReadAbort, ReadWait, ReadLatest, ReadVersion, PrewriteAbort,
                PrewriteWait, Prewrite, Use, ReturnRow, txnVars
    <3>2. \A u \in Threads : pc[u] = "commit" => pc'[u] = "commit"
      <4>1. CASE ReturnRow(t)
        <5>1. PICK i, m0, n : \E r \in Rows : Returned(t, i, r, m0, n)
          BY <4>1, ReturnFacts
        <5>2. PICK r \in Rows : Returned(t, i, r, m0, n)
          BY <5>1
        <5>3. \A u \in ReadsLetGo(m0) \cup PrewriteLetGo(m0) : pc[u] = "wait"
          <6>1. LetGo(t, r, m0, n)
            BY <5>2, LetGoThreads
          <6> QED  BY <6>1 DEF LetGo
        <5>4. pc' = [u \in Threads |-> IF u \in ReadsLetGo(m0) \cup PrewriteLetGo(m0) THEN "use" ELSE pc[u]]
          BY <5>2 DEF Returned
        <5> QED  BY <5>3, <5>4
      <4>2. CASE ~ ReturnRow(t)
        <5>1. pc[t] # "commit" /\ \E l : pc' = [pc EXCEPT ![t] = l]
          BY <1>3, <2>4, <4>2 DEF Step, AddTs, ReadAbort, ReadWait, ReadLatest, ReadVersion,
             PrewriteAbort, PrewriteWait, Prewrite, Use, Goto, AtRow
        <5> QED  BY <1>1, <5>1 DEF TypeOK
      <4> QED  BY <4>1, <4>2
    <3> QED  BY <2>1, <3>1, <3>2 DEF CommitInv
  <2> QED  BY <2>2, <2>3, <2>4
<1> QED  BY <1>2, <1>3


----------------------------------------------------------------------------
(* The steps, seen from the rows and from the other transactions.          *)

\* Row r becomes n in a step of t.
Changed(t, r, n) ==
    /\ mvcc' = [mvcc EXCEPT ![r] = n] /\ GoodRow(n)
    /\ \/ Requeued(mvcc[r], n) /\ lost' = lost
       \/ /\ Prewrite(t) /\ ReservedOf(mvcc[r], n, ts[t]) /\ ~ ExistsPrewrite(mvcc[r])
          /\ lost' = [u \in Threads |-> lost[u] \/ u \in Overwritten(r, ReservedBuf(n))]
       \/ Use(t) /\ Used(t, mvcc[r], n) /\ r = Req(t).row /\ lost' = lost
       \/ ReturnRow(t) /\ \E i, m0 : Returned(t, i, r, m0, n)

LEMMA StepChange ==
    ASSUME HInv, NEW t \in Threads, Step(t)
    PROVE  \/ mvcc' = mvcc /\ \A u \in Threads : u # t => lost'[u] = lost[u]
           \/ \E r \in Rows, n \in RowRecord : Changed(t, r, n)
<1>1. TypeOK /\ mvcc \in [Rows -> RowRecord]
  BY DEF HInv, TypeOK
<1>2. CASE Start(t) \/ AddTs(t) \/ ReadAbort(t) \/ ReadVersion(t) \/ PrewriteAbort(t) \/ Commit(t)
  <2>1. mvcc' = mvcc /\ lost' = lost
    BY <1>2 DEF Start, AddTs, ReadAbort, ReadVersion, PrewriteAbort, Commit, txnVars
  <2> QED  BY <2>1
<1>3. CASE Finish(t)
  BY <1>1, <1>3 DEF Finish, TypeOK
<1>4. CASE ReadWait(t) \/ PrewriteWait(t)
  <2>1. pc[t] = "access" /\ row_cnt[t] < Len(query[t])
    BY <1>4 DEF ReadWait, PrewriteWait, AtRow
  <2>2. PICK r \in Rows : r = Req(t).row
    BY <2>1, NewRow
  <2>3. mvcc' = [mvcc EXCEPT ![r].requests = @ \cup {t}] /\ lost' = lost
    BY <1>4, <2>2 DEF ReadWait, PrewriteWait, txnVars
  <2> DEFINE n == [mvcc[r] EXCEPT !.requests = @ \cup {t}]
  <2>4. mvcc' = [mvcc EXCEPT ![r] = n]
    BY <1>1, <2>3
  <2>5. n \in RowRecord /\ Requeued(mvcc[r], n)
    BY <1>1 DEF RowRecord, Requeued
  <2> HIDE DEF n
  <2>6. GoodRow(n)
    BY <2>4, <2>5, RequeuedKept
  <2> QED  BY <2>3, <2>4, <2>5, <2>6 DEF Changed
<1>5. CASE ReadLatest(t)
  <2>1. pc[t] = "access" /\ row_cnt[t] < Len(query[t]) /\ lost' = lost
    BY <1>5 DEF ReadLatest, AtRow
  <2>2. PICK r \in Rows : r = Req(t).row
    BY <2>1, NewRow
  <2>3. PICK n \in RowRecord : mvcc' = [mvcc EXCEPT ![r] = n] /\ Requeued(mvcc[r], n)
    BY <1>5, <2>2, ReadLatestFacts
  <2>4. GoodRow(n)
    BY <2>3, RequeuedKept
  <2> QED  BY <2>1, <2>3, <2>4 DEF Changed
<1>6. CASE Prewrite(t)
  <2>1. pc[t] = "access" /\ row_cnt[t] < Len(query[t])
    BY <1>6 DEF Prewrite, AtRow
  <2>2. PICK r \in Rows : r = Req(t).row
    BY <2>1, NewRow
  <2>3. PICK n : Prewritten(t, r, n)
    BY <1>6, <2>2, PrewriteFacts
  <2>4. n \in RowRecord /\ GoodRow(n)
    BY <2>3 DEF Prewritten, ReservedOf, GoodRow
  <2> QED  BY <1>6, <2>3, <2>4 DEF Changed, Prewritten
<1>7. CASE Use(t)
  <2>1. PICK n : /\ mvcc' = [mvcc EXCEPT ![Req(t).row] = n] /\ Used(t, mvcc[Req(t).row], n)
                 /\ Req(t).row \in Rows
    BY <1>7, UseFacts
  <2>2. PICK r \in Rows : r = Req(t).row
    BY <2>1
  <2>3. n \in RowRecord /\ lost' = lost /\ GoodRow(n)
    BY <1>7, <2>1 DEF Used, GoodRow, Use
  <2> QED  BY <1>7, <2>1, <2>2, <2>3 DEF Changed
<1>8. CASE ReturnRow(t)
  <2>1. PICK i, m0, n : \E r \in Rows : Returned(t, i, r, m0, n)
    BY <1>8, ReturnFacts
  <2>2. PICK r \in Rows : Returned(t, i, r, m0, n)
    BY <2>1
  <2>3. n \in RowRecord /\ mvcc' = [mvcc EXCEPT ![r] = n] /\ GoodRow(n)
    BY <2>2 DEF Returned, HandedOver, GoodRow
  <2> QED  BY <1>8, <2>2, <2>3 DEF Changed
<1> QED  BY <1>2, <1>3, <1>4, <1>5, <1>6, <1>7, <1>8 DEF Step

\* A step of t changes no other transaction, but those it lets go.
LEMMA OthersSame ==
    ASSUME HInv, NEW t \in Threads, Step(t), NEW u \in Threads, u # t
    PROVE  \/ SameTxn(u)
           \/ ReturnRow(t) /\ pc[u] = "wait" /\ pc'[u] = "use"
<1>1. TypeOK
  BY DEF HInv
<1>2. CASE ReturnRow(t)
  <2>1. PICK i, m0, n : \E r \in Rows : Returned(t, i, r, m0, n)
    BY <1>2, ReturnFacts
  <2>2. PICK r \in Rows : Returned(t, i, r, m0, n)
    BY <2>1
  <2>3. LetGo(t, r, m0, n)
    BY <2>2, LetGoThreads
  <2> QED  BY <1>2, <2>3 DEF LetGo
<1>3. CASE ~ ReturnRow(t)
  <2>1. pc'[u] = pc[u]
    BY <1>1, <1>3 DEF Step, Start, AddTs, ReadAbort, ReadWait, ReadLatest, ReadVersion,
       PrewriteAbort, PrewriteWait, Prewrite, Use, Commit, Finish, Goto, TypeOK
  <2>2. query'[u] = query[u] /\ ts'[u] = ts[u] /\ row_cnt'[u] = row_cnt[u] /\ seen'[u] = seen[u]
    BY <1>1, <1>3 DEF Step, Start, AddTs, ReadAbort, ReadWait, ReadLatest, ReadVersion,
       PrewriteAbort, PrewriteWait, Prewrite, Use, Commit, Finish, txnVars, TypeOK
  <2>3. held'[u] = held[u]
    BY <1>1, <1>3 DEF Step, Start, AddTs, ReadAbort, ReadWait, ReadLatest, ReadVersion,
       PrewriteAbort, PrewriteWait, Prewrite, Use, Commit, Finish, txnVars, TypeOK, Give
  <2> QED  BY <2>1, <2>2, <2>3 DEF SameTxn
<1> QED  BY <1>2, <1>3

----------------------------------------------------------------------------
(* The rows have the versions that have been written.                      *)

LEMMA AgesVersions ==
    ASSUME NEW m \in RowRecord, NEW n \in RowRecord, NEW W, RowVersions(m, W), Ages(m, n),
           ~ ExistsPrewrite(m), \A w \in W : w \in Nat /\ w # NoTs
    PROVE  RowVersions(n, W)
<1>1. m.oldest_wts \in Nat /\ n.oldest_wts \in Nat
  BY RowTypes
<1>2. ASSUME NEW w \in W PROVE w <= n.oldest_wts \/ \E i \in Valid(n) : n.hist[i].ts = w
  <2>1. CASE w <= m.oldest_wts
    BY <1>1, <2>1 DEF Ages
  <2>2. CASE \E i \in Valid(m) : m.hist[i].ts = w
    BY <2>2 DEF Ages
  <2>3. w # m.prewrite_ts
    BY DEF ExistsPrewrite
  <2> QED  BY <2>1, <2>2, <2>3 DEF RowVersions
<1>3. \A i \in Valid(n) : n.hist[i].ts \in W
  BY DEF RowVersions, Ages
<1>4. n.oldest_wts \in W \cup {0}
  BY DEF RowVersions, Ages
<1> QED  BY <1>2, <1>3, <1>4 DEF RowVersions

LEMMA WrittenFacts ==
    ASSUME HInv, CommitInv, NEW r \in Rows, NEW w \in Written(committed, r)
    PROVE  /\ w \in Nat /\ w > 0 /\ w < timestamp /\ w <= MaxTxn /\ w # NoTs
           /\ \A t \in Threads : ts[t] = w => pc[t] = "commit"
<1>1. PICK c \in committed : w = c.ts
  BY DEF Written
<1>2. w \in Nat /\ w > 0 /\ w < timestamp /\ \A t \in Threads : ts[t] = w => pc[t] = "commit"
  BY <1>1 DEF CommitInv
<1>3. timestamp \in Nat /\ timestamp <= MaxTxn + 1
  BY MvccAssumption DEF HInv, TypeOK
<1> QED  BY <1>2, <1>3, MvccAssumption

\* Row r becomes n, and the versions of r stay those written.
LEMMA RowVersionsKept ==
    ASSUME HInv, CommitInv, VersionInv, NEW t \in Threads, NEW r \in Rows, NEW n \in RowRecord,
           Changed(t, r, n), committed' = committed
    PROVE  RowVersions(n, Written(committed, r))
<1> DEFINE m == mvcc[r]
           W == Written(committed, r)
<1> SUFFICES RowVersions(n, W)
  OBVIOUS
<1>1. RowVersions(m, W) /\ m \in RowRecord
  BY DEF VersionInv, HInv, TypeOK
<1>2. \A w \in W : w \in Nat /\ w # NoTs
  BY WrittenFacts
<1> HIDE DEF W
<1>3. ASSUME n.hist = m.hist, n.oldest_wts = m.oldest_wts, n.prewrite_ts = m.prewrite_ts
      PROVE  RowVersions(n, W)
  BY <1>1, <1>3 DEF RowVersions, Valid
<1>4. CASE Requeued(m, n)
  BY <1>3, <1>4 DEF Requeued
<1>5. CASE Used(t, m, n)
  BY <1>3, <1>5 DEF Used
<1>6. CASE ReservedOf(m, n, ts[t]) /\ ~ ExistsPrewrite(m)
  <2>1. Ages(m, n)
    BY <1>6 DEF ReservedOf, Keeps, Ages
  <2> QED  BY <1>1, <1>2, <1>6, <2>1, AgesVersions
<1>7. CASE \E i, m0 : Returned(t, i, r, m0, n)
  <2>1. PICK i, m0 : Returned(t, i, r, m0, n)
    BY <1>7
  <2>2. /\ Ended(m, m0) /\ HandedOver(m0, n) /\ m.prewrite_ts = ts[t] /\ pc[t] \in {"commit", "abort"}
        /\ pc[t] = "commit" => /\ m0.hist[m.prewrite_id].ts = ts[t]
                               /\ Valid(m0) = Valid(m) \cup {m.prewrite_id}
        /\ pc[t] = "abort" => Valid(m0) = Valid(m)
        /\ i \in 1..row_cnt[t] /\ i \in DOMAIN query[t] /\ query[t][i] = [row |-> r, type |-> "WR"]
    BY <2>1 DEF Returned
  <2>3. m0 \in RowRecord /\ ~ ExistsPrewrite(m0) /\ m0.oldest_wts = m.oldest_wts /\ Ages(m0, n)
        /\ \A j \in Valid(m) : j \in Valid(m0) /\ m0.hist[j].ts = m.hist[j].ts
    BY <2>2 DEF Ended, HandedOver, GoodRow
  <2>4. RowVersions(m0, W)
    <3>1. CASE pc[t] = "commit"
      <4>1. Reserves(t, r)
        <5>1. row_cnt[t] \in Nat
          BY DEF HInv, TypeOK
        <5>2. i <= row_cnt[t]
          BY <2>2, <5>1
        <5> QED  BY <2>2, <5>2 DEF Reserves
      <4>2. ts[t] \in W
        BY <3>1, <4>1 DEF VersionInv, W
      <4>3. m.prewrite_id \in Valid(m0) /\ m0.hist[m.prewrite_id].ts = m.prewrite_ts
        BY <2>2, <3>1
      <4>4. \A j \in Valid(m0) : m0.hist[j].ts \in W
        BY <1>1, <2>2, <2>3, <3>1, <4>2 DEF RowVersions
      <4>5. \A w \in W : w <= m0.oldest_wts \/ \E j \in Valid(m0) : m0.hist[j].ts = w
        BY <1>1, <2>3, <4>3 DEF RowVersions
      <4> QED  BY <1>1, <2>3, <4>4, <4>5 DEF RowVersions
    <3>2. CASE pc[t] = "abort"
      <4>1. ts[t] \notin W
        BY <3>2, WrittenFacts DEF W
      <4> QED  BY <1>1, <2>2, <2>3, <3>2, <4>1 DEF RowVersions
    <3> QED  BY <2>2, <3>1, <3>2
  <2> QED  BY <1>2, <2>3, <2>4, AgesVersions
<1> QED  BY <1>4, <1>5, <1>6, <1>7 DEF Changed, W

LEMMA VersionInvKept ==
    ASSUME HInv, HInv', CommitInv, VersionInv, NEW t \in Threads, Step(t)
    PROVE  VersionInv'
<1>1. TypeOK /\ TxnInv /\ mvcc \in [Rows -> RowRecord]
  BY DEF HInv, TypeOK
<1>2. ~ Commit(t) => committed' = committed
  BY DEF Step, Start, AddTs, ReadAbort, ReadWait, ReadLatest, ReadVersion, PrewriteAbort,
         PrewriteWait, Prewrite, Use, ReturnRow, Finish
<1>3. ASSUME NEW r \in Rows PROVE RowVersions(mvcc'[r], Written(committed', r))
  <2> DEFINE W == Written(committed, r)
             V == Written(committed', r)
  <2>1. RowVersions(mvcc[r], W)
    BY DEF VersionInv
  <2>2. CASE Commit(t)
    <3>1. mvcc' = mvcc
      BY <2>2 DEF Commit
    <3>2. /\ \A w \in W : w \in V
          /\ \A w \in V : w \in W \/ w = mvcc[r].prewrite_ts
      BY WrittenGrows
    <3> HIDE DEF W, V
    <3>3. RowVersions(mvcc[r], V)
      BY <2>1, <3>2 DEF RowVersions
    <3> QED  BY <3>1, <3>3 DEF V
  <2>3. CASE ~ Commit(t)
    <3>1. V = W
      BY <1>2, <2>3
    <3>2. CASE mvcc' = mvcc
      BY <2>1, <3>1, <3>2
    <3>3. CASE \E q \in Rows, n \in RowRecord : Changed(t, q, n)
      <4>1. PICK q \in Rows, n \in RowRecord : Changed(t, q, n)
        BY <3>3
      <4>2. mvcc'[q] = n /\ \A p \in Rows : p # q => mvcc'[p] = mvcc[p]
        BY <1>1, <4>1 DEF Changed
      <4>3. CASE q = r
        <5>1. RowVersions(n, W)
          BY <1>2, <2>3, <4>1, <4>3, RowVersionsKept
        <5> QED  BY <3>1, <4>2, <4>3, <5>1
      <4>4. CASE q # r
        BY <2>1, <3>1, <4>2, <4>4
      <4> QED  BY <4>3, <4>4
    <3> QED  BY <3>2, <3>3, StepChange
  <2> QED  BY <2>2, <2>3
<1>4. ASSUME NEW u \in Threads, NEW r \in Rows, pc'[u] = "commit", Reserves(u, r)'
      PROVE  ts'[u] \in Written(committed', r)
  <2>1. \A w \in Written(committed, r) : w \in Written(committed', r)
    BY WrittenGrows
  <2>2. CASE u # t
    <3>1. SameTxn(u)
      BY <1>4, <2>2, OthersSame
    <3>2. pc[u] = "commit" /\ Reserves(u, r) /\ ts'[u] = ts[u]
      BY <1>4, <3>1 DEF SameTxn, Reserves
    <3>3. ts[u] \in Written(committed, r)
      BY <3>2 DEF VersionInv
    <3> QED  BY <2>1, <3>2, <3>3
  <2>3. CASE u = t /\ Commit(t)
    <3>1. query' = query /\ row_cnt' = row_cnt /\ ts' = ts /\ pc[t] = "access"
      BY <2>3 DEF Commit, txnVars
    <3>2. Reserves(t, r)
      BY <1>4, <2>3, <3>1 DEF Reserves
    <3> QED  BY <2>3, <3>1, <3>2, CommitFacts
  <2>4. CASE u = t /\ ReturnRow(t)
    <3>1. PICK i, m0, n : \E q \in Rows : Returned(t, i, q, m0, n)
      BY <2>4, ReturnFacts
    <3>2. PICK q \in Rows : Returned(t, i, q, m0, n)
      BY <3>1
    <3>3. LetGo(t, q, m0, n)
      BY <3>2, LetGoThreads
    <3>4. query' = query /\ row_cnt' = [row_cnt EXCEPT ![t] = i - 1] /\ ts' = ts /\ i \in 1..row_cnt[t]
          /\ pc[t] \in {"commit", "abort"} /\ committed' = committed
          /\ pc' = [v \in Threads |-> IF v \in ReadsLetGo(m0) \cup PrewriteLetGo(m0) THEN "use" ELSE pc[v]]
      BY <3>2 DEF Returned
    <3>5. t \notin ReadsLetGo(m0) \cup PrewriteLetGo(m0)
      BY <3>3 DEF LetGo
    <3>6. pc[t] = "commit" /\ pc'[t] = "commit"
      BY <1>4, <2>4, <3>4, <3>5
    <3>7. row_cnt[t] \in Nat /\ row_cnt'[t] = i - 1 /\ DOMAIN query[t] = 1..Len(query[t])
          /\ Len(query[t]) \in Nat
      BY <1>1, <3>4, QueryFacts DEF TypeOK
    <3>8. PICK j \in DOMAIN query[t] : query[t][j] = [row |-> r, type |-> "WR"] /\ j <= i - 1
      BY <1>4, <2>4, <3>4, <3>6, <3>7 DEF Reserves
    <3>9. j <= row_cnt[t]
      BY <3>4, <3>7, <3>8
    <3>10. Reserves(t, r)
      BY <3>8, <3>9 DEF Reserves
    <3>11. ts[t] \in Written(committed, r)
      BY <3>6, <3>10 DEF VersionInv
    <3> QED  BY <2>1, <2>4, <3>4, <3>11
  <2>5. CASE u = t /\ ~ Commit(t) /\ ~ ReturnRow(t)
    <3>1. pc'[t] # "commit"
      BY <1>1, <2>5 DEF Step, Start, AddTs, ReadAbort, ReadWait, ReadLatest, ReadVersion,
         PrewriteAbort, PrewriteWait, Prewrite, Use, Finish, Goto, TypeOK
    <3> QED  BY <1>4, <2>5, <3>1
  <2> QED  BY <2>2, <2>3, <2>4, <2>5
<1>5. PICK N, D : N = mvcc' /\ D = committed'
  OBVIOUS
<1>6. \A r \in Rows : RowVersions(N[r], Written(D, r))
  BY <1>3, <1>5
<1> QED  BY <1>4, <1>5, <1>6 DEF VersionInv


----------------------------------------------------------------------------
(* What is read is the version before the reader.                          *)

\* A reader of the latest version or of an older one does not have the reserved buffer.
LEMMA ReservedApart ==
    ASSUME NEW m, GoodRow(m), ExistsPrewrite(m)
    PROVE  /\ m.base # ReservedBuf(m) /\ m.latest # ReservedBuf(m)
           /\ \A i \in Valid(m) : m.hist[i].buf # ReservedBuf(m)
<1>1. VersionsInOrder(m) /\ BuffersApart(m) /\ ReservationKnown(m)
  BY DEF GoodRow
<1>2. m.prewrite_id \in Bufs(m) /\ ~ m.hist[m.prewrite_id].valid
  BY <1>1 DEF ReservationKnown
<1>3. m.base # ReservedBuf(m)
  BY <1>1, <1>2 DEF BuffersApart, ReservedBuf
<1>4. ASSUME NEW i \in Valid(m) PROVE m.hist[i].buf # ReservedBuf(m)
  <2>1. i \in Bufs(m) /\ i # m.prewrite_id
    BY <1>1, <1>2 DEF BuffersApart, Valid
  <2> QED  BY <1>1, <1>2, <2>1 DEF BuffersApart, ReservedBuf
<1>5. m.latest # ReservedBuf(m)
  BY <1>1, <1>3, <1>4 DEF VersionsInOrder
<1> QED  BY <1>3, <1>4, <1>5

\* The latest version is the one before at when the reservation is not.
LEMMA LatestReadOK ==
    ASSUME NEW M, NEW C, NEW r, GoodRow(M[r]), RowVersions(M[r], Written(C, r)),
           \A w \in Written(C, r) : w \in Nat /\ w # NoTs,
           NEW at \in Nat, M[r].latest_wts < at, Served(M[r], at),
           ExistsPrewrite(M[r]) => at <= M[r].prewrite_ts
    PROVE  ReadOK(M, C, r, at, M[r].latest_wts)
<1> DEFINE m == M[r]
           W == Written(C, r)
<1>1. m \in RowRecord /\ VersionsInOrder(m)
  BY DEF GoodRow
<1>2. /\ m.latest_wts \in Nat /\ m.oldest_wts \in Nat /\ m.prewrite_ts \in Nat
      /\ \A i \in Valid(m) : m.hist[i].ts \in Nat
  BY <1>1, RowTypes DEF Valid
<1>3. m.oldest_wts <= m.latest_wts
  BY <1>1, <1>2 DEF VersionsInOrder
<1> HIDE DEF W
<1>4. RowVersions(m, W) /\ \A w \in W : w \in Nat /\ w # NoTs
  BY DEF W
<1>5. m.latest_wts \in W \cup {0}
  <2>1. CASE Valid(m) = {}
    BY <1>1, <1>4, <2>1 DEF VersionsInOrder, RowVersions
  <2>2. CASE Valid(m) # {}
    BY <1>1, <1>4, <2>2 DEF VersionsInOrder, RowVersions
  <2> QED  BY <2>1, <2>2
<1>6. ASSUME NEW w \in W PROVE w <= m.latest_wts \/ at <= w
  <2>1. CASE w <= m.oldest_wts
    BY <1>2, <1>3, <1>4, <2>1
  <2>2. CASE \E i \in Valid(m) : m.hist[i].ts = w
    BY <1>1, <2>2 DEF VersionsInOrder
  <2>3. CASE w = m.prewrite_ts
    BY <1>4, <2>3 DEF ExistsPrewrite
  <2> QED  BY <1>4, <2>1, <2>2, <2>3 DEF RowVersions
<1> QED  BY <1>5, <1>6 DEF ReadOK, W

\* The search finds the version before at, as long as the_ts is wide enough.
LEMMA VersionReadOK ==
    ASSUME NEW M, NEW C, NEW r, GoodRow(M[r]), RowVersions(M[r], Written(C, r)),
           \A w \in Written(C, r) : w \in Nat /\ w # NoTs /\ w < TsWrap,
           NEW at \in Nat, at > 0, at \notin Written(C, r),
           M[r].oldest_wts <= at, at <= M[r].latest_wts
    PROVE  LET b == VersionFor(M[r], at)
           IN  /\ ReadOK(M, C, r, at, M[r].data[b])
               /\ ExistsPrewrite(M[r]) => b # ReservedBuf(M[r])
<1> DEFINE m == M[r]
           W == Written(C, r)
           b == VersionFor(m, at)
           ver == m.data[b]
<1>1. m \in RowRecord /\ VersionsInOrder(m) /\ BuffersApart(m) /\ ReservationKnown(m)
  BY DEF GoodRow
<1>2. /\ m.latest_wts \in Nat /\ m.oldest_wts \in Nat /\ m.prewrite_ts \in Nat
      /\ \A i \in Valid(m) : m.hist[i].ts \in Nat
  BY <1>1, RowTypes DEF Valid
<1> HIDE DEF W
<1>3. RowVersions(m, W) /\ \A w \in W : w \in Nat /\ w # NoTs /\ w < TsWrap
  BY DEF W
<1>4. at \notin W
  BY DEF W
<1>5. \A i \in Valid(m) : m.hist[i].ts < TsWrap
  BY <1>3 DEF RowVersions
<1>6. /\ b = m.base \/ \E i \in Valid(m) : b = m.hist[i].buf /\ m.hist[i].ts < at
      /\ \A i \in Valid(m) : m.hist[i].ts < at => m.hist[i].ts <= ver
  BY <1>5, VersionForFacts
<1> HIDE DEF b
<1>7. \/ b = m.base /\ ver = m.oldest_wts
      \/ \E i \in Valid(m) : b = m.hist[i].buf /\ m.hist[i].ts < at /\ ver = m.hist[i].ts
  BY <1>1, <1>6 DEF BuffersApart
<1> HIDE DEF ver
<1>8. ver \in Nat /\ ver < at /\ m.oldest_wts <= ver /\ ver \in W \cup {0}
  <2>1. CASE ver = m.oldest_wts
    <3>1. m.oldest_wts \in W \cup {0}
      BY <1>3 DEF RowVersions
    <3>2. m.oldest_wts # at
      BY <1>4, <3>1
    <3> QED  BY <1>2, <2>1, <3>1, <3>2
  <2>2. CASE \E i \in Valid(m) : m.hist[i].ts < at /\ ver = m.hist[i].ts
    BY <1>1, <1>2, <1>3, <2>2 DEF RowVersions, VersionsInOrder
  <2> QED  BY <1>7, <2>1, <2>2
<1>9. ExistsPrewrite(m) => at <= m.prewrite_ts
  BY <1>1, <1>2 DEF ReservationKnown
<1>10. ASSUME NEW w \in W PROVE w <= ver \/ at <= w
  <2>1. CASE w <= m.oldest_wts
    <3>1. w \in Nat /\ m.oldest_wts \in Nat
      BY <1>2, <1>3
    <3> QED  BY <1>8, <2>1, <3>1
  <2>2. CASE \E i \in Valid(m) : m.hist[i].ts = w
    BY <1>2, <1>6, <2>2
  <2>3. CASE w = m.prewrite_ts
    BY <1>3, <1>9, <2>3 DEF ExistsPrewrite
  <2> QED  BY <1>3, <2>1, <2>2, <2>3 DEF RowVersions
<1>11. ReadOK(M, C, r, at, ver)
  BY <1>8, <1>9, <1>10 DEF ReadOK, Served, W
<1>12. ExistsPrewrite(m) => b # ReservedBuf(m)
  BY <1>7, ReservedApart
<1> QED  BY <1>11, <1>12 DEF ver, b

\* A buffer that another transaction has yet to look at keeps its version, or the
\* transaction is known to have lost it.
LEMMA BufferKept ==
    ASSUME HInv, SeenInv, NEW t \in Threads, Step(t), NEW u \in Threads, u # t, ~ lost'[u]
    PROVE  /\ ~ lost[u]
           /\ pc[u] = "use" =>
                LET m == mvcc[Req(u).row]
                    n == mvcc'[Req(u).row]
                    b == Last(held[u])
                IN  /\ n.data[b] = m.data[b]
                    /\ Req(u).type = "RD" /\ ExistsPrewrite(n) => b # ReservedBuf(n)
<1>1. TypeOK /\ TxnInv /\ mvcc \in [Rows -> RowRecord] /\ lost \in [Threads -> BOOLEAN]
  BY DEF HInv, TypeOK
<1>2. ~ lost[u]
  <2>1. CASE lost'[u] = lost[u]
    BY <2>1
  <2>2. CASE \E r \in Rows, n \in RowRecord : Changed(t, r, n)
    <3>1. PICK r \in Rows, n \in RowRecord : Changed(t, r, n)
      BY <2>2
    <3> QED  BY <3>1 DEF Changed, Returned
  <2> QED  BY <2>1, <2>2, StepChange
<1>3. ASSUME pc[u] = "use"
      PROVE  LET m == mvcc[Req(u).row]
                 n == mvcc'[Req(u).row]
                 b == Last(held[u])
             IN  /\ n.data[b] = m.data[b]
                 /\ Req(u).type = "RD" /\ ExistsPrewrite(n) => b # ReservedBuf(n)
  <2>1. row_cnt[u] < Len(query[u])
    BY <1>1, <1>3 DEF TxnInv, TxnOK
  <2>2. PICK q \in Rows : q = Req(u).row
    BY <1>1, <2>1, ReqFacts
  <2>3. /\ Req(u).type \in {"RD", "WR"} /\ row_cnt[u] + 1 \in DOMAIN query[u]
        /\ Req(u) = query[u][row_cnt[u] + 1] /\ Req(u) = [row |-> q, type |-> Req(u).type]
    BY <1>1, <2>1, <2>2, ReqFacts
  <2> DEFINE m == mvcc[q]
             b == Last(held[u])
  <2>4. Req(u).type = "RD" /\ ExistsPrewrite(m) => b # ReservedBuf(m)
    BY <1>2, <1>3, <2>2 DEF SeenInv, SeenOK, BufferOK
  <2>5. b \in DOMAIN m.data
    BY <1>3, <2>2 DEF HInv, ThreadInv, HeldKnown
  <2>6. Req(u).type = "WR" => m.prewrite_ts = ts[u] /\ ExistsPrewrite(m) /\ ts[u] # ts[t]
    <3>1. ASSUME Req(u).type = "WR" PROVE Reserves(u, q)
      BY <1>3, <2>3, <3>1 DEF Reserves
    <3> QED  BY <3>1, ReserverFacts
  <2>7. ASSUME NEW n \in RowRecord, Changed(t, q, n)
        PROVE  n.data[b] = m.data[b] /\ (Req(u).type = "RD" /\ ExistsPrewrite(n) => b # ReservedBuf(n))
    <3>1. CASE Requeued(m, n)
      BY <2>4, <3>1 DEF Requeued, ReservedBuf, ExistsPrewrite
    <3>2. CASE /\ ReservedOf(m, n, ts[t]) /\ ~ ExistsPrewrite(m)
               /\ lost' = [v \in Threads |-> lost[v] \/ v \in Overwritten(q, ReservedBuf(n))]
      <4>1. Req(u).type = "RD"
        BY <2>3, <2>6, <3>2
      <4>2. u \notin Overwritten(q, ReservedBuf(n))
        BY <3>2
      <4>3. b # ReservedBuf(n)
        BY <1>3, <2>3, <4>1, <4>2 DEF Overwritten
      <4> QED  BY <2>5, <3>2, <4>3 DEF ReservedOf
    <3>3. CASE Use(t) /\ Used(t, m, n)
      <4>1. ReservedBuf(n) = ReservedBuf(m) /\ (ExistsPrewrite(n) <=> ExistsPrewrite(m))
        BY <3>3 DEF Used, ExistsPrewrite
      <4>2. CASE n.data = m.data
        BY <2>4, <4>1, <4>2
      <4>3. CASE n.data # m.data
        <5>1. /\ m.prewrite_ts = ts[t] /\ ExistsPrewrite(m)
              /\ \A x \in DOMAIN m.data : x # ReservedBuf(m) => n.data[x] = m.data[x]
          <6>1. Req(t).type \in {"RD", "WR"}
            <7>1. pc[t] = "use" /\ row_cnt[t] < Len(query[t])
              BY <1>1, <3>3 DEF Use, TxnInv, TxnOK
            <7> QED  BY <1>1, <7>1, ReqFacts
          <6> QED  BY <3>3, <4>3, <6>1 DEF Used
        <5>2. Req(u).type = "RD"
          BY <2>3, <2>6, <5>1
        <5> QED  BY <2>4, <2>5, <4>1, <5>1, <5>2
      <4> QED  BY <4>2, <4>3
    <3>4. CASE \E i, m0 : Returned(t, i, q, m0, n)
      <4>1. PICK i, m0 : Returned(t, i, q, m0, n)
        BY <3>4
      <4>2. /\ Ended(m, m0) /\ HandedOver(m0, n) /\ m.prewrite_ts = ts[t]
            /\ lost' = [v \in Threads |->
                          lost[v] \/ (PrewriteLetGo(m0) # {} /\ v \in Overwritten(q, ReservedBuf(n)))]
        BY <4>1 DEF Returned
      <4>3. Req(u).type = "RD" /\ m0.data = m.data
        BY <2>3, <2>6, <4>2 DEF Ended
      <4>4. CASE PrewriteLetGo(m0) = {}
        BY <4>2, <4>3, <4>4 DEF HandedOver
      <4>5. CASE PrewriteLetGo(m0) # {}
        <5>1. u \notin Overwritten(q, ReservedBuf(n))
          BY <4>2, <4>5
        <5>2. b # ReservedBuf(n)
          BY <1>3, <2>3, <4>3, <5>1 DEF Overwritten
        <5> QED  BY <2>5, <4>2, <4>3, <4>5, <5>2 DEF HandedOver
      <4> QED  BY <4>4, <4>5
    <3> QED  BY <2>7, <3>1, <3>2, <3>3, <3>4 DEF Changed
  <2>8. CASE mvcc'[q] = mvcc[q]
    BY <2>2, <2>4, <2>8
  <2>9. CASE mvcc'[q] # mvcc[q]
    <3>1. PICK r \in Rows, n \in RowRecord : Changed(t, r, n)
      BY <2>9, StepChange
    <3>2. mvcc'[r] = n /\ \A p \in Rows : p # r => mvcc'[p] = mvcc[p]
      BY <1>1, <3>1 DEF Changed
    <3>3. r = q
      BY <2>9, <3>2
    <3> QED  BY <2>2, <2>7, <3>1, <3>2, <3>3
  <2> QED  BY <2>8, <2>9
<1> QED  BY <1>2, <1>3


\* What a transaction has seen stays right in a step of any.
LEMMA EntriesStay ==
    ASSUME HInv, HInv', SeenInv, NEW t \in Threads, Step(t),
           NEW u \in Threads, pc[u] \in {"access", "wait", "use"}, ~ lost[u]
    PROVE  /\ EntriesOK(mvcc', committed', query[u], ts[u], row_cnt[u], seen[u])
           /\ pc[u] = "use" =>
                ReadOK(mvcc', committed', Req(u).row, ts[u], mvcc[Req(u).row].data[Last(held[u])])
<1>1. TypeOK /\ TxnInv /\ TxnOK(u) /\ SeenOK(u)
  BY DEF HInv, TxnInv, SeenInv
<1>2. ts[u] \in Nat /\ ts[u] < NoTs /\ ts[u] > 0
  BY <1>1, TsBelow DEF TxnOK
<1>3. pc[t] = "abort" => ts[u] # ts[t]
  BY <1>1, <1>2 DEF TxnInv
<1>4. ASSUME NEW i \in 1..row_cnt[u]
      PROVE  ReadOK(mvcc', committed', query[u][i].row, ts[u], seen[u][i])
  <2>1. i \in DOMAIN query[u]
    BY <1>1, QueryFacts
  <2>2. query[u][i].row \in Rows
    BY <1>1, <2>1, QueryFacts
  <2>3. ReadOK(mvcc, committed, query[u][i].row, ts[u], seen[u][i])
    BY <1>1 DEF SeenOK, EntriesOK
  <2> QED  BY <1>2, <1>3, <2>2, <2>3, ReadStays
<1>5. ASSUME pc[u] = "use"
      PROVE  ReadOK(mvcc', committed', Req(u).row, ts[u], mvcc[Req(u).row].data[Last(held[u])])
  <2>1. Req(u).row \in Rows
    BY <1>1, <1>5, ReqFacts DEF TxnOK
  <2>2. ReadOK(mvcc, committed, Req(u).row, ts[u], mvcc[Req(u).row].data[Last(held[u])])
    BY <1>1, <1>5 DEF SeenOK, BufferOK
  <2> QED  BY <1>2, <1>3, <2>1, <2>2, ReadStays
<1> QED  BY <1>4, <1>5 DEF EntriesOK

\* Those a step of t leaves alone.
LEMMA OthersSeen ==
    ASSUME HInv, HInv', SeenInv, NEW t \in Threads, Step(t), NEW u \in Threads, u # t, SameTxn(u)
    PROVE  SeenOK(u)'
<1> SUFFICES ASSUME pc[u] \in {"access", "wait", "use"}, ~ lost'[u]
             PROVE  /\ EntriesOK(mvcc', committed', query[u], ts[u], row_cnt[u], seen[u])
                    /\ pc[u] = "use" => BufferOK(mvcc', committed', Req(u), ts[u], Last(held[u]))
  <2>1. Req(u)' = Req(u)
    BY DEF SameTxn, Req
  <2> QED  BY <2>1 DEF SeenOK, SameTxn
<1>1. ~ lost[u]
  BY BufferKept
<1>2. EntriesOK(mvcc', committed', query[u], ts[u], row_cnt[u], seen[u])
  BY <1>1, EntriesStay
<1>3. ASSUME pc[u] = "use" PROVE BufferOK(mvcc', committed', Req(u), ts[u], Last(held[u]))
  <2>1. ReadOK(mvcc', committed', Req(u).row, ts[u], mvcc[Req(u).row].data[Last(held[u])])
    BY <1>1, <1>3, EntriesStay
  <2>2. /\ mvcc'[Req(u).row].data[Last(held[u])] = mvcc[Req(u).row].data[Last(held[u])]
        /\ Req(u).type = "RD" /\ ExistsPrewrite(mvcc'[Req(u).row])
              => Last(held[u]) # ReservedBuf(mvcc'[Req(u).row])
    BY <1>3, BufferKept
  <2> QED  BY <2>1, <2>2 DEF BufferOK
<1> QED  BY <1>2, <1>3

\* A transaction given the latest version, or a copy of it.
LEMMA LatestGiven ==
    ASSUME HInv, CommitInv, VersionInv', committed' = committed, NEW u \in Threads,
           NEW req, NEW b, req.row \in Rows, GoodRow(mvcc'[req.row]),
           mvcc'[req.row].latest_wts < ts[u], Served(mvcc'[req.row], ts[u]),
           ExistsPrewrite(mvcc'[req.row]) => ts[u] <= mvcc'[req.row].prewrite_ts,
           mvcc'[req.row].data[b] = mvcc'[req.row].latest_wts,
           req.type = "RD" => b = mvcc'[req.row].latest
    PROVE  BufferOK(mvcc', committed', req, ts[u], b)
<1>1. PICK N, C : N = mvcc' /\ C = committed'
  OBVIOUS
<1>2. PICK r \in Rows : r = req.row
  OBVIOUS
<1>3. RowVersions(N[r], Written(C, r))
  BY <1>1 DEF VersionInv
<1>4. \A w \in Written(C, r) : w \in Nat /\ w # NoTs
  BY <1>1, WrittenFacts
<1>5. ts[u] \in Nat
  BY DEF HInv, TypeOK
<1>6. ReadOK(N, C, r, ts[u], N[r].latest_wts)
  BY <1>1, <1>2, <1>3, <1>4, <1>5, LatestReadOK
<1>7. req.type = "RD" /\ ExistsPrewrite(N[r]) => b # ReservedBuf(N[r])
  BY <1>1, <1>2, ReservedApart
<1> QED  BY <1>1, <1>2, <1>6, <1>7 DEF BufferOK

\* A transaction that goes on with its first rows as they are.
LEMMA OwnSeen ==
    ASSUME HInv, HInv', SeenInv, NEW t \in Threads, Step(t), NEW u \in Threads,
           pc[u] \in {"access", "wait"}, pc'[u] \in {"wait", "use"}, ~ lost'[u] => ~ lost[u],
           query' = query, ts' = ts, row_cnt'[u] = row_cnt[u], seen' = seen,
           pc'[u] = "use" /\ ~ lost'[u] => BufferOK(mvcc', committed', Req(u), ts[u], Last(held'[u]))
    PROVE  SeenOK(u)'
<1>1. Req(u)' = Req(u)
  BY DEF Req
<1>2. ~ lost'[u] => EntriesOK(mvcc', committed', query[u], ts[u], row_cnt[u], seen[u])
  BY EntriesStay
<1> QED  BY <1>1, <1>2 DEF SeenOK


\* The buffer just given is the last.
LEMMA LastGiven ==
    ASSUME TypeOK, NEW u \in Threads, NEW b, held'[u] = Append(held[u], b)
    PROVE  Last(held'[u]) = b
<1>1. held[u] \in Seq(Nat) /\ Len(held[u]) \in Nat
  BY DEF TypeOK
<1>2. Len(Append(held[u], b)) = Len(held[u]) + 1 /\ Append(held[u], b)[Len(held[u]) + 1] = b
  BY <1>1
<1> QED  BY <1>2 DEF Last

LEMMA ReadVersionSeen ==
    ASSUME HInv, HInv', CommitInv, VersionInv, SeenInv, MaxTxn < TsWrap, NEW t \in Threads, ReadVersion(t)
    PROVE  SeenOK(t)'
<1>1. TypeOK /\ TxnInv /\ pc[t] = "access" /\ row_cnt[t] < Len(query[t]) /\ RowsGood
  BY DEF HInv, ReadVersion, AtRow
<1>2. PICK r \in Rows : r = Req(t).row
  BY <1>1, NewRow
<1>3. PICK b : b = VersionFor(mvcc[r], ts[t])
  OBVIOUS
<1>4. /\ mvcc[r].oldest_wts <= ts[t] /\ ts[t] <= mvcc[r].latest_wts /\ Give({t}, b)
      /\ pc' = [pc EXCEPT ![t] = "use"] /\ mvcc' = mvcc /\ committed' = committed
      /\ query' = query /\ ts' = ts /\ row_cnt' = row_cnt /\ seen' = seen /\ lost' = lost
  BY <1>2, <1>3 DEF ReadVersion, Goto
<1>5. ts[t] \in Nat /\ ts[t] > 0 /\ GoodRow(mvcc[r])
  BY <1>1, <1>2, NewRow
<1>6. \A w \in Written(committed, r) : w \in Nat /\ w # NoTs /\ w < TsWrap
  <2>1. \A w \in Written(committed, r) : w \in Nat /\ w # NoTs /\ w <= MaxTxn
    BY WrittenFacts
  <2> QED  BY <2>1, MvccAssumption
<1>7. ts[t] \notin Written(committed, r)
  BY <1>1, WrittenFacts
<1>8. RowVersions(mvcc[r], Written(committed, r))
  BY DEF VersionInv
<1>9. /\ ReadOK(mvcc, committed, r, ts[t], mvcc[r].data[b])
      /\ ExistsPrewrite(mvcc[r]) => b # ReservedBuf(mvcc[r])
  BY <1>3, <1>4, <1>5, <1>6, <1>7, <1>8, VersionReadOK
<1>10. Last(held'[t]) = b /\ pc'[t] = "use"
  <2>1. held'[t] = Append(held[t], b)
    BY <1>1, <1>4 DEF Give, TypeOK
  <2>2. Last(held'[t]) = b
    BY <1>1, <2>1, LastGiven
  <2> QED  BY <1>1, <1>4, <2>2 DEF TypeOK
<1>11. BufferOK(mvcc', committed', Req(t), ts[t], Last(held'[t]))
  BY <1>2, <1>4, <1>9, <1>10 DEF BufferOK
<1>12. Step(t)
  BY DEF Step
<1> QED  BY <1>1, <1>4, <1>10, <1>11, <1>12, OwnSeen

LEMMA ReadLatestSeen ==
    ASSUME HInv, HInv', CommitInv, VersionInv', SeenInv, NEW t \in Threads, ReadLatest(t)
    PROVE  SeenOK(t)'
<1>1. TypeOK /\ pc[t] = "access" /\ row_cnt[t] < Len(query[t]) /\ mvcc \in [Rows -> RowRecord]
  BY DEF HInv, ReadLatest, AtRow, TypeOK
<1>2. PICK r \in Rows : r = Req(t).row
  BY <1>1, NewRow
<1>3. PICK b : b = mvcc[r].latest
  OBVIOUS
<1>4. /\ ts[t] > mvcc[r].latest_wts /\ ts[t] <= mvcc[r].prewrite_ts /\ Give({t}, b)
      /\ pc' = [pc EXCEPT ![t] = "use"] /\ committed' = committed
      /\ query' = query /\ ts' = ts /\ row_cnt' = row_cnt /\ seen' = seen /\ lost' = lost
  BY <1>2, <1>3 DEF ReadLatest, Goto
<1>5. PICK n \in RowRecord : /\ mvcc' = [mvcc EXCEPT ![r] = n] /\ Requeued(mvcc[r], n)
                             /\ ts[t] <= n.max_served_rts
  BY <1>2, ReadLatestFacts
<1>6. GoodRow(n) /\ mvcc'[r] = n /\ ts[t] \in Nat /\ mvcc[r].latest_wts \in Nat
  <2>1. GoodRow(n)
    BY <1>5, RequeuedKept
  <2>2. ts[t] \in Nat /\ mvcc[r] \in RowRecord
    BY <1>1 DEF TypeOK
  <2>3. mvcc[r].latest_wts \in Nat
    BY <2>2, RowTypes
  <2> QED  BY <1>1, <1>5, <2>1, <2>2, <2>3
<1>7. n.latest = b /\ n.latest_wts < ts[t] /\ ts[t] <= n.prewrite_ts
  BY <1>3, <1>4, <1>5, <1>6 DEF Requeued
<1>8. n.data[b] = n.latest_wts
  BY <1>6, <1>7, LatestData
<1>9. held'[t] = Append(held[t], b) /\ pc'[t] = "use"
  BY <1>1, <1>4 DEF Give, TypeOK
<1>10. Last(held'[t]) = b
  BY <1>1, <1>9, LastGiven
<1>11. Served(n, ts[t])
  BY <1>5 DEF Served
<1>12. BufferOK(mvcc', committed', Req(t), ts[t], b)
  <2>1. PICK req : req = Req(t)
    OBVIOUS
  <2> QED  BY <1>2, <1>4, <1>6, <1>7, <1>8, <1>11, <2>1, LatestGiven
<1>13. Step(t)
  BY DEF Step
<1> QED  BY <1>1, <1>4, <1>9, <1>10, <1>12, <1>13, OwnSeen

LEMMA PrewriteSeen ==
    ASSUME HInv, HInv', CommitInv, VersionInv', SeenInv, NEW t \in Threads, Prewrite(t)
    PROVE  SeenOK(t)'
<1>1. TypeOK /\ pc[t] = "access" /\ row_cnt[t] < Len(query[t]) /\ mvcc \in [Rows -> RowRecord]
  BY DEF HInv, Prewrite, AtRow, TypeOK
<1>2. PICK r \in Rows : r = Req(t).row
  BY <1>1, NewRow
<1>3. PICK n : Prewritten(t, r, n)
  BY <1>2, PrewriteFacts
<1>4. /\ pc' = [pc EXCEPT ![t] = "use"] /\ committed' = committed /\ Req(t).type = "WR"
      /\ query' = query /\ ts' = ts /\ row_cnt' = row_cnt /\ seen' = seen
  BY DEF Prewrite, Goto, AtRow
<1>5. /\ GoodRow(n) /\ n.latest_wts < ts[t] /\ n.prewrite_ts = ts[t] /\ mvcc'[r] = n
      /\ n.data[ReservedBuf(n)] = n.latest_wts
  BY <1>1, <1>3 DEF Prewritten, ReservedOf, Keeps
<1>6. PICK b : b = ReservedBuf(n)
  OBVIOUS
<1>7. held'[t] = Append(held[t], b) /\ pc'[t] = "use" /\ (~ lost'[t] => ~ lost[t])
  BY <1>1, <1>3, <1>4, <1>6 DEF Prewritten, Give, TypeOK
<1>8. Last(held'[t]) = b
  BY <1>1, <1>7, LastGiven
<1>9. Served(n, ts[t]) /\ ts[t] <= n.prewrite_ts
  <2>1. ts[t] \in Nat
    BY <1>1 DEF TypeOK
  <2> QED  BY <1>5, <2>1 DEF Served
<1>10. BufferOK(mvcc', committed', Req(t), ts[t], b)
  <2>1. PICK req : req = Req(t)
    OBVIOUS
  <2>2. req.type # "RD"
    BY <1>4, <2>1
  <2> QED  BY <1>2, <1>4, <1>5, <1>6, <1>9, <2>1, <2>2, LatestGiven
<1>11. Step(t)
  BY DEF Step
<1> QED  BY <1>1, <1>4, <1>7, <1>8, <1>10, <1>11, OwnSeen

LEMMA UseSeen ==
    ASSUME HInv, HInv', SeenInv, NEW t \in Threads, Use(t)
    PROVE  SeenOK(t)'
<1>1. TypeOK /\ TxnInv /\ pc[t] = "use" /\ TxnOK(t) /\ Step(t)
  BY DEF HInv, TxnInv, Use, Step
<1>2. PICK v : v = mvcc[Req(t).row].data[Last(held[t])]
  OBVIOUS
<1>3. /\ pc' = [pc EXCEPT ![t] = "access"] /\ seen' = [seen EXCEPT ![t] = Append(@, v)]
      /\ query' = query /\ ts' = ts /\ row_cnt' = [row_cnt EXCEPT ![t] = @ + 1] /\ lost' = lost
  BY <1>2 DEF Use, Goto
<1>4. /\ pc'[t] = "access" /\ seen'[t] = Append(seen[t], v) /\ row_cnt'[t] = row_cnt[t] + 1
      /\ seen[t] \in Seq(Nat) /\ row_cnt[t] \in Nat /\ Len(seen[t]) = row_cnt[t]
  BY <1>1, <1>3 DEF TypeOK, TxnOK
<1> SUFFICES ASSUME ~ lost[t]
             PROVE  EntriesOK(mvcc', committed', query[t], ts[t], row_cnt'[t], seen'[t])
  BY <1>3, <1>4 DEF SeenOK
<1>5. /\ EntriesOK(mvcc', committed', query[t], ts[t], row_cnt[t], seen[t])
      /\ ReadOK(mvcc', committed', Req(t).row, ts[t], v)
  BY <1>1, <1>2, EntriesStay
<1>6. ASSUME NEW i \in 1..(row_cnt[t] + 1)
      PROVE  ReadOK(mvcc', committed', query[t][i].row, ts[t], seen'[t][i])
  <2>1. CASE i = row_cnt[t] + 1
    <3>1. seen'[t][i] = v /\ query[t][i] = Req(t)
      BY <1>4, <2>1 DEF Req
    <3> QED  BY <1>5, <3>1
  <2>2. CASE i # row_cnt[t] + 1
    <3>1. i \in 1..row_cnt[t]
      BY <1>4, <2>2
    <3>2. seen'[t][i] = seen[t][i]
      BY <1>4, <3>1
    <3> QED  BY <1>5, <3>1, <3>2 DEF EntriesOK
  <2> QED  BY <2>1, <2>2
<1> QED  BY <1>4, <1>6 DEF EntriesOK

\* Those that the end of a reservation lets go.
LEMMA LetGoSeen ==
    ASSUME HInv, HInv', CommitInv, VersionInv', SeenInv, NEW t \in Threads, ReturnRow(t),
           NEW u \in Threads, u # t, ~ SameTxn(u)
    PROVE  SeenOK(u)'
<1>1. TypeOK /\ TxnInv /\ TxnOK(u) /\ mvcc \in [Rows -> RowRecord] /\ Step(t)
  BY DEF HInv, TxnInv, Step, TypeOK
<1>2. PICK i, m0, n : \E q \in Rows : Returned(t, i, q, m0, n)
  BY ReturnFacts
<1>3. PICK r \in Rows : Returned(t, i, r, m0, n)
  BY <1>2
<1>4. LetGo(t, r, m0, n)
  BY <1>3, LetGoThreads
<1> DEFINE R == ReadsLetGo(m0)
           P == PrewriteLetGo(m0)
<1>5. /\ mvcc' = [mvcc EXCEPT ![r] = n] /\ HandedOver(m0, n) /\ QueueApart(m0)
      /\ query' = query /\ ts' = ts /\ seen' = seen /\ committed' = committed
      /\ row_cnt' = [row_cnt EXCEPT ![t] = i - 1]
      /\ lost' = [v \in Threads |-> lost[v] \/ (P # {} /\ v \in Overwritten(r, ReservedBuf(n)))]
  BY <1>3 DEF Returned
<1>6. mvcc'[r] = n /\ GoodRow(n) /\ n.latest = m0.latest /\ row_cnt'[u] = row_cnt[u]
      /\ (~ lost'[u] => ~ lost[u])
  BY <1>1, <1>5 DEF HandedOver, Ages, TypeOK
<1>7. /\ u \in R \cup P /\ pc[u] = "wait" /\ pc'[u] = "use" /\ Req(u).row = r
      /\ n.latest_wts < ts[u] /\ ts[u] \in Nat
  BY <1>4 DEF LetGo
<1>8. PICK req : req = Req(u)
  OBVIOUS
<1>9. CASE u \in R
  <2>1. /\ req.type = "RD" /\ held'[u] = Append(held[u], n.latest) /\ ts[u] <= n.max_served_rts
    BY <1>4, <1>6, <1>8, <1>9 DEF LetGo
  <2>2. ExistsPrewrite(n) => ts[u] <= n.prewrite_ts
    <3>1. ExistsPrewrite(n) => n.prewrite_ts = NextPrewrite(m0)
      BY <1>5 DEF HandedOver
    <3>2. ts[u] < NextPrewrite(m0) /\ NextPrewrite(m0) \in Nat
      BY <1>4, <1>5, <1>9, LetGoFacts DEF LetGo
    <3> QED  BY <1>7, <3>1, <3>2
  <2>3. n.data[n.latest] = n.latest_wts
    BY <1>6, LatestData
  <2>4. Served(n, ts[u])
    BY <2>1 DEF Served
  <2>5. PICK b : b = n.latest
    OBVIOUS
  <2>6. BufferOK(mvcc', committed', req, ts[u], b)
    BY <1>5, <1>6, <1>7, <1>8, <2>2, <2>3, <2>4, <2>5, LatestGiven
  <2>7. Last(held'[u]) = b
    BY <1>1, <2>1, <2>5, LastGiven
  <2> QED  BY <1>1, <1>5, <1>6, <1>7, <1>8, <2>6, <2>7, OwnSeen
<1>10. CASE u \in P
  <2>1. /\ req.type = "WR" /\ held'[u] = Append(held[u], ReservedBuf(n)) /\ ts[u] = n.prewrite_ts
    BY <1>4, <1>8, <1>10 DEF LetGo
  <2>2. n.data[ReservedBuf(n)] = n.latest_wts
    BY <1>5, <1>10 DEF HandedOver
  <2>3. Served(n, ts[u]) /\ ts[u] <= n.prewrite_ts
    BY <1>7, <2>1 DEF Served
  <2>4. PICK b : b = ReservedBuf(n)
    OBVIOUS
  <2>5. BufferOK(mvcc', committed', req, ts[u], b)
    BY <1>5, <1>6, <1>7, <1>8, <2>1, <2>2, <2>3, <2>4, LatestGiven
  <2>6. Last(held'[u]) = b
    BY <1>1, <2>1, <2>4, LastGiven
  <2> QED  BY <1>1, <1>5, <1>6, <1>7, <1>8, <2>5, <2>6, OwnSeen
<1> QED  BY <1>7, <1>9, <1>10

LEMMA SeenInvKept ==
    ASSUME HInv, HInv', CommitInv, VersionInv, VersionInv', SeenInv, MaxTxn < TsWrap,
           NEW t \in Threads, Step(t)
    PROVE  SeenInv'
<1>1. TypeOK /\ TxnInv
  BY DEF HInv
<1>2. ASSUME NEW u \in Threads, u # t PROVE SeenOK(u)'
  <2>1. CASE SameTxn(u)
    BY <1>2, <2>1, OthersSeen
  <2>2. CASE ~ SameTxn(u)
    <3>1. ReturnRow(t)
      BY <1>2, <2>2, OthersSame
    <3> QED  BY <1>2, <2>2, <3>1, LetGoSeen
  <2> QED  BY <2>1, <2>2
<1>3. SeenOK(t)'
  <2>1. CASE Start(t) \/ ReadAbort(t) \/ PrewriteAbort(t) \/ Commit(t) \/ Finish(t)
    <3>1. pc'[t] \notin {"access", "wait", "use"}
      BY <1>1, <2>1 DEF Start, ReadAbort, PrewriteAbort, Commit, Finish, Goto, TypeOK
    <3> QED  BY <3>1 DEF SeenOK
  <2>2. CASE AddTs(t)
    <3>1. pc'[t] = "access" /\ row_cnt'[t] = 0
      BY <1>1, <2>2 DEF AddTs, Goto, TypeOK, txnVars, TxnInv, TxnOK
    <3>2. \A i \in 1..row_cnt'[t] : FALSE
      BY <3>1
    <3> QED  BY <3>1, <3>2 DEF SeenOK, EntriesOK
  <2>3. CASE ReadWait(t) \/ PrewriteWait(t)
    <3>1. /\ pc[t] = "access" /\ pc'[t] = "wait"
          /\ query' = query /\ ts' = ts /\ row_cnt' = row_cnt /\ seen' = seen /\ lost' = lost
      BY <1>1, <2>3 DEF ReadWait, PrewriteWait, AtRow, Goto, TypeOK, txnVars
    <3> QED  BY <3>1, OwnSeen
  <2>4. CASE ReturnRow(t)
    <3>1. PICK i, m0, n : \E q \in Rows : Returned(t, i, q, m0, n)
      BY <2>4, ReturnFacts
    <3>2. PICK q \in Rows : Returned(t, i, q, m0, n)
      BY <3>1
    <3>3. LetGo(t, q, m0, n)
      BY <3>2, LetGoThreads
    <3>4. t \notin ReadsLetGo(m0) \cup PrewriteLetGo(m0)
      BY <3>3 DEF LetGo
    <3>5. pc'[t] \in {"commit", "abort"}
      BY <3>2, <3>4 DEF Returned
    <3> QED  BY <3>5 DEF SeenOK
  <2> QED  BY <2>1, <2>2, <2>3, <2>4, ReadLatestSeen, ReadVersionSeen, PrewriteSeen, UseSeen DEF Step
<1> QED  BY <1>2, <1>3 DEF SeenInv


----------------------------------------------------------------------------
(* Serializability.                                                        *)

LEMMA CommittedInvKept ==
    ASSUME HInv, HInv', CommitInv, SeenInv, CommittedInv, NEW t \in Threads, Step(t)
    PROVE  CommittedInv'
<1>1. TypeOK /\ TxnInv
  BY DEF HInv
<1>2. ASSUME NEW c \in committed, ~ c.lost, NEW r \in DOMAIN c.reads
      PROVE  ReadOK(mvcc', committed', r, c.ts, c.reads[r])
  <2>1. c.ts \in Nat /\ c.ts < timestamp /\ r \in Rows /\ (pc[t] = "abort" => c.ts # ts[t])
    BY DEF CommitInv
  <2>2. c.ts < NoTs
    <3>1. timestamp \in Nat /\ timestamp <= MaxTxn + 1
      BY <1>1, MvccAssumption DEF TypeOK
    <3> QED  BY <2>1, <3>1, MvccAssumption
  <2>3. ReadOK(mvcc, committed, r, c.ts, c.reads[r])
    BY <1>2 DEF CommittedInv
  <2> QED  BY <2>1, <2>2, <2>3, ReadStays
<1>3. CASE ~ Commit(t)
  <2>1. committed' = committed
    BY <1>3 DEF Step, Start, AddTs, ReadAbort, ReadWait, ReadLatest, ReadVersion, PrewriteAbort,
                PrewriteWait, Prewrite, Use, ReturnRow, Finish
  <2>2. \A c \in committed' : c.lost \/ \A r \in DOMAIN c.reads : ReadOK(mvcc', committed', r, c.ts, c.reads[r])
    BY <1>2, <2>1
  <2> QED  BY <2>2 DEF CommittedInv
<1>4. CASE Commit(t)
  <2>1. PICK c : /\ c = [ts |-> ts[t], reads |-> ReadsOf(t), writes |-> WritesOf(t), lost |-> lost[t]]
                 /\ committed' = committed \cup {c}
    BY <1>4 DEF Commit
  <2>2. c.ts = ts[t] /\ c.reads = ReadsOf(t) /\ c.lost = lost[t]
    BY <2>1
  <2>3. pc[t] = "access" /\ row_cnt[t] = Len(query[t])
    BY <1>4 DEF Commit
  <2>4. ASSUME ~ lost[t], NEW r \in DOMAIN ReadsOf(t)
        PROVE  ReadOK(mvcc', committed', r, ts[t], ReadsOf(t)[r])
    <3>1. EntriesOK(mvcc', committed', query[t], ts[t], row_cnt[t], seen[t])
      BY <2>3, <2>4, EntriesStay
    <3>2. \E i \in DOMAIN query[t] : query[t][i].row = r
      BY <2>4 DEF ReadsOf
    <3>3. PICK i : i = CHOOSE j \in DOMAIN query[t] : query[t][j].row = r
      OBVIOUS
    <3>4. i \in DOMAIN query[t] /\ query[t][i].row = r
      BY <3>2, <3>3
    <3>5. ReadsOf(t)[r] = seen[t][i]
      BY <2>4, <3>3 DEF ReadsOf
    <3>6. i \in 1..row_cnt[t]
      BY <1>1, <2>3, <3>4, QueryFacts
    <3> QED  BY <3>1, <3>4, <3>5, <3>6 DEF EntriesOK
  <2>5. \A d \in committed' : d.lost \/ \A r \in DOMAIN d.reads : ReadOK(mvcc', committed', r, d.ts, d.reads[r])
    <3> TAKE d \in committed'
    <3>1. CASE d \in committed
      BY <1>2, <3>1
    <3>2. CASE d = c
      BY <2>2, <2>4, <3>2
    <3> QED  BY <2>1, <3>1, <3>2
  <2> QED  BY <2>5 DEF CommittedInv
<1> QED  BY <1>3, <1>4

LEMMA SInvariant == MaxTxn < TsWrap => (Spec => []SInv)
<1> SUFFICES ASSUME MaxTxn < TsWrap PROVE Spec => []SInv
  OBVIOUS
<1>1. Init => SInv
  <2> SUFFICES ASSUME Init PROVE SInv
    OBVIOUS
  <2>1. HInv
    BY InitHInv
  <2>2. CommitInv /\ CommittedInv
    BY DEF Init, CommitInv, CommittedInv
  <2>3. VersionInv
    <3>1. \A r \in Rows : RowVersions(mvcc[r], Written(committed, r))
      <4>1. \A r \in Rows : mvcc[r] = InitRow /\ Written(committed, r) = {}
        BY DEF Init, Written
      <4>2. Valid(InitRow) = {} /\ InitRow.oldest_wts = 0
        BY InitRowGood DEF InitRow
      <4> QED  BY <4>1, <4>2 DEF RowVersions
    <3>2. \A t \in Threads : pc[t] # "commit"
      BY DEF Init
    <3> QED  BY <3>1, <3>2 DEF VersionInv
  <2>4. SeenInv
    BY DEF Init, SeenInv, SeenOK
  <2> QED  BY <2>1, <2>2, <2>3, <2>4 DEF SInv
<1>2. SInv /\ [Next]_vars => SInv'
  <2> SUFFICES ASSUME SInv, [Next]_vars PROVE SInv'
    OBVIOUS
  <2>1. HInv /\ CommitInv /\ VersionInv /\ SeenInv /\ CommittedInv
    BY DEF SInv
  <2>2. CASE \E t \in Threads : Step(t)
    <3>1. PICK t \in Threads : Step(t)
      BY <2>2
    <3>2. HInv'
      BY <2>1, <3>1, StepHInv
    <3>3. CommitInv'
      BY <2>1, <3>1, <3>2, CommitInvKept
    <3>4. VersionInv'
      BY <2>1, <3>1, <3>2, VersionInvKept
    <3>5. SeenInv'
      BY <2>1, <3>1, <3>2, <3>4, SeenInvKept
    <3>6. CommittedInv'
      BY <2>1, <3>1, <3>2, CommittedInvKept
    <3> QED  BY <3>2, <3>3, <3>4, <3>5, <3>6 DEF SInv
  <2>3. CASE UNCHANGED vars
    <3>1. HInv'
      BY <2>1, <2>3, StutterHInv
    <3>2. CommitInv'
      BY <2>1, <2>3 DEF CommitInv, vars, txnVars
    <3>3. VersionInv'
      BY <2>1, <2>3 DEF VersionInv, Reserves, vars, txnVars
    <3>4. SeenInv'
      <4>1. \A t \in Threads : Req(t)' = Req(t)
        BY <2>3 DEF Req, vars, txnVars
      <4> QED  BY <2>1, <2>3, <4>1 DEF SeenInv, SeenOK, vars, txnVars
    <3>5. CommittedInv'
      BY <2>1, <2>3 DEF CommittedInv, vars
    <3> QED  BY <3>1, <3>2, <3>3, <3>4, <3>5 DEF SInv
  <2> QED  BY <2>2, <2>3 DEF Next, Terminated
<1> QED  BY <1>1, <1>2, PTL DEF Spec

\* A committed transaction that has not had a version recycled in its hands has read,
\* row by row, what those with smaller timestamps left there, whatever the order in
\* which Row_mvcc::access has served, delayed and let go their requests; provided the
\* timestamps fit the 32 bits of the_ts, without which the search takes a wrong version.
THEOREM SerializableTheorem == MaxTxn < TsWrap => (Spec => []Serializable)
<1> SUFFICES ASSUME MaxTxn < TsWrap PROVE Spec => []Serializable
  OBVIOUS
<1>1. SInv => Serializable
  <2> SUFFICES ASSUME SInv, NEW c \in committed, ~ c.lost, NEW r \in DOMAIN c.reads
               PROVE  c.reads[r] = VersionBefore(r, c.ts)
    BY DEF Serializable, SerializableByTs
  <2>1. HInv /\ CommitInv /\ CommittedInv
    BY DEF SInv
  <2>2. r \in Rows /\ c.ts \in Nat
    BY <2>1 DEF CommitInv
  <2> DEFINE W == Written(committed, r)
             S == {0} \cup {d.ts : d \in {e \in committed : r \in e.writes /\ e.ts < c.ts}}
             ver == c.reads[r]
  <2>3. ReadOK(mvcc, committed, r, c.ts, ver)
    BY <2>1 DEF CommittedInv
  <2>4. ver < c.ts /\ ver \in W \cup {0} /\ \A w \in W : w <= ver \/ c.ts <= w
    BY <2>3 DEF ReadOK
  <2>5. \A w \in W : w \in Nat
    BY <2>1, <2>2, WrittenFacts
  <2>6. \A x : x \in S <=> x = 0 \/ (x \in W /\ x < c.ts)
    BY DEF Written
  <2>7. VersionBefore(r, c.ts) = Max(S)
    BY DEF VersionBefore
  <2> HIDE DEF W, S, ver
  <2>8. S \in SUBSET Nat /\ S # {} /\ \A x \in S : x <= c.ts
    BY <2>2, <2>5, <2>6
  <2>9. Max(S) \in S /\ \A x \in S : x <= Max(S)
    BY <2>2, <2>8, MaxFacts
  <2>10. ver \in S /\ ver \in Nat /\ \A x \in S : x <= ver
    BY <2>2, <2>4, <2>5, <2>6
  <2>11. Max(S) \in Nat /\ Max(S) <= ver /\ ver <= Max(S)
    BY <2>8, <2>9, <2>10
  <2>12. ver = Max(S)
    BY <2>10, <2>11
  <2> QED  BY <2>7, <2>12 DEF ver
<1>2. Spec => []SInv
  BY SInvariant
<1> QED  BY <1>1, <1>2, PTL

=============================================================================
