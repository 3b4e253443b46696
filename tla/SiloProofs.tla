----------------------------- MODULE SiloProofs -----------------------------
(* Why the SILO build keeps its lock bits, its tids and its copies right,  *)
(* and why what it commits is serializable, for every number of threads,   *)
(* rows and words.                                                         *)
EXTENDS Silo, OptimisticProofs

Labels == {"fetch", "read_tid", "copy", "compute", "pre_abort", "lock", "back_off",
           "abort", "validate", "write", "release", "done"}
Images == [Words -> Values \cup {NoVal}]

TypeOK ==
    /\ tid \in [Rows -> Nat] /\ locked \in [Rows -> BOOLEAN]
    /\ data \in [Rows -> Images]
    /\ pc \in [Threads -> Labels]
    /\ query \in [Threads -> Queries \cup {<< >>}]
    /\ row_cnt \in [Threads -> Nat]
    /\ seen \in [Threads -> [Rows -> Images]]
    /\ tids \in [Threads -> [Rows -> Nat]]
    /\ v \in [Threads -> Nat] /\ word \in [Threads -> 0..WordCnt]
    /\ locks \in [Threads -> SUBSET Rows]
    /\ checked \in [Threads -> Nat] /\ cur_tid \in [Threads -> Nat]
    /\ settings \in [pre_abort : BOOLEAN, no_wait : BOOLEAN]
    /\ txn_cnt \in [Threads -> 0..MaxTxn]

\* How far a transaction is, by its place in the code.
Phase(t) ==
    /\ pc[t] \in {"fetch", "done"} <=> query[t] = << >>
    /\ pc[t] \in {"fetch", "done"} => row_cnt[t] = 0
    /\ pc[t] \notin {"fetch", "done"} => txn_cnt[t] < MaxTxn
    /\ pc[t] \in {"read_tid", "copy", "compute"} => row_cnt[t] < Len(query[t])
    /\ pc[t] \notin {"fetch", "done", "read_tid", "copy", "compute"} =>
          row_cnt[t] = Len(query[t])
    /\ pc[t] \in {"fetch", "read_tid", "copy", "compute", "pre_abort", "done"} =>
          locks[t] = {}
    /\ locks[t] \subseteq WriteSet(t)
    /\ pc[t] = "validate" => locks[t] = WriteSet(t) /\ checked[t] <= Len(query[t])
    /\ pc[t] = "lock" => \A r \in locks[t], s \in WriteSet(t) \ locks[t] : r < s
    /\ pc[t] \notin {"copy", "write"} => word[t] = 0
    /\ pc[t] = "write" /\ locks[t] = {} => word[t] = 0
    /\ pc[t] = "release" => locks[t] # {}

PhaseInv == \A t \in Threads : Phase(t)

\* Tids under locks: none changes but by the transaction that installs.
LockTid(t) ==
    /\ pc[t] \in {"lock", "validate"} => \A r \in locks[t] : tid[r] = tids[t][r]
    /\ pc[t] = "write" => \A r \in locks[t] : tid[r] < cur_tid[t]
    /\ pc[t] = "release" => \A r \in locks[t] \ {NextRelease(t)} : tid[r] < cur_tid[t]

LockTidInv == \A t \in Threads : LockTid(t)

\* The rows that t has copied and found unchanged after the copy.
Got(t) ==
    {query[t][i].row : i \in 1..(IF pc[t] = "compute" THEN row_cnt[t] + 1 ELSE row_cnt[t])}

\* The first k words of img have been copied from r under the tid n: they are those
\* of r, or r is being written, or r's tid has grown.
Holds(r, n, img, k) ==
    /\ n <= tid[r]
    /\ \A u \in Threads : pc[u] = "release" /\ NextRelease(u) = r => n < tid[r]
    /\ WritesLocal /\ n = tid[r] /\ (\A u \in Threads : ~ Installing(u, r)) =>
          \A w \in 1..k : img[w] = data[r][w]

HasCopies(t) ==
    /\ \A r \in Got(t) : Holds(r, tids[t][r], seen[t][r], WordCnt)
    /\ pc[t] = "copy" =>
          Holds(NextReq(t).row, v[t], seen[t][NextReq(t).row], word[t])

CopyInv == \A t \in Threads : HasCopies(t)

VInv == TypeOK /\ PhaseInv /\ LockBits /\ LockTidInv /\ CopyInv

----------------------------------------------------------------------------
(* What the operators compute.                                             *)

LEMMA QueryFacts ==
    ASSUME NEW q \in Queries
    PROVE  /\ q \in Seq(Request) /\ Len(q) \in Nat \ {0} /\ DOMAIN q = 1..Len(q)
           /\ \A i \in 1..Len(q) : q[i].row \in Rows /\ q[i].type \in {"RD", "WR"}
           /\ \A type : RowsOf(q, type) \subseteq Rows
<1>1. q \in Seq(Request) /\ Len(q) \in Nat \ {0} /\ DOMAIN q = 1..Len(q)
  BY QueriesAssumption
<1>2. \A i \in 1..Len(q) : q[i] \in Request
  BY <1>1
<1>3. \A i \in 1..Len(q) : q[i].row \in Rows /\ q[i].type \in {"RD", "WR"}
  BY <1>2 DEF Request
<1> QED  BY <1>1, <1>3 DEF RowsOf

LEMMA AccessFacts ==
    ASSUME NEW t, query[t] \in Queries
    PROVE  /\ WriteSet(t) \subseteq Rows /\ AccessSet(t) \subseteq Rows
           /\ AccessSet(t) # {}
           /\ AccessSet(t) = {query[t][i].row : i \in 1..Len(query[t])}
<1>1. /\ DOMAIN query[t] = 1..Len(query[t]) /\ Len(query[t]) \in Nat \ {0}
      /\ \A i \in 1..Len(query[t]) : query[t][i].row \in Rows /\ query[t][i].type \in {"RD", "WR"}
  BY QueryFacts
<1>2. AccessSet(t) = {query[t][i].row : i \in 1..Len(query[t])}
  BY <1>1 DEF AccessSet, WriteSet, ReadSet, RowsOf
<1>3. 1 \in 1..Len(query[t])
  BY <1>1
<1>4. AccessSet(t) # {}
  BY <1>2, <1>3
<1>5. WriteSet(t) \subseteq AccessSet(t)
  BY DEF AccessSet
<1> QED  BY <1>1, <1>2, <1>4, <1>5

\* A query that is not the empty one is a real one, with a next request as long
\* as not all rows are copied.
LEMMA Running ==
    ASSUME TypeOK, PhaseInv, NEW t \in Threads, pc[t] \notin {"fetch", "done"}
    PROVE  /\ query[t] \in Queries
           /\ Len(query[t]) \in Nat \ {0} /\ row_cnt[t] \in 0..Len(query[t])
           /\ WriteSet(t) \subseteq Rows
           /\ pc[t] \in {"read_tid", "copy", "compute"} =>
                 /\ row_cnt[t] + 1 \in 1..Len(query[t]) /\ NextReq(t).row \in Rows
<1>1. query[t] \in Queries
  BY DEF TypeOK, PhaseInv, Phase
<1>2. Len(query[t]) \in Nat \ {0} /\ row_cnt[t] \in Nat
  BY <1>1, QueryFacts DEF TypeOK
<1>3. row_cnt[t] \in 0..Len(query[t])
  <2>1. row_cnt[t] < Len(query[t]) \/ row_cnt[t] = Len(query[t])
    BY DEF PhaseInv, Phase
  <2> QED  BY <1>2, <2>1
<1>4. ASSUME pc[t] \in {"read_tid", "copy", "compute"}
      PROVE  row_cnt[t] + 1 \in 1..Len(query[t])
  BY <1>2, <1>4 DEF PhaseInv, Phase
<1> QED  BY <1>1, <1>2, <1>3, <1>4, QueryFacts, AccessFacts DEF NextReq

\* The row that a transaction locks next, and the row it writes or gives back.
LEMMA NextLockFacts ==
    ASSUME TypeOK, PhaseInv, NEW t \in Threads, pc[t] = "lock", locks[t] # WriteSet(t)
    PROVE  /\ NextLock(t) \in WriteSet(t) \ locks[t] /\ NextLock(t) \in Rows
           /\ \A s \in WriteSet(t) \ locks[t] : NextLock(t) <= s
<1>1. WriteSet(t) \subseteq Rows /\ locks[t] \subseteq WriteSet(t)
  BY Running DEF PhaseInv, Phase
<1> DEFINE M == WriteSet(t) \ locks[t]
<1>2. M \in SUBSET Nat /\ M # {}
  BY <1>1, RowsAssumption
<1>3. Lowest(M) \in M /\ \A s \in M : Lowest(M) <= s
  <2> HIDE DEF M
  <2> QED  BY <1>2, LowestIsLeast
<1> QED  BY <1>1, <1>3 DEF NextLock

LEMMA NextReleaseFacts ==
    ASSUME TypeOK, NEW t \in Threads, locks[t] # {}
    PROVE  NextRelease(t) \in locks[t] /\ NextRelease(t) \in Rows
<1>1. locks[t] \in SUBSET Nat /\ locks[t] \subseteq Rows
  BY RowsAssumption DEF TypeOK
<1> QED  BY <1>1, LowestIsLeast DEF NextRelease

LEMMA Same ==
    ASSUME NEW t, query'[t] = query[t]
    PROVE  WriteSet(t)' = WriteSet(t) /\ ReadSet(t)' = ReadSet(t)
           /\ AccessSet(t)' = AccessSet(t)
BY DEF AccessSet, WriteSet, ReadSet, RowsOf

----------------------------------------------------------------------------
(* The inductive invariant, step by step.                                  *)

\* What a transaction's step leaves alone.
LEMMA Frame ==
    ASSUME TypeOK, NEW t \in Threads, Step(t), NEW u \in Threads, u # t
    PROVE  /\ pc'[u] = pc[u] /\ query'[u] = query[u] /\ row_cnt'[u] = row_cnt[u]
           /\ seen'[u] = seen[u] /\ tids'[u] = tids[u]
           /\ v'[u] = v[u] /\ word'[u] = word[u] /\ locks'[u] = locks[u]
           /\ checked'[u] = checked[u] /\ cur_tid'[u] = cur_tid[u]
           /\ txn_cnt'[u] = txn_cnt[u]
<1> USE DEF TypeOK, txnVars, copyVars, Goto
<1>1. CASE Fetch(t)
  BY <1>1 DEF Fetch
<1>2. CASE ReadTid(t)
  BY <1>2 DEF ReadTid
<1>3. CASE Copy(t)
  BY <1>3 DEF Copy
<1>4. CASE Recheck(t)
  BY <1>4 DEF Recheck
<1>5. CASE Compute(t)
  BY <1>5 DEF Compute
<1>6. CASE PreAbort(t)
  BY <1>6 DEF PreAbort
<1>7. CASE LockRow(t)
  BY <1>7 DEF LockRow
<1>8. CASE LockBusy(t)
  BY <1>8 DEF LockBusy
<1>9. CASE Unlock(t)
  BY <1>9 DEF Unlock
<1>10. CASE BackOff(t)
  BY <1>10 DEF BackOff
<1>11. CASE Abort(t)
  BY <1>11 DEF Abort
<1>12. CASE Locked(t)
  BY <1>12 DEF Locked
<1>13. CASE ValidateRead(t)
  BY <1>13 DEF ValidateRead
<1>14. CASE Commit(t)
  BY <1>14 DEF Commit
<1>15. CASE Install(t)
  BY <1>15 DEF Install
<1>16. CASE SetTid(t)
  BY <1>16 DEF SetTid
<1>17. CASE Release(t)
  BY <1>17 DEF Release
<1>18. CASE Finish(t)
  BY <1>18 DEF Finish
<1> QED  BY <1>1, <1>2, <1>3, <1>4, <1>5, <1>6, <1>7, <1>8, <1>9, <1>10, <1>11, <1>12, <1>13, <1>14, <1>15, <1>16, <1>17, <1>18 DEF Step

LEMMA MaxTidFacts ==
    ASSUME TypeOK, NEW t \in Threads, query[t] \in Queries
    PROVE  /\ MaxTid(t) \in Nat /\ \A r \in AccessSet(t) : tids[t][r] <= MaxTid(t)
           /\ NewTid(t) \in Nat /\ NewTid(t) > cur_tid[t]
           /\ \A r \in AccessSet(t) : tids[t][r] < NewTid(t)
<1>1. /\ AccessSet(t) \in SUBSET Rows /\ AccessSet(t) # {}
      /\ tids[t] \in [Rows -> Nat] /\ cur_tid[t] \in Nat
  BY AccessFacts DEF TypeOK
<1>2. \E w \in AccessSet(t) : \A r \in AccessSet(t) : tids[t][r] <= tids[t][w]
  BY <1>1, GreatestAmongRows
<1> DEFINE T == {tids[t][r] : r \in AccessSet(t)}
<1>3. \E n \in T : \A r \in AccessSet(t) : tids[t][r] <= n
  BY <1>2
<1>4. MaxTid(t) = CHOOSE n \in T : \A r \in AccessSet(t) : tids[t][r] <= n
  BY DEF MaxTid
<1>5. MaxTid(t) \in T /\ \A r \in AccessSet(t) : tids[t][r] <= MaxTid(t)
  <2> HIDE DEF T
  <2> QED  BY <1>3, <1>4
<1>6. MaxTid(t) \in Nat /\ \A r \in AccessSet(t) : tids[t][r] \in Nat
  BY <1>1, <1>5
<1> QED  BY <1>1, <1>5, <1>6 DEF NewTid

LEMMA ImageFacts ==
    /\ \A val \in Values \cup {NoVal} : Image(val) \in Images
    /\ NoReads \in [Rows -> Images] /\ 1 \in Words
BY BoundsAssumption DEF Image, Images, NoReads, NoImage, Words

LEMMA WrittenFacts ==
    ASSUME TypeOK, PhaseInv, NEW t \in Threads, pc[t] \notin {"fetch", "done"}
    PROVE  Written(t) \in Values
<1>1. txn_cnt[t] + 1 \in 1..MaxTxn
  BY BoundsAssumption DEF TypeOK, PhaseInv, Phase
<1> QED  BY <1>1 DEF Written, Values

LEMMA TypeNext == TypeOK /\ PhaseInv /\ [Next]_vars => TypeOK'
<1> SUFFICES ASSUME TypeOK, PhaseInv, [Next]_vars PROVE TypeOK'
  OBVIOUS
<1> USE DEF txnVars, copyVars, Goto, Labels
<1>1. ASSUME NEW t \in Threads, Fetch(t) PROVE TypeOK'
  BY <1>1, ImageFacts DEF TypeOK, Fetch
<1>2. ASSUME NEW t \in Threads, ReadTid(t) PROVE TypeOK'
  <2>1. NextReq(t).row \in Rows
    BY <1>2, Running DEF ReadTid
  <2>2. 0 \in 0..WordCnt
    BY BoundsAssumption
  <2> QED  BY <1>2, <2>1, <2>2 DEF TypeOK, ReadTid
<1>3. ASSUME NEW t \in Threads, Copy(t) PROVE TypeOK'
  <2>1. PICK r \in Rows : r = NextReq(t).row
    BY <1>3, Running DEF Copy
  <2>2. PICK w \in Words : w = word[t] + 1
    BY <1>3, BoundsAssumption DEF Copy, TypeOK, Words
  <2>3. seen' = [seen EXCEPT ![t][r][w] = data[r][w]] /\ word' = [word EXCEPT ![t] = w]
    BY <1>3, <2>1, <2>2 DEF Copy
  <2>4. data[r][w] \in Values \cup {NoVal} /\ w \in 0..WordCnt
    <3>1. data[r] \in Images /\ w \in 1..WordCnt
      BY DEF TypeOK, Words
    <3> QED  BY <3>1, BoundsAssumption DEF Images
  <2>5. word' \in [Threads -> 0..WordCnt]
    BY <2>3, <2>4 DEF TypeOK
  <2>6. seen' \in [Threads -> [Rows -> Images]]
    <3>1. [seen[t][r] EXCEPT ![w] = data[r][w]] \in Images
      BY <2>4 DEF TypeOK, Images
    <3>2. seen' = [seen EXCEPT ![t] = [seen[t] EXCEPT ![r] = [seen[t][r] EXCEPT ![w] = data[r][w]]]]
      BY <2>3
    <3> QED  BY <3>1, <3>2 DEF TypeOK
  <2> QED  BY <1>3, <2>5, <2>6 DEF TypeOK, Copy
<1>4. ASSUME NEW t \in Threads, Recheck(t) PROVE TypeOK'
  <2>1. PICK r \in Rows : r = NextReq(t).row
    BY <1>4, Running DEF Recheck
  <2>2. 0 \in 0..WordCnt
    BY BoundsAssumption
  <2>3. tids' = [tids EXCEPT ![t] = [tids[t] EXCEPT ![r] = v[t]]] \/ tids' = tids
    BY <1>4, <2>1 DEF Recheck
  <2>4. tids' \in [Threads -> [Rows -> Nat]]
    <3>1. CASE tids' = [tids EXCEPT ![t] = [tids[t] EXCEPT ![r] = v[t]]]
      BY <3>1 DEF TypeOK
    <3>2. CASE tids' = tids
      BY <3>2 DEF TypeOK
    <3> QED  BY <2>3, <3>1, <3>2
  <2>5. pc' \in [Threads -> Labels]
    <3>1. pc' = [pc EXCEPT ![t] = "compute"] \/ pc' = [pc EXCEPT ![t] = "read_tid"]
      BY <1>4 DEF Recheck
    <3> QED  BY <3>1 DEF TypeOK
  <2> QED  BY <1>4, <2>2, <2>4, <2>5 DEF TypeOK, Recheck
<1>5. ASSUME NEW t \in Threads, Compute(t) PROVE TypeOK'
  <2>1. PICK r \in Rows : r = NextReq(t).row
    BY <1>5, Running DEF Compute
  <2>2. Written(t) \in Values /\ 1 \in Words
    BY <1>5, WrittenFacts, ImageFacts DEF Compute
  <2>3. data' = [data EXCEPT ![r] = [data[r] EXCEPT ![1] = Written(t)]] \/ data' = data
    BY <1>5, <2>1 DEF Compute
  <2>4. data' \in [Rows -> Images]
    <3>1. [data[r] EXCEPT ![1] = Written(t)] \in Images
      BY <2>2 DEF TypeOK, Images
    <3> QED  BY <2>3, <3>1 DEF TypeOK
  <2>5. pc' \in [Threads -> Labels] /\ row_cnt' \in [Threads -> Nat]
    BY <1>5 DEF TypeOK, Compute
  <2> QED  BY <1>5, <2>4, <2>5 DEF TypeOK, Compute
<1>6. ASSUME NEW t \in Threads, PreAbort(t) PROVE TypeOK'
  BY <1>6 DEF TypeOK, PreAbort
<1>7. ASSUME NEW t \in Threads, LockRow(t) PROVE TypeOK'
  <2>1. PICK r \in Rows : r = NextLock(t)
    BY <1>7, NextLockFacts DEF LockRow
  <2>2. /\ locked' = [locked EXCEPT ![r] = TRUE]
        /\ locks' = [locks EXCEPT ![t] = locks[t] \cup {r}]
        /\ pc' = pc \/ pc' = [pc EXCEPT ![t] = "abort"]
    BY <1>7, <2>1 DEF LockRow, TypeOK
  <2>3. pc' \in [Threads -> Labels] /\ locked' \in [Rows -> BOOLEAN]
    BY <2>2 DEF TypeOK
  <2>4. locks' \in [Threads -> SUBSET Rows]
    <3>1. locks \in [Threads -> SUBSET Rows] /\ locks[t] \cup {r} \in SUBSET Rows
      BY DEF TypeOK
    <3> QED  BY <2>2, <3>1
  <2> QED  BY <1>7, <2>3, <2>4 DEF TypeOK, LockRow
<1>8. ASSUME NEW t \in Threads, LockBusy(t) PROVE TypeOK'
  BY <1>8 DEF TypeOK, LockBusy
<1>9. ASSUME NEW t \in Threads, Unlock(t) PROVE TypeOK'
  BY <1>9 DEF TypeOK, Unlock
<1>10. ASSUME NEW t \in Threads, BackOff(t) PROVE TypeOK'
  BY <1>10 DEF TypeOK, BackOff
<1>11. ASSUME NEW t \in Threads, Abort(t) PROVE TypeOK'
  BY <1>11, ImageFacts DEF TypeOK, Abort
<1>12. ASSUME NEW t \in Threads, Locked(t) PROVE TypeOK'
  BY <1>12 DEF TypeOK, Locked
<1>13. ASSUME NEW t \in Threads, ValidateRead(t) PROVE TypeOK'
  <2>1. /\ checked' = [checked EXCEPT ![t] = @ + 1] \/ checked' = checked
        /\ pc' = pc \/ pc' = [pc EXCEPT ![t] = "abort"]
    BY <1>13 DEF ValidateRead
  <2>2. checked' \in [Threads -> Nat]
    <3>1. checked \in [Threads -> Nat]
      BY DEF TypeOK
    <3> QED  BY <2>1, <3>1
  <2>3. pc' \in [Threads -> Labels]
    BY <2>1 DEF TypeOK
  <2> QED  BY <1>13, <2>2, <2>3 DEF TypeOK, ValidateRead
<1>14. ASSUME NEW t \in Threads, Commit(t) PROVE TypeOK'
  <2>1. NewTid(t) \in Nat
    BY <1>14, Running, MaxTidFacts DEF Commit
  <2>2. cur_tid' \in [Threads -> Nat] /\ pc' \in [Threads -> Labels]
    <3>1. \/ cur_tid' = [cur_tid EXCEPT ![t] = NewTid(t)] /\ pc' = [pc EXCEPT ![t] = "write"]
          \/ cur_tid' = cur_tid /\ pc' = [pc EXCEPT ![t] = "abort"]
      BY <1>14 DEF Commit, Goto
    <3>2. cur_tid \in [Threads -> Nat] /\ pc \in [Threads -> Labels]
      BY DEF TypeOK
    <3>3. "write" \in Labels /\ "abort" \in Labels
      BY DEF Labels
    <3> QED  BY <2>1, <3>1, <3>2, <3>3
  <2> QED  BY <1>14, <2>2 DEF TypeOK, Commit
<1>15. ASSUME NEW t \in Threads, Install(t) PROVE TypeOK'
  <2>1. PICK r \in Rows : r = NextRelease(t)
    BY <1>15, NextReleaseFacts DEF Install
  <2>2. PICK w \in Words : w = word[t] + 1
    BY <1>15, BoundsAssumption DEF Install, TypeOK, Words
  <2>3. NewImage(t, r) \in Images
    <3>1. pc[t] \notin {"fetch", "done"}
      BY <1>15 DEF Install
    <3>2. Written(t) \in Values
      BY <3>1, WrittenFacts
    <3>3. Image(Written(t)) \in Images
      BY <3>2, ImageFacts
    <3>4. seen[t][r] \in Images
      BY DEF TypeOK
    <3> QED  BY <3>3, <3>4 DEF NewImage
  <2>4. NewImage(t, r)[w] \in Values \cup {NoVal} /\ w \in 0..WordCnt
    BY <2>2, <2>3 DEF Images, Words
  <2>5. data' = [data EXCEPT ![r] = [data[r] EXCEPT ![w] = NewImage(t, r)[w]]]
    BY <1>15, <2>1, <2>2 DEF Install
  <2>6. [data[r] EXCEPT ![w] = NewImage(t, r)[w]] \in Images
    BY <2>4 DEF TypeOK, Images
  <2>7. data' \in [Rows -> Images]
    BY <2>5, <2>6 DEF TypeOK
  <2>8. word' = [word EXCEPT ![t] = w]
    BY <1>15, <2>2 DEF Install
  <2>9. word' \in [Threads -> 0..WordCnt]
    BY <2>4, <2>8 DEF TypeOK
  <2> QED  BY <1>15, <2>7, <2>9 DEF TypeOK, Install
<1>16. ASSUME NEW t \in Threads, SetTid(t) PROVE TypeOK'
  <2>1. 0 \in 0..WordCnt
    BY BoundsAssumption
  <2> QED  BY <1>16, <2>1 DEF TypeOK, SetTid
<1>17. ASSUME NEW t \in Threads, Release(t) PROVE TypeOK'
  BY <1>17 DEF TypeOK, Release
<1>18. ASSUME NEW t \in Threads, Finish(t) PROVE TypeOK'
  <2>1. txn_cnt[t] + 1 \in 0..MaxTxn
    <3>1. txn_cnt[t] < MaxTxn /\ txn_cnt[t] \in 0..MaxTxn
      BY <1>18 DEF Finish, TypeOK, PhaseInv, Phase
    <3> QED  BY <3>1, BoundsAssumption
  <2> QED  BY <1>18, <2>1, ImageFacts DEF TypeOK, Finish
<1>19. CASE UNCHANGED vars
  BY <1>19 DEF vars, TypeOK
<1> QED  BY <1>1, <1>2, <1>3, <1>4, <1>5, <1>6, <1>7, <1>8, <1>9, <1>10, <1>11, <1>12,
            <1>13, <1>14, <1>15, <1>16, <1>17, <1>18, <1>19 DEF Next, Step, Terminated

LEMMA PhaseNext == TypeOK /\ PhaseInv /\ [Next]_vars => PhaseInv'
<1> SUFFICES ASSUME TypeOK, PhaseInv, [Next]_vars PROVE PhaseInv'
  OBVIOUS
<1> USE DEF txnVars, copyVars, Goto
<1>0. ASSUME NEW t \in Threads, Step(t), Phase(t)' PROVE PhaseInv'
  <2> SUFFICES ASSUME NEW u \in Threads, u # t PROVE Phase(u)'
    BY <1>0 DEF PhaseInv
  <2>1. Phase(u)
    BY DEF PhaseInv
  <2>2. WriteSet(u)' = WriteSet(u)
    BY <1>0, Frame, Same
  <2> QED  BY <1>0, <2>1, <2>2, Frame DEF Phase
<1>1. ASSUME NEW t \in Threads, Fetch(t) PROVE Phase(t)'
  <2>1. /\ pc[t] = "fetch" /\ txn_cnt[t] < MaxTxn /\ pc'[t] = "read_tid"
        /\ query'[t] \in Queries /\ row_cnt'[t] = 0
        /\ UNCHANGED <<locks, word, txn_cnt>>
    BY <1>1 DEF Fetch, TypeOK
  <2>2. query'[t] # << >> /\ Len(query'[t]) \in Nat \ {0}
    BY <2>1, QueryFacts
  <2>3. locks[t] = {} /\ word[t] = 0
    BY <2>1 DEF PhaseInv, Phase
  <2> QED  BY <2>1, <2>2, <2>3 DEF Phase
<1>2. ASSUME NEW t \in Threads, ReadTid(t) PROVE Phase(t)'
  <2>1. WriteSet(t)' = WriteSet(t)
    BY <1>2, Same DEF ReadTid
  <2> QED  BY <1>2, <2>1 DEF ReadTid, TypeOK, PhaseInv, Phase
<1>3. ASSUME NEW t \in Threads, Copy(t) PROVE Phase(t)'
  <2>1. WriteSet(t)' = WriteSet(t)
    BY <1>3, Same DEF Copy
  <2> QED  BY <1>3, <2>1 DEF Copy, TypeOK, PhaseInv, Phase
<1>4. ASSUME NEW t \in Threads, Recheck(t) PROVE Phase(t)'
  <2>1. WriteSet(t)' = WriteSet(t)
    BY <1>4, Same DEF Recheck
  <2>2. /\ UNCHANGED <<query, row_cnt, locks, txn_cnt>> /\ word'[t] = 0
        /\ pc[t] = "copy" /\ pc'[t] \in {"compute", "read_tid"}
    BY <1>4 DEF Recheck, TypeOK
  <2> QED  BY <2>1, <2>2 DEF PhaseInv, Phase
<1>5. ASSUME NEW t \in Threads, Compute(t) PROVE Phase(t)'
  <2>1. WriteSet(t)' = WriteSet(t)
    BY <1>5, Same DEF Compute
  <2>2. /\ UNCHANGED <<query, locks, txn_cnt, word>> /\ row_cnt'[t] = row_cnt[t] + 1
        /\ pc[t] = "compute"
        /\ pc'[t] = IF row_cnt[t] + 1 = Len(query[t]) THEN "pre_abort" ELSE "read_tid"
    BY <1>5 DEF Compute, TypeOK
  <2>3. row_cnt[t] + 1 \in 1..Len(query[t]) /\ Len(query[t]) \in Nat
    BY <2>2, Running
  <2>4. Phase(t)
    BY DEF PhaseInv
  <2>5. row_cnt'[t] < Len(query[t]) \/ row_cnt'[t] = Len(query[t])
    BY <2>2, <2>3
  <2>6. /\ txn_cnt[t] < MaxTxn /\ locks[t] = {} /\ word[t] = 0 /\ query[t] # << >>
    BY <2>2, <2>4 DEF Phase
  <2> QED  BY <2>1, <2>2, <2>5, <2>6 DEF Phase
<1>6. ASSUME NEW t \in Threads, PreAbort(t) PROVE Phase(t)'
  <2>1. WriteSet(t)' = WriteSet(t)
    BY <1>6, Same DEF PreAbort
  <2>2. /\ UNCHANGED <<query, locks, txn_cnt, word, row_cnt>> /\ pc[t] = "pre_abort"
        /\ pc'[t] \in {"abort", "lock"}
    BY <1>6 DEF PreAbort, TypeOK
  <2> QED  BY <2>1, <2>2 DEF PhaseInv, Phase
<1>7. ASSUME NEW t \in Threads, LockRow(t) PROVE Phase(t)'
  <2>1. WriteSet(t)' = WriteSet(t)
    BY <1>7, Same DEF LockRow
  <2>2. /\ UNCHANGED <<query, txn_cnt, word, row_cnt>> /\ pc[t] = "lock"
        /\ pc'[t] \in {"abort", "lock"}
        /\ locks'[t] = locks[t] \cup {NextLock(t)} /\ locks[t] # WriteSet(t)
    BY <1>7 DEF LockRow, TypeOK
  <2>3. /\ NextLock(t) \in WriteSet(t) \ locks[t] /\ WriteSet(t) \subseteq Nat
        /\ \A s \in WriteSet(t) \ locks[t] : NextLock(t) <= s
    BY <2>2, NextLockFacts, Running, RowsAssumption
  <2>4. Phase(t)
    BY DEF PhaseInv
  <2>5. \A r \in locks'[t], s \in WriteSet(t) \ locks'[t] : r < s
    BY <2>2, <2>3, <2>4 DEF Phase
  <2>6. locks'[t] \subseteq WriteSet(t)
    BY <2>2, <2>3, <2>4 DEF Phase
  <2> QED  BY <2>1, <2>2, <2>4, <2>5, <2>6 DEF Phase
<1>8. ASSUME NEW t \in Threads, LockBusy(t) PROVE Phase(t)'
  <2>1. WriteSet(t)' = WriteSet(t)
    BY <1>8, Same DEF LockBusy
  <2> QED  BY <1>8, <2>1 DEF LockBusy, TypeOK, PhaseInv, Phase
<1>9. ASSUME NEW t \in Threads, Unlock(t) PROVE Phase(t)'
  <2>1. WriteSet(t)' = WriteSet(t)
    BY <1>9, Same DEF Unlock
  <2>2. locks'[t] \subseteq locks[t]
    BY <1>9 DEF Unlock, TypeOK
  <2> QED  BY <1>9, <2>1, <2>2 DEF Unlock, PhaseInv, Phase
<1>10. ASSUME NEW t \in Threads, BackOff(t) PROVE Phase(t)'
  <2>1. WriteSet(t)' = WriteSet(t)
    BY <1>10, Same DEF BackOff
  <2> QED  BY <1>10, <2>1 DEF BackOff, TypeOK, PhaseInv, Phase
<1>11. ASSUME NEW t \in Threads, Abort(t) PROVE Phase(t)'
  <2>1. /\ pc'[t] = "fetch" /\ query'[t] = << >> /\ row_cnt'[t] = 0
        /\ UNCHANGED <<word, locks>> /\ locks[t] = {} /\ pc[t] = "abort"
    BY <1>11 DEF Abort, TypeOK
  <2>2. word[t] = 0
    BY <2>1 DEF PhaseInv, Phase
  <2> QED  BY <2>1, <2>2 DEF Phase
<1>12. ASSUME NEW t \in Threads, Locked(t) PROVE Phase(t)'
  <2>1. WriteSet(t)' = WriteSet(t)
    BY <1>12, Same DEF Locked
  <2>2. /\ UNCHANGED <<query, txn_cnt, word, row_cnt, locks>> /\ pc[t] = "lock"
        /\ pc'[t] = "validate" /\ checked'[t] = 0 /\ locks[t] = WriteSet(t)
    BY <1>12 DEF Locked, TypeOK
  <2>3. checked'[t] <= Len(query[t])
    BY <2>2, Running
  <2> QED  BY <2>1, <2>2, <2>3 DEF PhaseInv, Phase
<1>13. ASSUME NEW t \in Threads, ValidateRead(t) PROVE Phase(t)'
  <2>1. WriteSet(t)' = WriteSet(t)
    BY <1>13, Same DEF ValidateRead
  <2>2. /\ UNCHANGED <<query, txn_cnt, word, row_cnt, locks>> /\ pc[t] = "validate"
        /\ checked[t] < Len(query[t])
        /\ \/ pc'[t] = "validate" /\ checked'[t] = checked[t] + 1
           \/ pc'[t] = "abort"
    BY <1>13 DEF ValidateRead, TypeOK
  <2>3. Len(query[t]) \in Nat /\ checked[t] \in Nat
    BY <2>2, Running DEF TypeOK
  <2>4. pc'[t] = "validate" => checked'[t] <= Len(query[t])
    BY <2>2, <2>3
  <2> QED  BY <2>1, <2>2, <2>4 DEF PhaseInv, Phase
<1>14. ASSUME NEW t \in Threads, Commit(t) PROVE Phase(t)'
  <2>1. WriteSet(t)' = WriteSet(t)
    BY <1>14, Same DEF Commit
  <2>2. /\ UNCHANGED <<query, txn_cnt, word, row_cnt, locks>> /\ pc[t] = "validate"
        /\ pc'[t] \in {"write", "abort"}
    BY <1>14 DEF Commit, TypeOK
  <2> QED  BY <2>1, <2>2 DEF PhaseInv, Phase
<1>15. ASSUME NEW t \in Threads, Install(t) PROVE Phase(t)'
  <2>1. WriteSet(t)' = WriteSet(t)
    BY <1>15, Same DEF Install
  <2>2. UNCHANGED <<query, txn_cnt, row_cnt, locks, pc>> /\ pc[t] = "write" /\ locks[t] # {}
    BY <1>15 DEF Install
  <2> QED  BY <2>1, <2>2 DEF PhaseInv, Phase
<1>16. ASSUME NEW t \in Threads, SetTid(t) PROVE Phase(t)'
  <2>1. WriteSet(t)' = WriteSet(t)
    BY <1>16, Same DEF SetTid
  <2>2. /\ UNCHANGED <<query, txn_cnt, row_cnt, locks>> /\ pc[t] = "write" /\ locks[t] # {}
        /\ pc'[t] = "release" /\ word'[t] = 0
    BY <1>16 DEF SetTid, TypeOK
  <2> QED  BY <2>1, <2>2 DEF PhaseInv, Phase
<1>17. ASSUME NEW t \in Threads, Release(t) PROVE Phase(t)'
  <2>1. WriteSet(t)' = WriteSet(t)
    BY <1>17, Same DEF Release
  <2>2. locks'[t] \subseteq locks[t] /\ pc'[t] = "write" /\ pc[t] = "release"
    BY <1>17 DEF Release, TypeOK
  <2> QED  BY <1>17, <2>1, <2>2 DEF Release, PhaseInv, Phase
<1>18. ASSUME NEW t \in Threads, Finish(t) PROVE Phase(t)'
  <2>1. /\ pc'[t] = IF txn_cnt[t] + 1 = MaxTxn THEN "done" ELSE "fetch"
        /\ query'[t] = << >> /\ row_cnt'[t] = 0
        /\ UNCHANGED <<word, locks>> /\ locks[t] = {} /\ pc[t] = "write"
    BY <1>18 DEF Finish, TypeOK
  <2>2. word[t] = 0
    BY <2>1 DEF PhaseInv, Phase
  <2> QED  BY <2>1, <2>2 DEF Phase
<1>19. CASE UNCHANGED vars
  <2>1. \A t \in Threads : WriteSet(t)' = WriteSet(t)
    BY <1>19, Same DEF vars
  <2> QED  BY <1>19, <2>1 DEF vars, PhaseInv, Phase
<1> QED  BY <1>0, <1>1, <1>2, <1>3, <1>4, <1>5, <1>6, <1>7, <1>8, <1>9, <1>10, <1>11, <1>12,
            <1>13, <1>14, <1>15, <1>16, <1>17, <1>18, <1>19 DEF Next, Step, Terminated

LEMMA LockNext == TypeOK /\ PhaseInv /\ LockBits /\ [Next]_vars => LockBits'
<1> SUFFICES ASSUME TypeOK, PhaseInv, LockBits, [Next]_vars PROVE LockBits'
  OBVIOUS
<1>1. ASSUME UNCHANGED <<locked, locks>> PROVE LockBits'
  BY <1>1 DEF LockBits
<1>2. ASSUME NEW t \in Threads, LockRow(t) PROVE LockBits'
  <2>1. PICK r \in Rows : r = NextLock(t) /\ r \notin locks[t]
    BY <1>2, NextLockFacts DEF LockRow
  <2>2. /\ ~ locked[r] /\ locked' = [locked EXCEPT ![r] = TRUE]
        /\ locks' = [locks EXCEPT ![t] = locks[t] \cup {r}]
    BY <1>2, <2>1 DEF LockRow, TypeOK
  <2>3. \A u \in Threads : r \notin locks[u]
    BY <2>2 DEF LockBits
  <2>4. \A u \in Threads : locks'[u] = IF u = t THEN locks[t] \cup {r} ELSE locks[u]
    BY <2>2 DEF TypeOK
  <2>5. \A s \in Rows : locked'[s] = IF s = r THEN TRUE ELSE locked[s]
    BY <2>2 DEF TypeOK
  <2>6. \A s \in Rows : locked'[s] <=> \E u \in Threads : s \in locks'[u]
    <3> SUFFICES ASSUME NEW s \in Rows
                 PROVE  locked'[s] <=> \E u \in Threads : s \in locks'[u]
      OBVIOUS
    <3>1. CASE s = r
      BY <2>4, <2>5, <3>1
    <3>2. CASE s # r
      <4>1. locked'[s] <=> locked[s]
        BY <2>5, <3>2
      <4>2. \A u \in Threads : s \in locks'[u] <=> s \in locks[u]
        BY <2>4, <3>2
      <4> QED  BY <4>1, <4>2 DEF LockBits
    <3> QED  BY <3>1, <3>2
  <2>7. \A x, y \in Threads : x # y => locks'[x] \cap locks'[y] = {}
    BY <2>3, <2>4 DEF LockBits
  <2> QED  BY <2>6, <2>7 DEF LockBits
<1>3. ASSUME NEW t \in Threads, Unlock(t) \/ Release(t) PROVE LockBits'
  <2>1. locks[t] # {}
    BY <1>3 DEF Unlock, Release, PhaseInv, Phase
  <2>2. PICK r \in Rows : r = NextRelease(t) /\ r \in locks[t]
    BY <2>1, NextReleaseFacts
  <2>3. /\ locked' = [locked EXCEPT ![r] = FALSE]
        /\ locks' = [locks EXCEPT ![t] = locks[t] \ {r}]
    BY <1>3, <2>2 DEF Unlock, Release, TypeOK
  <2>4. \A u \in Threads : locks'[u] = IF u = t THEN locks[t] \ {r} ELSE locks[u]
    BY <2>3 DEF TypeOK
  <2>5. \A s \in Rows : locked'[s] = IF s = r THEN FALSE ELSE locked[s]
    BY <2>3 DEF TypeOK
  <2>6. \A u \in Threads : r \notin locks'[u]
    BY <2>2, <2>4 DEF LockBits
  <2>7. \A s \in Rows : locked'[s] <=> \E u \in Threads : s \in locks'[u]
    <3> SUFFICES ASSUME NEW s \in Rows
                 PROVE  locked'[s] <=> \E u \in Threads : s \in locks'[u]
      OBVIOUS
    <3>1. CASE s = r
      BY <2>5, <2>6, <3>1
    <3>2. CASE s # r
      <4>1. locked'[s] <=> locked[s]
        BY <2>5, <3>2
      <4>2. \A u \in Threads : s \in locks'[u] <=> s \in locks[u]
        BY <2>4, <3>2
      <4> QED  BY <4>1, <4>2 DEF LockBits
    <3> QED  BY <3>1, <3>2
  <2>8. \A x, y \in Threads : x # y => locks'[x] \cap locks'[y] = {}
    BY <2>4 DEF LockBits
  <2> QED  BY <2>7, <2>8 DEF LockBits
<1>4. ASSUME NEW t \in Threads, Step(t), ~ LockRow(t), ~ Unlock(t), ~ Release(t)
      PROVE  UNCHANGED <<locked, locks>>
  BY <1>4 DEF Step, Fetch, ReadTid, Copy, Recheck, Compute, PreAbort, LockBusy, BackOff,
              Abort, Locked, ValidateRead, Commit, Install, SetTid, Finish
<1>5. CASE UNCHANGED vars
  BY <1>1, <1>5 DEF vars
<1> QED  BY <1>1, <1>2, <1>3, <1>4, <1>5 DEF Next, Terminated

\* Only SetTid changes a tid, and only that of a row its thread has locked.
LEMMA TidStep ==
    ASSUME TypeOK, PhaseInv, NEW t \in Threads, Step(t)
    PROVE  \/ tid' = tid
           \/ SetTid(t) /\ \E r \in locks[t] :
                 r \in Rows /\ r = NextRelease(t) /\ tid' = [tid EXCEPT ![r] = cur_tid[t]]
<1>1. CASE SetTid(t)
  BY <1>1, NextReleaseFacts DEF SetTid
<1>2. CASE ~ SetTid(t)
  BY <1>2 DEF Step, Fetch, ReadTid, Copy, Recheck, Compute, PreAbort, LockRow, LockBusy,
              Unlock, BackOff, Abort, Locked, ValidateRead, Commit, Install, Release, Finish
<1> QED  BY <1>1, <1>2

LEMMA LockTidNext ==
    TypeOK /\ PhaseInv /\ LockBits /\ LockTidInv /\ [Next]_vars => LockTidInv'
<1> SUFFICES ASSUME TypeOK, PhaseInv, LockBits, LockTidInv, [Next]_vars PROVE LockTidInv'
  OBVIOUS
<1> USE DEF txnVars, copyVars, Goto
<1>0. ASSUME NEW t \in Threads, Step(t), LockTid(t)' PROVE LockTidInv'
  <2> SUFFICES ASSUME NEW u \in Threads, u # t PROVE LockTid(u)'
    BY <1>0 DEF LockTidInv
  <2>1. LockTid(u)
    BY DEF LockTidInv
  <2>2. \A r \in locks[u] : tid'[r] = tid[r]
    <3>1. ASSUME NEW s \in locks[t], tid' = [tid EXCEPT ![s] = cur_tid[t]]
          PROVE  \A r \in locks[u] : tid'[r] = tid[r]
      <4>1. s \notin locks[u]
        BY DEF LockBits
      <4> QED  BY <3>1, <4>1 DEF TypeOK
    <3> QED  BY <1>0, <3>1, TidStep
  <2>3. NextRelease(u)' = NextRelease(u)
    BY <1>0, Frame DEF NextRelease, Lowest
  <2> QED  BY <1>0, <2>1, <2>2, <2>3, Frame DEF LockTid
<1>1. ASSUME NEW t \in Threads, Step(t),
             pc'[t] \notin {"lock", "validate", "write", "release"}
      PROVE  LockTid(t)'
  BY <1>1 DEF LockTid
<1>2. ASSUME NEW t \in Threads, PreAbort(t) PROVE LockTid(t)'
  <2>1. pc'[t] \in {"abort", "lock"} /\ locks'[t] = {}
    BY <1>2 DEF PreAbort, TypeOK, PhaseInv, Phase
  <2> QED  BY <2>1 DEF LockTid
<1>3. ASSUME NEW t \in Threads, LockRow(t) PROVE LockTid(t)'
  <2>1. /\ UNCHANGED <<tid, tids>> /\ pc[t] = "lock"
        /\ locks'[t] = locks[t] \cup {NextLock(t)}
        /\ pc'[t] = IF Unchanged(t, NextLock(t)) THEN "lock" ELSE "abort"
    BY <1>3 DEF LockRow, TypeOK
  <2>2. \A r \in locks[t] : tid[r] = tids[t][r]
    BY <2>1 DEF LockTidInv, LockTid
  <2> QED  BY <2>1, <2>2 DEF LockTid, Unchanged
<1>4. ASSUME NEW t \in Threads, Locked(t) \/ ValidateRead(t) PROVE LockTid(t)'
  <2>1. /\ UNCHANGED <<tid, tids, locks>> /\ pc[t] \in {"lock", "validate"}
        /\ pc'[t] \in {"abort", "validate"}
    BY <1>4 DEF Locked, ValidateRead, TypeOK
  <2> QED  BY <2>1 DEF LockTid, LockTidInv
<1>5. ASSUME NEW t \in Threads, Commit(t) PROVE LockTid(t)'
  <2>1. /\ UNCHANGED <<tid, tids, locks>> /\ pc[t] = "validate"
        /\ \/ pc'[t] = "abort"
           \/ pc'[t] = "write" /\ cur_tid'[t] = NewTid(t)
    BY <1>5 DEF Commit, TypeOK
  <2>2. query[t] \in Queries /\ locks[t] \subseteq AccessSet(t)
    BY <2>1, Running DEF PhaseInv, Phase, AccessSet
  <2>3. \A r \in locks[t] : tids[t][r] < NewTid(t)
    BY <2>2, MaxTidFacts
  <2> QED  BY <2>1, <2>3 DEF LockTid, LockTidInv
<1>6. ASSUME NEW t \in Threads, Install(t) PROVE LockTid(t)'
  <2>1. UNCHANGED <<tid, tids, locks, pc, cur_tid>> /\ pc[t] = "write"
    BY <1>6 DEF Install
  <2> QED  BY <2>1 DEF LockTid, LockTidInv
<1>7. ASSUME NEW t \in Threads, SetTid(t) PROVE LockTid(t)'
  <2>1. /\ tid' = [tid EXCEPT ![NextRelease(t)] = cur_tid[t]]
        /\ UNCHANGED <<locks, cur_tid>> /\ pc[t] = "write" /\ pc'[t] = "release"
    BY <1>7 DEF SetTid, TypeOK
  <2>2. NextRelease(t)' = NextRelease(t)
    BY <2>1 DEF NextRelease, Lowest
  <2>3. \A r \in locks[t] \ {NextRelease(t)} : tid'[r] = tid[r]
    BY <2>1 DEF TypeOK
  <2> QED  BY <2>1, <2>2, <2>3 DEF LockTid, LockTidInv
<1>8. ASSUME NEW t \in Threads, Release(t) PROVE LockTid(t)'
  <2>1. /\ UNCHANGED <<tid, cur_tid>> /\ pc[t] = "release" /\ pc'[t] = "write"
        /\ locks'[t] = locks[t] \ {NextRelease(t)}
    BY <1>8 DEF Release, TypeOK
  <2> QED  BY <2>1 DEF LockTid, LockTidInv
<1>9. ASSUME NEW t \in Threads,
             \/ Fetch(t) \/ ReadTid(t) \/ Copy(t) \/ Recheck(t) \/ Compute(t) \/ LockBusy(t)
             \/ Unlock(t) \/ BackOff(t) \/ Abort(t) \/ Finish(t)
      PROVE  pc'[t] \notin {"lock", "validate", "write", "release"}
  BY <1>9 DEF TypeOK, Fetch, ReadTid, Copy, Recheck, Compute, LockBusy, Unlock, BackOff,
              Abort, Finish
<1>10. CASE UNCHANGED vars
  <2>1. \A t : NextRelease(t)' = NextRelease(t)
    BY <1>10 DEF vars, NextRelease, Lowest
  <2> QED  BY <1>10, <2>1 DEF vars, LockTidInv, LockTid
<1>11. ASSUME NEW t \in Threads, Step(t) PROVE LockTid(t)'
  BY <1>1, <1>2, <1>3, <1>4, <1>5, <1>6, <1>7, <1>8, <1>9, <1>11 DEF Step
<1> QED  BY <1>0, <1>10, <1>11 DEF Next, Terminated

\* A step outside the installation: tids stay, rows too if the workload writes to
\* its copies, and nobody begins or ends an installation.
LEMMA QuietStep ==
    ASSUME TypeOK, NEW t \in Threads, Step(t),
           pc[t] \notin {"write", "release"}, ~ Commit(t)
    PROVE  /\ tid' = tid /\ (WritesLocal => data' = data)
           /\ pc'[t] \notin {"write", "release"}
<1> USE DEF TypeOK, Goto
<1>1. CASE Fetch(t) \/ ReadTid(t) \/ Copy(t) \/ Recheck(t) \/ Compute(t)
  BY <1>1 DEF Fetch, ReadTid, Copy, Recheck, Compute
<1>2. CASE PreAbort(t) \/ LockRow(t) \/ LockBusy(t) \/ Unlock(t) \/ BackOff(t)
  BY <1>2 DEF PreAbort, LockRow, LockBusy, Unlock, BackOff
<1>3. CASE Abort(t) \/ Locked(t) \/ ValidateRead(t)
  BY <1>3 DEF Abort, Locked, ValidateRead
<1> QED  BY <1>1, <1>2, <1>3 DEF Step, Install, SetTid, Release, Finish

\* A copy stays what it is, whoever makes a step.
LEMMA HoldsNext ==
    ASSUME TypeOK, PhaseInv, LockBits, LockTidInv, NEW t \in Threads, Step(t),
           NEW r \in Rows, NEW n \in Nat, NEW img, NEW k \in 0..WordCnt,
           Holds(r, n, img, k)
    PROVE  Holds(r, n, img, k)'
<1> USE DEF txnVars, copyVars, Goto
<1>0. ASSUME NEW u \in Threads, u # t
      PROVE  /\ pc'[u] = pc[u] /\ locks'[u] = locks[u] /\ NextRelease(u)' = NextRelease(u)
             /\ Installing(u, r)' <=> Installing(u, r)
  BY <1>0, Frame DEF NextRelease, Lowest, Installing
\* The row stays as it is, and t is not about to give it back.
<1>1. ASSUME tid' = tid, WritesLocal => data'[r] = data[r],
             Installing(t, r) => Installing(t, r)',
             pc'[t] = "release" => pc[t] = "release" /\ NextRelease(t)' = NextRelease(t)
      PROVE  Holds(r, n, img, k)'
  <2>1. \A u \in Threads : pc'[u] = "release" /\ NextRelease(u)' = r => n < tid'[r]
    BY <1>0, <1>1 DEF Holds
  <2>2. (\A u \in Threads : ~ Installing(u, r)') => \A u \in Threads : ~ Installing(u, r)
    BY <1>0, <1>1
  <2> QED  BY <1>1, <2>1, <2>2 DEF Holds
\* Its tid has grown.
<1>2. ASSUME n < tid'[r] PROVE Holds(r, n, img, k)'
  <2>1. tid'[r] \in Nat
    BY TypeNext DEF Next, TypeOK
  <2> QED  BY <1>2, <2>1 DEF Holds
<1>3. CASE pc[t] \notin {"write", "release"} /\ ~ Commit(t)
  <2>1. /\ tid' = tid /\ (WritesLocal => data' = data)
        /\ pc'[t] \notin {"write", "release"}
    BY <1>3, QuietStep
  <2> QED  BY <1>1, <1>3, <2>1 DEF Installing
<1>4. CASE Commit(t)
  <2>1. UNCHANGED <<tid, data>> /\ pc[t] = "validate" /\ pc'[t] \in {"write", "abort"}
    BY <1>4 DEF Commit, TypeOK
  <2> QED  BY <1>1, <2>1 DEF Installing
<1>5. CASE Install(t)
  <2>1. PICK s \in Rows : s = NextRelease(t) /\ s \in locks[t]
    BY <1>5, NextReleaseFacts DEF Install
  <2>2. /\ UNCHANGED <<tid, pc, locks>> /\ pc[t] = "write"
        /\ data'[r] = data[r] \/ r = s
    BY <1>5, <2>1 DEF Install, TypeOK
  <2>3. CASE r # s
    BY <1>1, <2>2, <2>3 DEF Installing
  <2>4. CASE r = s
    <3>1. Installing(t, r)'
      BY <2>1, <2>2, <2>4 DEF Installing
    <3>2. \A u \in Threads : pc'[u] = pc[u] /\ NextRelease(u)' = NextRelease(u)
      BY <2>2 DEF NextRelease, Lowest
    <3> QED  BY <2>2, <3>1, <3>2 DEF Holds
  <2> QED  BY <2>3, <2>4
<1>6. CASE SetTid(t)
  <2>1. PICK s \in Rows : s = NextRelease(t) /\ s \in locks[t]
    BY <1>6, NextReleaseFacts DEF SetTid
  <2>2. /\ tid' = [tid EXCEPT ![s] = cur_tid[t]] /\ UNCHANGED <<locks, data>>
        /\ pc[t] = "write" /\ pc'[t] = "release"
    BY <1>6, <2>1 DEF SetTid, TypeOK
  <2>3. CASE r = s
    <3>1. tid[r] < cur_tid[t] /\ tid[r] \in Nat /\ cur_tid[t] \in Nat /\ tid'[r] = cur_tid[t]
      BY <2>1, <2>2, <2>3 DEF LockTidInv, LockTid, TypeOK
    <3>2. n <= tid[r]
      BY DEF Holds
    <3> QED  BY <1>2, <3>1, <3>2
  <2>4. CASE r # s
    <3>1. tid'[r] = tid[r]
      BY <2>2, <2>4 DEF TypeOK
    <3>2. NextRelease(t)' = s
      BY <2>1, <2>2 DEF NextRelease, Lowest
    <3>3. \A u \in Threads : pc'[u] = "release" /\ NextRelease(u)' = r => n < tid'[r]
      BY <1>0, <2>4, <3>1, <3>2 DEF Holds
    <3>4. Installing(t, r)' <=> Installing(t, r)
      BY <2>2 DEF Installing
    <3>5. (\A u \in Threads : ~ Installing(u, r)') => \A u \in Threads : ~ Installing(u, r)
      BY <1>0, <3>4
    <3> QED  BY <2>2, <3>1, <3>3, <3>5 DEF Holds
  <2> QED  BY <2>3, <2>4
<1>7. CASE Release(t)
  <2>1. locks[t] # {} /\ pc[t] = "release"
    BY <1>7 DEF Release, PhaseInv, Phase
  <2>2. PICK s \in Rows : s = NextRelease(t) /\ s \in locks[t]
    BY <2>1, NextReleaseFacts
  <2>3. /\ UNCHANGED <<tid, data>> /\ pc'[t] = "write"
        /\ locks'[t] = locks[t] \ {s}
    BY <1>7, <2>2 DEF Release, TypeOK
  <2>4. CASE r = s
    BY <1>2, <2>1, <2>2, <2>3, <2>4 DEF Holds
  <2>5. CASE r # s
    BY <1>1, <2>1, <2>3, <2>5 DEF Installing
  <2> QED  BY <2>4, <2>5
<1>8. CASE Finish(t)
  <2>1. UNCHANGED <<tid, data>> /\ locks[t] = {} /\ pc'[t] \in {"fetch", "done"}
    BY <1>8 DEF Finish, TypeOK
  <2> QED  BY <1>1, <2>1 DEF Installing
<1>9. pc[t] \in {"write", "release"} => Install(t) \/ SetTid(t) \/ Release(t) \/ Finish(t)
  BY DEF Step, Fetch, ReadTid, Copy, Recheck, Compute, PreAbort, LockRow, LockBusy,
         Unlock, BackOff, Abort, Locked, ValidateRead, Commit
<1> QED  BY <1>3, <1>4, <1>5, <1>6, <1>7, <1>8, <1>9

LEMMA GotFacts ==
    ASSUME TypeOK, PhaseInv, NEW t \in Threads
    PROVE  /\ Got(t) \subseteq Rows
           /\ pc[t] \in {"fetch", "done"} => Got(t) = {}
           /\ pc[t] \in {"read_tid", "copy"} => NextReq(t).row \notin Got(t)
<1>1. CASE pc[t] \in {"fetch", "done"}
  <2>1. Got(t) = {}
    BY <1>1 DEF PhaseInv, Phase, Got
  <2> QED  BY <1>1, <2>1
<1>2. CASE pc[t] \notin {"fetch", "done"}
  <2>1. /\ query[t] \in Queries /\ Len(query[t]) \in Nat /\ row_cnt[t] \in 0..Len(query[t])
        /\ pc[t] \in {"read_tid", "copy", "compute"} => row_cnt[t] + 1 \in 1..Len(query[t])
    BY <1>2, Running
  <2>2. \A i \in 1..Len(query[t]) : query[t][i].row \in Rows
    BY <2>1, QueryFacts
  <2>3. Got(t) \subseteq Rows
    BY <2>1, <2>2 DEF Got
  <2>4. ASSUME pc[t] \in {"read_tid", "copy"} PROVE NextReq(t).row \notin Got(t)
    <3>1. \A i \in 1..row_cnt[t] : i \in 1..Len(query[t]) /\ i # row_cnt[t] + 1
      BY <2>1
    <3>2. \A i \in 1..row_cnt[t] : query[t][i].row # query[t][row_cnt[t] + 1].row
      BY <2>1, <2>4, <3>1, QueryFacts, QueriesAssumption
    <3> QED  BY <2>4, <3>2 DEF Got, NextReq
  <2> QED  BY <1>2, <2>3, <2>4
<1> QED  BY <1>1, <1>2

LEMMA KeepCopy ==
    ASSUME TypeOK, PhaseInv, LockBits, LockTidInv, NEW t \in Threads, Step(t),
           NEW u \in Threads, NEW r \in Rows,
           Holds(r, tids[u][r], seen[u][r], WordCnt),
           tids'[u][r] = tids[u][r], seen'[u][r] = seen[u][r]
    PROVE  Holds(r, tids[u][r], seen[u][r], WordCnt)'
<1>1. PICK n \in Nat : n = tids[u][r]
  BY DEF TypeOK
<1>2. PICK img : img = seen[u][r]
  OBVIOUS
<1>3. WordCnt \in 0..WordCnt
  BY BoundsAssumption
<1>4. Holds(r, n, img, WordCnt)'
  BY <1>1, <1>2, <1>3, HoldsNext
<1> QED  BY <1>1, <1>2, <1>4 DEF Holds

LEMMA KeepPart ==
    ASSUME TypeOK, PhaseInv, LockBits, LockTidInv, NEW t \in Threads, Step(t),
           NEW u \in Threads, NEW r \in Rows,
           Holds(r, v[u], seen[u][r], word[u]),
           v'[u] = v[u], word'[u] = word[u], seen'[u][r] = seen[u][r]
    PROVE  Holds(r, v[u], seen[u][r], word[u])'
<1>1. PICK n \in Nat : n = v[u]
  BY DEF TypeOK
<1>2. PICK img : img = seen[u][r]
  OBVIOUS
<1>3. PICK k \in 0..WordCnt : k = word[u]
  BY DEF TypeOK
<1>4. Holds(r, n, img, k)'
  BY <1>1, <1>2, <1>3, HoldsNext
<1> QED  BY <1>1, <1>2, <1>3, <1>4 DEF Holds

LEMMA CopyNext ==
    TypeOK /\ PhaseInv /\ LockBits /\ LockTidInv /\ CopyInv /\ [Next]_vars => CopyInv'
<1> SUFFICES ASSUME TypeOK, PhaseInv, LockBits, LockTidInv, CopyInv, [Next]_vars
             PROVE  CopyInv'
  OBVIOUS
<1> USE DEF txnVars, copyVars, Goto
<1> DEFINE H(u) == \A r \in Got(u) : Holds(r, tids[u][r], seen[u][r], WordCnt)
<1>0. ASSUME NEW u \in Threads
      PROVE  /\ H(u)
             /\ pc[u] = "copy" => Holds(NextReq(u).row, v[u], seen[u][NextReq(u).row], word[u])
  BY DEF CopyInv, HasCopies
\* Nothing new is copied.
<1>1. ASSUME NEW t \in Threads, Step(t), NEW u \in Threads,
             Got(u)' \subseteq Got(u), tids'[u] = tids[u] /\ seen'[u] = seen[u]
      PROVE  H(u)'
  <2> SUFFICES ASSUME NEW r \in Got(u)' PROVE Holds(r, tids[u][r], seen[u][r], WordCnt)'
    OBVIOUS
  <2>1. r \in Rows /\ r \in Got(u)
    BY <1>1, GotFacts
  <2>2. Holds(r, tids[u][r], seen[u][r], WordCnt)
    BY <1>0, <2>1
  <2> QED  BY <1>1, <2>1, <2>2, KeepCopy
<1>2. ASSUME NEW t \in Threads, Step(t), HasCopies(t)' PROVE CopyInv'
  <2> SUFFICES ASSUME NEW u \in Threads, u # t PROVE HasCopies(u)'
    BY <1>2 DEF CopyInv
  <2>1. /\ pc'[u] = pc[u] /\ query'[u] = query[u] /\ row_cnt'[u] = row_cnt[u]
        /\ seen'[u] = seen[u] /\ tids'[u] = tids[u] /\ v'[u] = v[u] /\ word'[u] = word[u]
    BY <1>2, Frame
  <2>2. Got(u)' = Got(u) /\ NextReq(u)' = NextReq(u)
    BY <2>1 DEF Got, NextReq
  <2>3. H(u)'
    BY <1>1, <1>2, <2>1, <2>2
  <2>4. ASSUME pc[u] = "copy"
        PROVE  Holds(NextReq(u).row, v[u], seen[u][NextReq(u).row], word[u])'
    <3>1. PICK r \in Rows : r = NextReq(u).row
      BY <2>4, Running
    <3>2. Holds(r, v[u], seen[u][r], word[u])
      BY <1>0, <2>4, <3>1
    <3>3. Holds(r, v[u], seen[u][r], word[u])'
      BY <1>2, <2>1, <3>2, KeepPart
    <3> QED  BY <2>2, <3>1, <3>3 DEF Holds
  <2> QED  BY <2>1, <2>3, <2>4 DEF HasCopies
<1>3. ASSUME NEW t \in Threads, Fetch(t) \/ Abort(t) \/ Finish(t) PROVE HasCopies(t)'
  <2>1. row_cnt'[t] = 0 /\ pc'[t] \in {"read_tid", "fetch", "done"}
    BY <1>3 DEF Fetch, Abort, Finish, TypeOK
  <2>2. Got(t)' = {}
    BY <2>1 DEF Got
  <2> QED  BY <2>1, <2>2 DEF HasCopies
<1>4. ASSUME NEW t \in Threads, ReadTid(t) PROVE HasCopies(t)'
  <2>1. PICK r \in Rows : r = NextReq(t).row
    BY <1>4, Running DEF ReadTid
  <2>2. /\ UNCHANGED <<tid, data, query, row_cnt, seen, tids, locked, locks>>
        /\ pc[t] = "read_tid" /\ pc'[t] = "copy" /\ ~ locked[r]
        /\ v'[t] = tid[r] /\ word'[t] = 0
    BY <1>4, <2>1 DEF ReadTid, TypeOK
  <2>3. Step(t) /\ Got(t)' = Got(t) /\ NextReq(t)' = NextReq(t)
    BY <1>4, <2>2 DEF Step, Got, NextReq
  <2>4. H(t)'
    BY <1>1, <2>2, <2>3
  <2>5. \A u \in Threads : pc'[u] = "release" => NextRelease(u)' # r
    <3> SUFFICES ASSUME NEW u \in Threads, pc'[u] = "release" PROVE NextRelease(u)' # r
      OBVIOUS
    <3>1. u # t /\ pc[u] = "release"
      BY <2>2, <2>3, Frame
    <3>2. locks[u] # {} /\ NextRelease(u)' = NextRelease(u)
      BY <2>2, <3>1 DEF PhaseInv, Phase, NextRelease, Lowest
    <3>3. NextRelease(u) \in locks[u]
      BY <3>2, NextReleaseFacts
    <3> QED  BY <2>2, <3>2, <3>3 DEF LockBits
  <2>6. Holds(r, v[t], seen[t][r], word[t])'
    BY <2>2, <2>5 DEF Holds, TypeOK
  <2>7. Holds(NextReq(t).row, v[t], seen[t][NextReq(t).row], word[t])'
    BY <2>1, <2>3, <2>6 DEF Holds
  <2> QED  BY <2>2, <2>4, <2>7 DEF HasCopies
<1>5. ASSUME NEW t \in Threads, Copy(t) PROVE HasCopies(t)'
  <2>1. PICK r \in Rows : r = NextReq(t).row
    BY <1>5, Running DEF Copy
  <2>2. PICK w \in Words : w = word[t] + 1
    BY <1>5, BoundsAssumption DEF Copy, TypeOK, Words
  <2>3. /\ UNCHANGED <<tid, data, query, row_cnt, tids, v, locks, pc>> /\ pc[t] = "copy"
        /\ seen' = [seen EXCEPT ![t] = [seen[t] EXCEPT ![r] = [seen[t][r] EXCEPT ![w] = data[r][w]]]]
        /\ word'[t] = w
    BY <1>5, <2>1, <2>2 DEF Copy, TypeOK
  <2>4. Step(t) /\ Got(t)' = Got(t) /\ NextReq(t)' = NextReq(t)
    BY <1>5, <2>3 DEF Step, Got, NextReq
  <2>5. r \notin Got(t) /\ Got(t) \subseteq Rows
    BY <2>1, <2>3, GotFacts
  <2>6. \A s \in Got(t) : seen'[t][s] = seen[t][s]
    BY <2>3, <2>5 DEF TypeOK
  <2>7. ASSUME NEW s \in Got(t)' PROVE Holds(s, tids[t][s], seen[t][s], WordCnt)'
    <3>1. s \in Rows /\ Holds(s, tids[t][s], seen[t][s], WordCnt)
      BY <1>0, <2>4, <2>5
    <3> QED  BY <2>3, <2>4, <2>6, <3>1, KeepCopy
  <2>8. Holds(r, v[t], seen[t][r], word[t])
    BY <1>0, <2>1, <2>3
  <2>9. \A u \in Threads : /\ NextRelease(u)' = NextRelease(u)
                           /\ Installing(u, r)' <=> Installing(u, r)
    BY <2>3 DEF NextRelease, Lowest, Installing
  <2>10. /\ \A x \in 1..word[t] : x \in Words /\ x # w
         /\ \A x \in 1..w : x \in 1..word[t] \/ x = w
    <3>1. word[t] \in 0..WordCnt /\ WordCnt \in Nat /\ w \in 1..WordCnt
      BY BoundsAssumption DEF TypeOK, Words
    <3> QED  BY <2>2, <3>1 DEF Words
  <2>11. /\ seen'[t][r][w] = data[r][w]
         /\ \A x \in 1..word[t] : seen'[t][r][x] = seen[t][r][x]
    BY <2>3, <2>10 DEF TypeOK, Images
  <2>12. Holds(r, v[t], seen[t][r], word[t])'
    BY <2>3, <2>8, <2>9, <2>10, <2>11 DEF Holds
  <2>13. Holds(NextReq(t).row, v[t], seen[t][NextReq(t).row], word[t])'
    BY <2>1, <2>4, <2>12 DEF Holds
  <2> QED  BY <2>7, <2>13 DEF HasCopies
<1>6. ASSUME NEW t \in Threads, Recheck(t) PROVE HasCopies(t)'
  <2>1. PICK r \in Rows : r = NextReq(t).row
    BY <1>6, Running DEF Recheck
  <2>2. /\ UNCHANGED <<tid, data, query, row_cnt, locks, locked, seen>> /\ pc[t] = "copy"
        /\ word[t] = WordCnt
        /\ \/ /\ tid[r] = v[t] /\ ~ locked[r] /\ pc'[t] = "compute"
              /\ tids' = [tids EXCEPT ![t] = [tids[t] EXCEPT ![r] = v[t]]]
           \/ pc'[t] = "read_tid" /\ tids' = tids
    BY <1>6, <2>1 DEF Recheck, TypeOK
  <2>3. Step(t)
    BY <1>6 DEF Step
  <2>4. CASE pc'[t] = "read_tid" /\ tids' = tids
    <3>1. Got(t)' = Got(t)
      BY <2>2, <2>4 DEF Got
    <3>2. H(t)'
      BY <1>1, <2>2, <2>3, <2>4, <3>1
    <3> QED  BY <2>4, <3>2 DEF HasCopies
  <2>5. CASE /\ pc'[t] = "compute"
             /\ tids' = [tids EXCEPT ![t] = [tids[t] EXCEPT ![r] = v[t]]]
    <3>1. Got(t)' = Got(t) \cup {r}
      <4>1. row_cnt[t] \in Nat /\ 1..(row_cnt[t] + 1) = 1..row_cnt[t] \cup {row_cnt[t] + 1}
        BY DEF TypeOK
      <4>2. Got(t)' = {query[t][i].row : i \in 1..(row_cnt[t] + 1)}
        BY <2>2, <2>5 DEF Got
      <4>3. Got(t) = {query[t][i].row : i \in 1..row_cnt[t]}
        BY <2>2 DEF Got
      <4> QED  BY <2>1, <4>1, <4>2, <4>3 DEF NextReq
    <3>2. r \notin Got(t) /\ Got(t) \subseteq Rows
      BY <2>1, <2>2, GotFacts
    <3>3. tids'[t][r] = v[t] /\ \A s \in Got(t) : tids'[t][s] = tids[t][s]
      BY <2>5, <3>2 DEF TypeOK
    <3>4. ASSUME NEW s \in Got(t) PROVE Holds(s, tids[t][s], seen[t][s], WordCnt)'
      <4>1. s \in Rows /\ Holds(s, tids[t][s], seen[t][s], WordCnt)
        BY <1>0, <3>2
      <4> QED  BY <2>2, <2>3, <3>3, <4>1, KeepCopy
    <3>5. Holds(r, tids[t][r], seen[t][r], WordCnt)'
      <4>1. PICK n \in Nat : n = v[t]
        BY DEF TypeOK
      <4>2. PICK img : img = seen[t][r]
        OBVIOUS
      <4>3. WordCnt \in 0..WordCnt
        BY BoundsAssumption
      <4>4. Holds(r, n, img, WordCnt)
        BY <1>0, <2>1, <2>2, <4>1, <4>2
      <4>5. Holds(r, n, img, WordCnt)'
        BY <2>3, <4>3, <4>4, HoldsNext
      <4> QED  BY <2>2, <3>3, <4>1, <4>2, <4>5 DEF Holds
    <3>6. H(t)'
      BY <3>1, <3>4, <3>5
    <3> QED  BY <2>5, <3>6 DEF HasCopies
  <2> QED  BY <2>2, <2>4, <2>5
<1>7. ASSUME NEW t \in Threads, Compute(t) PROVE HasCopies(t)'
  <2>1. /\ UNCHANGED <<query, seen, tids>> /\ row_cnt'[t] = row_cnt[t] + 1
        /\ pc[t] = "compute" /\ pc'[t] \in {"pre_abort", "read_tid"} /\ Step(t)
    BY <1>7 DEF Compute, TypeOK, Step
  <2>2. Got(t)' = Got(t)
    BY <2>1 DEF Got
  <2>3. H(t)'
    BY <1>1, <2>1, <2>2
  <2> QED  BY <2>1, <2>3 DEF HasCopies
<1>8. ASSUME NEW t \in Threads, Step(t),
             \/ PreAbort(t) \/ LockRow(t) \/ LockBusy(t) \/ Unlock(t) \/ BackOff(t)
             \/ Locked(t) \/ ValidateRead(t) \/ Commit(t) \/ Install(t) \/ SetTid(t) \/ Release(t)
      PROVE HasCopies(t)'
  <2>1. UNCHANGED <<query, row_cnt, seen, tids>>
    BY <1>8 DEF PreAbort, LockRow, LockBusy, Unlock, BackOff, Locked, ValidateRead, Commit,
                Install, SetTid, Release
  <2>2. pc[t] # "compute" /\ pc'[t] \notin {"compute", "copy"}
    BY <1>8 DEF TypeOK, PreAbort, LockRow, LockBusy, Unlock, BackOff, Locked, ValidateRead,
                Commit, Install, SetTid, Release
  <2>3. Got(t)' = Got(t)
    BY <2>1, <2>2 DEF Got
  <2>4. H(t)'
    BY <1>1, <1>8, <2>1, <2>3
  <2> QED  BY <2>2, <2>4 DEF HasCopies
<1>9. CASE UNCHANGED vars
  <2>1. \A u \in Threads : Got(u)' = Got(u) /\ NextReq(u)' = NextReq(u)
    BY <1>9 DEF vars, Got, NextReq
  <2>2. \A u, r : NextRelease(u)' = NextRelease(u) /\ (Installing(u, r)' <=> Installing(u, r))
    BY <1>9 DEF vars, NextRelease, Lowest, Installing
  <2>3. \A u \in Threads : H(u)'
    BY <1>0, <1>9, <2>1, <2>2 DEF vars, Holds
  <2>4. \A u \in Threads : pc'[u] = "copy" =>
           Holds(NextReq(u).row, v[u], seen[u][NextReq(u).row], word[u])'
    BY <1>0, <1>9, <2>1, <2>2 DEF vars, Holds
  <2> QED  BY <2>3, <2>4 DEF CopyInv, HasCopies
<1>10. ASSUME NEW t \in Threads, Step(t) PROVE HasCopies(t)'
  BY <1>3, <1>4, <1>5, <1>6, <1>7, <1>8, <1>10 DEF Step
<1> QED  BY <1>2, <1>9, <1>10 DEF Next, Terminated

LEMMA InitVInv == Init => VInv
<1> SUFFICES ASSUME Init PROVE VInv
  OBVIOUS
<1>1. Image(InitVal) \in Images /\ NoReads \in [Rows -> Images]
  BY ImageFacts DEF Values
<1>2. 0 \in 0..WordCnt /\ 0 \in 0..MaxTxn
  BY BoundsAssumption
<1>3. settings \in [pre_abort : BOOLEAN, no_wait : BOOLEAN]
  BY SettingsAssumption DEF Init
<1>4. TypeOK
  BY <1>1, <1>2, <1>3 DEF Init, TypeOK, Labels
<1>5. PhaseInv
  BY DEF Init, PhaseInv, Phase
<1>6. LockBits
  BY DEF Init, LockBits
<1>7. LockTidInv
  BY DEF Init, LockTidInv, LockTid
<1>8. \A t \in Threads : Got(t) = {}
  BY DEF Init, Got
<1>9. CopyInv
  BY <1>8 DEF Init, CopyInv, HasCopies
<1> QED  BY <1>4, <1>5, <1>6, <1>7, <1>9 DEF VInv

\* The strengthened invariant behind the tids: a tid changes under its row's lock
\* only, and what has been copied under a tid is the row as long as the row has
\* that tid and nobody installs it.
THEOREM VersionInvariance == Spec => []VInv
<1>1. VInv /\ [Next]_vars => VInv'
  BY TypeNext, PhaseNext, LockNext, LockTidNext, CopyNext DEF VInv
<1> QED  BY <1>1, InitVInv, PTL DEF Spec

\* The lock bits are the locks that the transactions count: whichever way out of
\* txn_man::validate_silo is taken, every row locked is released once, and by the
\* one that locked it.
THEOREM LockBitsTheorem == Spec => []LockBits
<1>1. VInv => LockBits
  BY DEF VInv
<1> QED  BY <1>1, VersionInvariance, PTL

\* The assertion of Row_silo::write holds: the tid made up from what was read is
\* above the tids of the rows to be written, since they are locked and validated.
THEOREM TidGrowsTheorem == Spec => []TidGrows
<1>1. VInv => TidGrows
  BY DEF VInv, LockTidInv, LockTid, TidGrows
<1> QED  BY <1>1, VersionInvariance, PTL

\* Row_silo::access needs no lock: if the workload writes to its copies only, two
\* looks at the tid around the copy and one at validation are enough to know that
\* the copy is the row, whole.
THEOREM TidNamesVersionTheorem == ASSUME WritesLocal PROVE Spec => []TidNamesVersion
<1>1. VInv => TidNamesVersion
  <2> SUFFICES ASSUME VInv, NEW t \in Threads, NEW r \in Rows,
                      \E i \in 1..row_cnt[t] : query[t][i].row = r,
                      tid[r] = tids[t][r], \A u \in Threads : ~ Installing(u, r)
               PROVE  seen[t][r] = data[r]
    BY DEF TidNamesVersion
  <2>1. r \in Got(t)
    <3>1. row_cnt[t] \in Nat
      BY DEF VInv, TypeOK
    <3>2. PICK i \in 1..row_cnt[t] : query[t][i].row = r
      OBVIOUS
    <3>3. i \in 1..(IF pc[t] = "compute" THEN row_cnt[t] + 1 ELSE row_cnt[t])
      BY <3>1
    <3> QED  BY <3>2, <3>3 DEF Got
  <2>2. Holds(r, tids[t][r], seen[t][r], WordCnt)
    BY <2>1 DEF VInv, CopyInv, HasCopies
  <2>3. \A w \in Words : seen[t][r][w] = data[r][w]
    BY <2>2 DEF Holds, Words
  <2>4. seen[t][r] \in Images /\ data[r] \in Images
    BY DEF VInv, TypeOK
  <2> QED  BY <2>3, <2>4 DEF Images
<1> QED  BY <1>1, VersionInvariance, PTL

\* With _validation_no_wait false, transactions that spin in lock() do not wait in
\* a circle: each wants a row above all it has locked, since the write set is
\* sorted, and the one that wants the highest row goes on.
THEOREM NoLockCycleTheorem == Spec => []NoLockCycle
<1>1. VInv => NoLockCycle
  <2> SUFFICES ASSUME VInv, NEW S \in SUBSET Threads, S # {},
                      \A t \in S : \E u \in S : Blocked(t, u)
               PROVE  FALSE
    BY DEF NoLockCycle
  <2>1. ASSUME NEW t \in S
        PROVE  /\ NextLock(t) \in Rows /\ NextLock(t) \in WriteSet(t) \ locks[t]
               /\ \A r \in locks[t] : r < NextLock(t)
    <3>1. pc[t] = "lock" /\ locks[t] # WriteSet(t)
      BY DEF Blocked
    <3>2. NextLock(t) \in Rows /\ NextLock(t) \in WriteSet(t) \ locks[t]
      BY <3>1, NextLockFacts DEF VInv
    <3> QED  BY <3>1, <3>2 DEF VInv, PhaseInv, Phase
  <2> DEFINE W == {NextLock(t) : t \in S}
  <2>2. W \in SUBSET Rows /\ W # {}
    BY <2>1
  <2>3. PICK w \in W : \A x \in W : x <= w
    <3> HIDE DEF W
    <3> QED  BY <2>2, HighestRow
  <2>4. PICK t \in S : NextLock(t) = w
    BY <2>3
  <2>5. PICK u \in S : NextLock(t) \in locks[u]
    BY DEF Blocked
  <2>6. NextLock(t) < NextLock(u) /\ NextLock(u) <= NextLock(t)
    BY <2>1, <2>3, <2>4, <2>5
  <2>7. NextLock(t) \in Nat /\ NextLock(u) \in Nat
    BY <2>1, RowsAssumption
  <2> QED  BY <2>6, <2>7
<1> QED  BY <1>1, VersionInvariance, PTL

----------------------------------------------------------------------------
(* The history.                                                            *)

Entries == [txn : Threads \X (1..MaxTxn), reads : [Rows -> Images],
            writes : SUBSET Rows, ok : BOOLEAN]

\* t is in the history, at place p, and not done with its locks.
InFlight(t) == pc[t] \in {"validate", "write", "release"}
At(t, p) == InFlight(t) /\ p \in 1..Len(order) /\ order[p].txn = Written(t)

OrderInv ==
    /\ order \in Seq(Entries)
    /\ \A i, j \in 1..Len(order) : order[i].txn = order[j].txn => i = j
    /\ \A i \in 1..Len(order) : \E t \in Threads, n \in 1..MaxTxn :
          order[i].txn = <<t, n>> /\ (n <= txn_cnt[t] \/ At(t, i))
    /\ \A t \in Threads : InFlight(t) => \E p \in 1..Len(order) : At(t, p)
    /\ \A t \in Threads, p \in 1..Len(order) : At(t, p) =>
          /\ order[p].writes = WriteSet(t) /\ order[p].reads = seen[t]
          /\ order[p].ok <=> pc[t] # "validate"

\* Nobody behind t has written a row that t has locked, or has validated a read of
\* one; and those behind t that have written what t has accessed give themselves
\* away, by a tid or by an installation that is under way.
Away(r, n) == tid[r] > n \/ \E u \in Threads : Installing(u, r)

Behind(t, p) ==
    \A j \in (p + 1)..Len(order) :
        /\ \A r \in locks[t] :
              r \notin order[j].writes /\ (order[j].ok => order[j].reads[r] = NoImage)
        /\ \A u \in Threads : At(u, j) /\ pc[u] = "validate" =>
              \A i \in 1..checked[u] : query[u][i].row \notin locks[t]
        /\ pc[t] = "validate" /\ order[j].ok =>
              \A r \in AccessSet(t) \cap order[j].writes : Away(r, tids[t][r])

BehindInv == \A t \in Threads, p \in 1..Len(order) : At(t, p) => Behind(t, p)

\* What t has validated is what it would read at its place.
ReadInv ==
    \A t \in Threads, p \in 1..Len(order) : At(t, p) /\ pc[t] = "validate" =>
        \A i \in 1..checked[t] : query[t][i].type = "RD" =>
            seen[t][query[t][i].row] = ImageBefore(p, query[t][i].row)

\* The table is what the history says, but for the rows that are being installed.
Installed(r) ==
    /\ (\A u \in Threads : ~ Installing(u, r)) => data[r] = ImageBefore(Len(order) + 1, r)
    /\ \A u \in Threads : Installing(u, r) =>
          /\ ImageBefore(Len(order) + 1, r) = Image(Written(u))
          /\ r = NextRelease(u) =>
                \A w \in 1..(IF pc[u] = "release" THEN WordCnt ELSE word[u]) :
                    data[r][w] = Written(u)

DataInv == \A r \in Rows : Installed(r)

\* Only rows of the query are copied, and a copy that was found unchanged is whole.
Seen(t) ==
    /\ \A r \in Rows \ AccessSet(t) : seen[t][r] = NoImage
    /\ \A r \in Got(t) : \E val \in Values : seen[t][r] = Image(val)

SeenInv == \A t \in Threads : Seen(t)

HInv == OrderInv /\ BehindInv /\ ReadInv /\ DataInv /\ Serializable

SInv == VInv /\ SeenInv /\ HInv

----------------------------------------------------------------------------
(* Images in a history, and what its changes do to them.                   *)

WritersIn(ord, i, r) == {j \in 1..(i - 1) : ord[j].ok /\ r \in ord[j].writes}

ImageIn(ord, i, r) ==
    IF WritersIn(ord, i, r) = {} THEN Image(InitVal)
    ELSE LET j == CHOOSE k \in WritersIn(ord, i, r) :
                     \A l \in WritersIn(ord, i, r) : l <= k
         IN  Image(ord[j].txn)

LEMMA ImageBeforeIn ==
    \A i, r : /\ ImageBefore(i, r) = ImageIn(order, i, r)
              /\ ImageBefore(i, r)' = ImageIn(order', i, r)
BY DEF ImageBefore, ImageIn, Writers, WritersIn, Image

\* The last writer's image.
LEMMA LastWriter ==
    ASSUME NEW ord, NEW i \in Nat, NEW r, NEW k \in WritersIn(ord, i, r),
           \A l \in WritersIn(ord, i, r) : l <= k
    PROVE  ImageIn(ord, i, r) = Image(ord[k].txn)
<1> DEFINE W == WritersIn(ord, i, r)
<1>1. W \subseteq Nat
  BY DEF WritersIn
<1>2. \A m \in W : (\A l \in W : l <= m) => m = k
  BY <1>1
<1>3. (CHOOSE m \in W : \A l \in W : l <= m) = k
  <2> HIDE DEF W
  <2> QED  BY <1>2
<1> QED  BY <1>3 DEF ImageIn

LEMMA SomeLastWriter ==
    ASSUME NEW ord, NEW i \in Nat, NEW r, WritersIn(ord, i, r) # {}
    PROVE  \E k \in WritersIn(ord, i, r) : \A l \in WritersIn(ord, i, r) : l <= k
<1>1. WritersIn(ord, i, r) \in SUBSET Nat /\ \A x \in WritersIn(ord, i, r) : x <= i
  BY DEF WritersIn
<1> QED  BY <1>1, NatGreatest

\* Two histories with the same writers of r, in the same order, at places that f
\* relates.
Related(ord1, ord2, i1, i2, r, f) ==
    /\ f \in [Nat -> Nat] /\ \A a, b \in Nat : a < b => f[a] < f[b]
    /\ \A j \in WritersIn(ord2, i2, r) :
          f[j] \in WritersIn(ord1, i1, r) /\ ord2[j].txn = ord1[f[j]].txn
    /\ \A k \in WritersIn(ord1, i1, r) : \E j \in WritersIn(ord2, i2, r) : f[j] = k

LEMMA SameWriters ==
    ASSUME NEW ord1, NEW ord2, NEW i1 \in Nat, NEW i2 \in Nat, NEW r, NEW f,
           Related(ord1, ord2, i1, i2, r, f)
    PROVE  ImageIn(ord2, i2, r) = ImageIn(ord1, i1, r)
<1>1. CASE WritersIn(ord2, i2, r) = {}
  <2>1. WritersIn(ord1, i1, r) = {}
    BY <1>1 DEF Related
  <2> QED  BY <1>1, <2>1 DEF ImageIn
<1>2. CASE WritersIn(ord2, i2, r) # {}
  <2>1. PICK j \in WritersIn(ord2, i2, r) : \A l \in WritersIn(ord2, i2, r) : l <= j
    BY <1>2, SomeLastWriter
  <2>2. ASSUME NEW k \in WritersIn(ord1, i1, r) PROVE k <= f[j]
    <3>1. PICK l \in WritersIn(ord2, i2, r) : f[l] = k
      BY DEF Related
    <3>2. l \in Nat /\ j \in Nat /\ l <= j
      BY <2>1 DEF WritersIn
    <3>3. l = j \/ l < j
      BY <3>2
    <3> QED  BY <3>1, <3>2, <3>3 DEF Related
  <2>3. ImageIn(ord2, i2, r) = Image(ord2[j].txn)
    BY <2>1, LastWriter
  <2>4. f[j] \in WritersIn(ord1, i1, r) /\ ord2[j].txn = ord1[f[j]].txn
    BY DEF Related
  <2>5. ImageIn(ord1, i1, r) = Image(ord1[f[j]].txn)
    BY <2>2, <2>4, LastWriter
  <2> QED  BY <2>3, <2>4, <2>5
<1> QED  BY <1>1, <1>2

\* Histories that agree on who has written r.
LEMMA SamePlaces ==
    ASSUME NEW ord1, NEW ord2, NEW i1 \in Nat, NEW i2 \in Nat, NEW r,
           WritersIn(ord2, i2, r) = WritersIn(ord1, i1, r),
           \A j \in WritersIn(ord1, i1, r) : ord2[j].txn = ord1[j].txn
    PROVE  ImageIn(ord2, i2, r) = ImageIn(ord1, i1, r)
<1>1. PICK f \in [Nat -> Nat] : \A n \in Nat : f[n] = n
  <2>1. [n \in Nat |-> n] \in [Nat -> Nat] /\ \A n \in Nat : [m \in Nat |-> m][n] = n
    OBVIOUS
  <2> QED  BY <2>1
<1>2. WritersIn(ord1, i1, r) \subseteq Nat
  BY DEF WritersIn
<1>3. \A a, b \in Nat : a < b => f[a] < f[b]
  BY <1>1
<1>4. \A j \in WritersIn(ord2, i2, r) :
         f[j] \in WritersIn(ord1, i1, r) /\ ord2[j].txn = ord1[f[j]].txn
  BY <1>1, <1>2
<1>5. \A k \in WritersIn(ord1, i1, r) : \E j \in WritersIn(ord2, i2, r) : f[j] = k
  BY <1>1, <1>2
<1>6. Related(ord1, ord2, i1, i2, r, f)
  BY <1>1, <1>3, <1>4, <1>5 DEF Related
<1> QED  BY <1>6, SameWriters

\* An entry that is not committed is removed.
Shift(p, i) == IF i < p THEN i ELSE i + 1

LEMMA ImageRemoved ==
    ASSUME NEW ord1, NEW ord2, NEW n \in Nat, NEW p \in 1..n, NEW r,
           ~ ord1[p].ok, \A i \in 1..(n - 1) : ord2[i] = ord1[Shift(p, i)],
           NEW i \in 1..n
    PROVE  ImageIn(ord2, i, r) = ImageIn(ord1, Shift(p, i), r)
<1>1. PICK f \in [Nat -> Nat] : \A m \in Nat : f[m] = Shift(p, m)
  <2> DEFINE g == [m \in Nat |-> Shift(p, m)]
  <2>1. g \in [Nat -> Nat] /\ \A m \in Nat : g[m] = Shift(p, m)
    BY DEF Shift
  <2> QED  BY <2>1
<1>2. \A a, b \in Nat : a < b => f[a] < f[b]
  BY <1>1 DEF Shift
<1>3. ASSUME NEW j \in WritersIn(ord2, i, r)
      PROVE  f[j] \in WritersIn(ord1, Shift(p, i), r) /\ ord2[j].txn = ord1[f[j]].txn
  <2>1. j \in 1..(i - 1) /\ j \in 1..(n - 1) /\ ord2[j].ok /\ r \in ord2[j].writes
    BY DEF WritersIn
  <2>2. ord2[j] = ord1[Shift(p, j)] /\ f[j] = Shift(p, j)
    BY <1>1, <2>1
  <2>3. Shift(p, j) \in 1..(Shift(p, i) - 1)
    BY <2>1 DEF Shift
  <2> QED  BY <2>1, <2>2, <2>3 DEF WritersIn
<1>4. ASSUME NEW k \in WritersIn(ord1, Shift(p, i), r)
      PROVE  \E j \in WritersIn(ord2, i, r) : f[j] = k
  <2>1. k \in 1..(Shift(p, i) - 1) /\ ord1[k].ok /\ r \in ord1[k].writes /\ k # p
    BY DEF WritersIn
  <2>2. PICK j \in 1..(i - 1) : k = Shift(p, j)
    <3>1. CASE k < p
      <4>1. k \in 1..(i - 1) /\ k = Shift(p, k)
        BY <2>1, <3>1 DEF Shift
      <4> QED  BY <4>1
    <3>2. CASE k > p
      <4>1. k - 1 \in 1..(i - 1) /\ k = Shift(p, k - 1)
        BY <2>1, <3>2 DEF Shift
      <4> QED  BY <4>1
    <3> QED  BY <2>1, <3>1, <3>2
  <2>3. j \in 1..(n - 1) /\ j \in Nat
    OBVIOUS
  <2>4. ord2[j] = ord1[k] /\ f[j] = k
    BY <1>1, <2>2, <2>3
  <2> QED  BY <2>1, <2>2, <2>4 DEF WritersIn
<1>5. Shift(p, i) \in Nat /\ i \in Nat
  BY DEF Shift
<1>6. Related(ord1, ord2, Shift(p, i), i, r, f)
  BY <1>1, <1>2, <1>3, <1>4 DEF Related
<1> QED  BY <1>5, <1>6, SameWriters

----------------------------------------------------------------------------
(* Places in the history.                                                  *)

LEMMA OrderFacts ==
    ASSUME OrderInv
    PROVE  /\ Len(order) \in Nat /\ DOMAIN order = 1..Len(order)
           /\ \A i \in 1..Len(order) :
                 /\ order[i] \in Entries /\ order[i].ok \in BOOLEAN
                 /\ order[i].reads \in [Rows -> Images] /\ order[i].writes \in SUBSET Rows
                 /\ order[i].txn \in Threads \X (1..MaxTxn)
<1>1. order \in Seq(Entries)
  BY DEF OrderInv
<1>2. Len(order) \in Nat /\ DOMAIN order = 1..Len(order)
  BY <1>1
<1>3. \A i \in 1..Len(order) : order[i] \in Entries
  BY <1>1
<1> QED  BY <1>2, <1>3 DEF Entries

LEMMA AtFacts ==
    ASSUME OrderInv, NEW t, NEW p, At(t, p)
    PROVE  /\ p \in 1..Len(order) /\ Len(order) \in Nat /\ InFlight(t)
           /\ \A q : At(t, q) => q = p
           /\ \A u : At(u, p) => u = t
<1>1. Len(order) \in Nat
  BY OrderFacts
<1>2. ASSUME NEW q, At(t, q) PROVE q = p
  BY <1>2 DEF At, OrderInv
<1>3. ASSUME NEW u, At(u, p) PROVE u = t
  BY <1>3 DEF At, Written
<1> QED  BY <1>1, <1>2, <1>3 DEF At

\* Where t is, and what stands there.
LEMMA PlaceFacts ==
    ASSUME OrderInv, NEW t \in Threads, InFlight(t)
    PROVE  \E p \in 1..Len(order) :
              /\ At(t, p)
              /\ order[p].writes = WriteSet(t) /\ order[p].reads = seen[t]
              /\ order[p].ok <=> pc[t] # "validate"
BY DEF OrderInv

\* The history stays, and so does what its transactions have accessed.
Kept ==
    /\ order' = order /\ txn_cnt' = txn_cnt
    /\ \A u \in Threads : InFlight(u)' <=> InFlight(u)
    /\ \A u \in Threads : InFlight(u) =>
          /\ pc'[u] = "validate" <=> pc[u] = "validate"
          /\ query'[u] = query[u] /\ seen'[u] = seen[u] /\ tids'[u] = tids[u]

LEMMA KeptFacts ==
    ASSUME Kept
    PROVE  /\ \A u \in Threads : \A p : At(u, p)' <=> At(u, p)
           /\ \A i, r : ImageBefore(i, r)' = ImageBefore(i, r)
           /\ \A u \in Threads : InFlight(u) => WriteSet(u)' = WriteSet(u) /\ AccessSet(u)' = AccessSet(u)
           /\ \A u \in Threads : Written(u)' = Written(u)
<1>1. \A u \in Threads : Written(u)' = Written(u)
  BY DEF Kept, Written
<1>2. \A u \in Threads : \A p : At(u, p)' <=> At(u, p)
  BY <1>1 DEF Kept, At
<1>3. \A i, r : ImageBefore(i, r)' = ImageBefore(i, r)
  BY ImageBeforeIn DEF Kept
<1>4. \A u \in Threads : InFlight(u) => WriteSet(u)' = WriteSet(u) /\ AccessSet(u)' = AccessSet(u)
  BY Same DEF Kept
<1> QED  BY <1>1, <1>2, <1>3, <1>4

LEMMA KeptOrder ==
    ASSUME OrderInv, Kept
    PROVE  OrderInv' /\ (Serializable => Serializable')
<1>1. order' = order /\ txn_cnt' = txn_cnt
  BY DEF Kept
<1>2. /\ order' \in Seq(Entries)
      /\ \A i, j \in 1..Len(order') : order'[i].txn = order'[j].txn => i = j
  BY <1>1 DEF OrderInv
<1>3. \A i \in 1..Len(order') : \E t \in Threads, n \in 1..MaxTxn :
          order'[i].txn = <<t, n>> /\ (n <= txn_cnt'[t] \/ At(t, i)')
  BY <1>1, KeptFacts DEF OrderInv
<1>4. \A t \in Threads : InFlight(t)' => \E p \in 1..Len(order') : At(t, p)'
  BY <1>1, KeptFacts DEF OrderInv, Kept
<1>5. ASSUME NEW t \in Threads, NEW p \in 1..Len(order'), At(t, p)'
      PROVE  /\ order'[p].writes = WriteSet(t)' /\ order'[p].reads = seen'[t]
             /\ order'[p].ok <=> pc'[t] # "validate"
  <2>1. At(t, p) /\ InFlight(t) /\ p \in 1..Len(order)
    BY <1>1, <1>5, KeptFacts DEF At
  <2>2. /\ order[p].writes = WriteSet(t) /\ order[p].reads = seen[t]
        /\ order[p].ok <=> pc[t] # "validate"
    BY <2>1 DEF OrderInv
  <2>3. WriteSet(t)' = WriteSet(t)
    BY <2>1, KeptFacts
  <2> QED  BY <1>1, <2>1, <2>2, <2>3 DEF Kept
<1>6. OrderInv'
  BY <1>2, <1>3, <1>4, <1>5 DEF OrderInv
<1>7. Serializable => Serializable'
  BY <1>1, KeptFacts DEF Serializable
<1> QED  BY <1>6, <1>7

\* A transaction that has not all its locks touches neither the history nor the
\* table.
LEMMA IdleStep ==
    ASSUME TypeOK, NEW t \in Threads, Step(t), ~ InFlight(t), ~ Locked(t)
    PROVE  /\ Kept /\ tid' = tid /\ (WritesLocal => data' = data)
           /\ checked' = checked /\ ~ InFlight(t)'
<1> USE DEF TypeOK, Goto, txnVars, copyVars
<1>1. CASE Fetch(t) \/ ReadTid(t) \/ Copy(t) \/ Recheck(t) \/ Compute(t)
  <2>1. /\ order' = order /\ txn_cnt' = txn_cnt /\ tid' = tid /\ checked' = checked
        /\ (WritesLocal => data' = data) /\ ~ InFlight(t)'
    BY <1>1 DEF Fetch, ReadTid, Copy, Recheck, Compute, InFlight
  <2> QED  BY <2>1, Frame DEF Kept, InFlight
<1>2. CASE PreAbort(t) \/ LockRow(t) \/ LockBusy(t) \/ Unlock(t) \/ BackOff(t) \/ Abort(t)
  <2>1. /\ order' = order /\ txn_cnt' = txn_cnt /\ tid' = tid /\ checked' = checked
        /\ data' = data /\ ~ InFlight(t)'
    BY <1>2 DEF PreAbort, LockRow, LockBusy, Unlock, BackOff, Abort, InFlight
  <2> QED  BY <2>1, Frame DEF Kept, InFlight
<1> QED  BY <1>1, <1>2 DEF Step, ValidateRead, Commit, Install, SetTid, Release, Finish, InFlight

----------------------------------------------------------------------------
(* Steps that keep the history.                                            *)

\* Whoever accessed a row in vain can tell for ever.
LEMMA AwayNext ==
    ASSUME TypeOK, PhaseInv, LockBits, LockTidInv, NEW t \in Threads, Step(t),
           NEW r \in Rows, NEW n \in Nat, NEW img, NEW k, Holds(r, n, img, k), Away(r, n)
    PROVE  Away(r, n)'
<1> USE DEF Goto
<1>1. CASE tid[r] > n
  <2>1. tid[r] \in Nat /\ tid'[r] \in Nat /\ tid[r] <= tid'[r]
    <3>1. tid[r] \in Nat /\ tid'[r] \in Nat
      BY TypeNext DEF Next, TypeOK
    <3>2. CASE SetTid(t)
      <4>1. PICK s \in Rows : s = NextRelease(t) /\ s \in locks[t]
        BY <3>2, NextReleaseFacts DEF SetTid
      <4>2. tid' = [tid EXCEPT ![s] = cur_tid[t]] /\ tid[s] < cur_tid[t]
        BY <3>2, <4>1 DEF SetTid, LockTidInv, LockTid
      <4>3. cur_tid[t] \in Nat /\ tid[s] \in Nat
        BY DEF TypeOK
      <4>4. tid'[r] = IF r = s THEN cur_tid[t] ELSE tid[r]
        BY <4>2 DEF TypeOK
      <4> QED  BY <3>1, <4>2, <4>3, <4>4
    <3>3. CASE ~ SetTid(t)
      BY <3>1, <3>3, TidStep
    <3> QED  BY <3>2, <3>3
  <2> QED  BY <1>1, <2>1 DEF Away
<1>2. ASSUME NEW u \in Threads, Installing(u, r), tid[r] = n PROVE Away(r, n)'
  <2>1. CASE u # t
    BY <1>2, <2>1, Frame DEF Away, Installing
  <2>2. CASE u = t
    <3>1. Install(t) \/ SetTid(t) \/ Release(t)
      BY <1>2, <2>2 DEF Installing, Step, Fetch, ReadTid, Copy, Recheck, Compute, PreAbort,
            LockRow, LockBusy, Unlock, BackOff, Abort, Locked, ValidateRead, Commit, Finish
    <3>2. CASE Install(t) \/ SetTid(t)
      <4>1. Installing(t, r)'
        BY <1>2, <2>2, <3>2 DEF Installing, Install, SetTid, TypeOK
      <4> QED  BY <4>1 DEF Away
    <3>3. CASE Release(t)
      <4>1. pc[t] = "release" /\ r # NextRelease(t)
        BY <1>2, <3>3 DEF Release, Holds, TypeOK
      <4>2. Installing(t, r)'
        BY <1>2, <2>2, <3>3, <4>1 DEF Installing, Release, TypeOK
      <4> QED  BY <4>2 DEF Away
    <3> QED  BY <3>1, <3>2, <3>3
  <2> QED  BY <2>1, <2>2
<1>3. tid[r] \in Nat /\ n <= tid[r]
  BY DEF TypeOK, Holds
<1> QED  BY <1>1, <1>2, <1>3 DEF Away

\* A transaction that validates has copies of all the rows of its query.
LEMMA Validating ==
    ASSUME VInv, NEW t \in Threads, pc[t] \in {"lock", "validate", "write", "release"}
    PROVE  /\ query[t] \in Queries /\ Len(query[t]) \in Nat
           /\ AccessSet(t) = {query[t][i].row : i \in 1..Len(query[t])}
           /\ Got(t) = AccessSet(t) /\ AccessSet(t) \subseteq Rows
           /\ \A r \in AccessSet(t) :
                 tids[t][r] \in Nat /\ Holds(r, tids[t][r], seen[t][r], WordCnt)
<1>1. /\ query[t] \in Queries /\ Len(query[t]) \in Nat /\ row_cnt[t] = Len(query[t])
  BY Running DEF VInv, PhaseInv, Phase
<1>2. AccessSet(t) \subseteq Rows /\ AccessSet(t) = {query[t][i].row : i \in 1..Len(query[t])}
  BY <1>1, AccessFacts
<1>3. Got(t) = AccessSet(t)
  BY <1>1, <1>2 DEF Got
<1>4. \A r \in Rows : tids[t][r] \in Nat
  BY DEF VInv, TypeOK
<1> QED  BY <1>1, <1>2, <1>3, <1>4 DEF VInv, CopyInv, HasCopies

LEMMA BehindKept ==
    ASSUME VInv, OrderInv, BehindInv, Kept, NEW t \in Threads, Step(t),
           \A u \in Threads : InFlight(u) => locks'[u] \subseteq locks[u],
           \A u, s \in Threads :
               u # s /\ InFlight(u) /\ pc[s] = "validate" =>
                   \A i \in 1..checked'[s] :
                       i \in 1..checked[s] \/ query[s][i].row \notin locks[u]
    PROVE  BehindInv'
<1> SUFFICES ASSUME NEW u \in Threads, NEW p \in 1..Len(order'), At(u, p)',
                    NEW j \in (p + 1)..Len(order')
             PROVE  /\ \A r \in locks'[u] :
                          /\ r \notin order'[j].writes
                          /\ order'[j].ok => order'[j].reads[r] = NoImage
                    /\ \A s \in Threads : At(s, j)' /\ pc'[s] = "validate" =>
                          \A i \in 1..checked'[s] : query'[s][i].row \notin locks'[u]
                    /\ pc'[u] = "validate" /\ order'[j].ok =>
                          \A r \in AccessSet(u)' \cap order'[j].writes : Away(r, tids[u][r])'
  BY DEF BehindInv, Behind
<1>1. order' = order /\ At(u, p) /\ p \in 1..Len(order) /\ j \in (p + 1)..Len(order)
  BY KeptFacts DEF Kept
<1>2. InFlight(u) /\ locks'[u] \subseteq locks[u] /\ Behind(u, p)
  BY <1>1 DEF At, BehindInv
<1>3. \A r \in locks'[u] :
         r \notin order'[j].writes /\ (order'[j].ok => order'[j].reads[r] = NoImage)
  BY <1>1, <1>2 DEF Behind
<1>4. ASSUME NEW s \in Threads, At(s, j)', pc'[s] = "validate", NEW i \in 1..checked'[s]
      PROVE  query'[s][i].row \notin locks'[u]
  <2>1. At(s, j) /\ InFlight(s)
    BY <1>4, KeptFacts DEF At
  <2>2. pc[s] = "validate" /\ query'[s] = query[s]
    BY <1>4, <2>1 DEF Kept
  <2>3. u # s
    <3>1. p # j
      BY <1>1, OrderFacts
    <3> QED  BY <1>1, <2>1, <3>1, AtFacts
  <2>4. i \in 1..checked[s] \/ query[s][i].row \notin locks[u]
    BY <1>2, <2>2, <2>3
  <2> QED  BY <1>1, <1>2, <2>1, <2>2, <2>4 DEF Behind
<1>5. ASSUME pc'[u] = "validate", order'[j].ok, NEW r \in AccessSet(u)' \cap order'[j].writes
      PROVE  Away(r, tids[u][r])'
  <2>1. pc[u] = "validate" /\ tids'[u] = tids[u] /\ r \in AccessSet(u)
    BY <1>2, <1>5, KeptFacts DEF Kept
  <2>2. Away(r, tids[u][r])
    BY <1>1, <1>2, <1>5, <2>1 DEF Behind
  <2>3. PICK n \in Nat : n = tids[u][r] /\ r \in Rows
    BY <2>1, Validating
  <2>4. PICK img : img = seen[u][r]
    OBVIOUS
  <2>5. Holds(r, n, img, WordCnt)
    BY <2>1, <2>3, <2>4, Validating
  <2>6. Away(r, n)'
    BY <2>2, <2>3, <2>5, AwayNext DEF VInv
  <2> QED  BY <2>1, <2>3, <2>6 DEF Away
<1> QED  BY <1>3, <1>4, <1>5

LEMMA ReadKept ==
    ASSUME ReadInv, Kept, \A u \in Threads : InFlight(u) => checked'[u] = checked[u]
    PROVE  ReadInv'
<1> SUFFICES ASSUME NEW t \in Threads, NEW p \in 1..Len(order'), At(t, p)', pc'[t] = "validate",
                    NEW i \in 1..checked'[t], query'[t][i].type = "RD"
             PROVE  seen'[t][query'[t][i].row] = ImageBefore(p, query[t][i].row)'
  BY ImageBeforeIn DEF ReadInv
<1>1. At(t, p) /\ InFlight(t) /\ p \in 1..Len(order)
  BY KeptFacts DEF At, Kept
<1>2. /\ pc[t] = "validate" /\ query'[t] = query[t] /\ seen'[t] = seen[t]
      /\ checked'[t] = checked[t]
  BY <1>1 DEF Kept
<1>3. seen[t][query[t][i].row] = ImageBefore(p, query[t][i].row)
  BY <1>1, <1>2 DEF ReadInv
<1>4. PICK r : r = query[t][i].row
  OBVIOUS
<1>5. ImageBefore(p, r)' = ImageBefore(p, r)
  BY KeptFacts
<1> QED  BY <1>2, <1>3, <1>4, <1>5, ImageBeforeIn

\* A step that leaves the installations alone.
LEMMA DataKept ==
    ASSUME DataInv, Kept, data' = data,
           \A u \in Threads, r \in Rows :
               /\ Installing(u, r)' <=> Installing(u, r)
               /\ Installing(u, r) => pc'[u] = pc[u] /\ word'[u] = word[u] /\ locks'[u] = locks[u]
    PROVE  DataInv'
<1> SUFFICES ASSUME NEW r \in Rows
             PROVE  /\ (\A u \in Threads : ~ Installing(u, r)') =>
                          data'[r] = ImageBefore(Len(order) + 1, r)'
                    /\ \A u \in Threads : Installing(u, r)' =>
                          /\ ImageBefore(Len(order) + 1, r)' = Image(Written(u))'
                          /\ r = NextRelease(u)' =>
                                \A w \in 1..(IF pc'[u] = "release" THEN WordCnt ELSE word'[u]) :
                                    data'[r][w] = Written(u)'
  BY DEF DataInv, Installed
<1>1. PICK n : n = Len(order) + 1 /\ n = Len(order') + 1
  BY DEF Kept
<1>2. ImageBefore(n, r)' = ImageBefore(n, r)
  BY KeptFacts
<1>3. ImageBefore(Len(order) + 1, r)' = ImageBefore(Len(order) + 1, r)
  BY <1>1, <1>2, ImageBeforeIn DEF Kept
<1>4. ASSUME NEW u \in Threads, Installing(u, r)'
      PROVE  /\ Installing(u, r) /\ NextRelease(u)' = NextRelease(u)
             /\ Written(u)' = Written(u) /\ Image(Written(u))' = Image(Written(u))
             /\ pc'[u] = pc[u] /\ word'[u] = word[u]
  BY <1>4, KeptFacts DEF NextRelease, Lowest, Image
<1>5. (\A u \in Threads : ~ Installing(u, r)') => data'[r] = ImageBefore(Len(order) + 1, r)'
  BY <1>3 DEF DataInv, Installed
<1> QED  BY <1>3, <1>4, <1>5 DEF DataInv, Installed

LEMMA IdleNext ==
    ASSUME WritesLocal, VInv, HInv, NEW t \in Threads, Step(t), ~ InFlight(t), ~ Locked(t)
    PROVE  HInv'
<1>1. /\ Kept /\ tid' = tid /\ data' = data /\ checked' = checked /\ ~ InFlight(t)'
  BY IdleStep DEF VInv
<1>2. \A u \in Threads : u # t =>
         pc'[u] = pc[u] /\ word'[u] = word[u] /\ locks'[u] = locks[u]
  BY Frame DEF VInv
<1>3. OrderInv' /\ Serializable'
  BY <1>1, KeptOrder DEF HInv
<1>4. BehindInv'
  <2>1. \A u \in Threads : InFlight(u) => locks'[u] \subseteq locks[u]
    BY <1>2
  <2> QED  BY <1>1, <2>1, BehindKept DEF HInv
<1>5. ReadInv'
  BY <1>1, ReadKept DEF HInv
<1>6. DataInv'
  <2>1. \A u \in Threads, r \in Rows :
           /\ Installing(u, r)' <=> Installing(u, r)
           /\ Installing(u, r) => pc'[u] = pc[u] /\ word'[u] = word[u] /\ locks'[u] = locks[u]
    BY <1>1, <1>2 DEF Installing, InFlight
  <2> QED  BY <1>1, <2>1, DataKept DEF HInv
<1> QED  BY <1>3, <1>4, <1>5, <1>6 DEF HInv

\* A row that is not being installed and has the tid under which t has copied it is
\* what t would read at its place: whoever is behind t has not written it.
LEMMA ReadsPlace ==
    ASSUME WritesLocal, VInv, HInv, NEW t \in Threads, NEW p, At(t, p), pc[t] = "validate",
           NEW r \in AccessSet(t), tid[r] = tids[t][r],
           \A u \in Threads : ~ Installing(u, r)
    PROVE  r \in Rows /\ seen[t][r] = ImageBefore(p, r)
<1>1. /\ r \in Rows /\ tids[t][r] \in Nat /\ Holds(r, tids[t][r], seen[t][r], WordCnt)
  BY Validating
<1>2. seen[t][r] = data[r]
  <2>1. \A w \in Words : seen[t][r][w] = data[r][w]
    BY <1>1 DEF Holds, Words
  <2>2. seen[t][r] \in Images /\ data[r] \in Images
    BY <1>1 DEF VInv, TypeOK
  <2> QED  BY <2>1, <2>2 DEF Images
<1>3. data[r] = ImageBefore(Len(order) + 1, r)
  BY <1>1 DEF HInv, DataInv, Installed
<1>4. p \in 1..Len(order) /\ Len(order) \in Nat /\ Behind(t, p) /\ ~ order[p].ok
  BY AtFacts DEF HInv, BehindInv, OrderInv
<1>5. ASSUME NEW j \in p..Len(order), order[j].ok PROVE r \notin order[j].writes
  <2>1. j \in (p + 1)..Len(order)
    BY <1>4, <1>5
  <2>2. ~ Away(r, tids[t][r])
    BY <1>1 DEF Away
  <2> QED  BY <1>4, <1>5, <2>1, <2>2 DEF Behind
<1>6. WritersIn(order, Len(order) + 1, r) = WritersIn(order, p, r)
  <2>1. \A j : j \in 1..Len(order) <=> j \in 1..(p - 1) \/ j \in p..Len(order)
    BY <1>4
  <2> QED  BY <1>4, <1>5, <2>1 DEF WritersIn
<1>7. ImageIn(order, Len(order) + 1, r) = ImageIn(order, p, r)
  <2>1. Len(order) + 1 \in Nat /\ p \in Nat
    BY <1>4
  <2> QED  BY <1>6, <2>1, SamePlaces
<1> QED  BY <1>1, <1>2, <1>3, <1>7, ImageBeforeIn

LEMMA CheckedNext ==
    ASSUME WritesLocal, VInv, HInv, NEW t \in Threads, ValidateRead(t), pc' = pc
    PROVE  HInv'
<1> DEFINE k == checked[t] + 1
           r == query[t][k].row
<1>1. /\ pc[t] = "validate" /\ checked[t] \in Nat /\ checked[t] < Len(query[t]) /\ Step(t)
      /\ UNCHANGED <<tid, locked, data, query, seen, tids, word, locks, txn_cnt>>
  BY DEF ValidateRead, Step, VInv, TypeOK, txnVars, copyVars
<1>2. /\ query[t][k].type = "WR" \/ (Unchanged(t, r) /\ ~ locked[r])
      /\ checked' = [checked EXCEPT ![t] = k] /\ order' = order
  <2>1. "abort" # pc[t]
    BY <1>1
  <2>2. ~ Goto(t, "abort")
    BY <2>1 DEF Goto, VInv, TypeOK
  <2> QED  BY <2>2 DEF ValidateRead
<1>3. Len(query[t]) \in Nat /\ k \in 1..Len(query[t]) /\ query[t] \in Queries
  BY <1>1, Validating
<1>4. r \in AccessSet(t) /\ query[t][k].type \in {"RD", "WR"}
  BY <1>1, <1>3, QueryFacts, Validating
<1>5. Kept
  BY <1>1, <1>2 DEF Kept, InFlight
<1>6. checked'[t] = k /\ \A u \in Threads : u # t => checked'[u] = checked[u]
  BY <1>2 DEF VInv, TypeOK
<1>7. \A i \in 1..k : i \in 1..checked[t] \/ i = k
  BY <1>1
<1>8. ASSUME NEW u \in Threads, u # t PROVE r \notin locks[u]
  <2>1. CASE query[t][k].type = "WR"
    <3>1. r \in WriteSet(t)
      BY <1>3, <2>1, QueryFacts DEF WriteSet, RowsOf
    <3>2. r \in locks[t]
      BY <1>1, <3>1 DEF VInv, PhaseInv, Phase
    <3> QED  BY <1>8, <3>2 DEF VInv, LockBits
  <2>2. CASE ~ locked[r]
    <3>1. r \in Rows
      BY <1>1, <1>4, Validating
    <3> QED  BY <2>2, <3>1 DEF VInv, LockBits
  <2> QED  BY <1>2, <2>1, <2>2
<1>9. OrderInv' /\ Serializable'
  BY <1>5, KeptOrder DEF HInv
<1>10. BehindInv'
  <2>1. ASSUME NEW u \in Threads, NEW s \in Threads, u # s, NEW i \in 1..checked'[s]
        PROVE  i \in 1..checked[s] \/ query[s][i].row \notin locks[u]
    <3>1. CASE s = t
      BY <1>6, <1>7, <1>8, <2>1, <3>1
    <3>2. CASE s # t
      BY <1>6, <2>1, <3>2
    <3> QED  BY <3>1, <3>2
  <2>2. \A u, s \in Threads : u # s /\ InFlight(u) /\ pc[s] = "validate" =>
           \A i \in 1..checked'[s] : i \in 1..checked[s] \/ query[s][i].row \notin locks[u]
    BY <2>1
  <2>3. \A u \in Threads : InFlight(u) => locks'[u] \subseteq locks[u]
    BY <1>1
  <2> QED  BY <1>1, <1>5, <2>2, <2>3, BehindKept DEF HInv
<1>11. ReadInv'
  <2> SUFFICES ASSUME NEW u \in Threads, NEW p \in 1..Len(order'), At(u, p)', pc'[u] = "validate",
                      NEW i \in 1..checked'[u], query'[u][i].type = "RD"
               PROVE  seen'[u][query'[u][i].row] = ImageBefore(p, query[u][i].row)'
    BY ImageBeforeIn DEF ReadInv
  <2>1. At(u, p) /\ p \in 1..Len(order) /\ pc[u] = "validate" /\ query[u][i].type = "RD"
    BY <1>1, <1>2, <1>5, KeptFacts
  <2>2. seen[u][query[u][i].row] = ImageBefore(p, query[u][i].row)
    <3>1. CASE i \in 1..checked[u]
      BY <2>1, <3>1 DEF HInv, ReadInv
    <3>2. CASE u = t /\ i = k
      <4>1. Unchanged(t, r) /\ ~ locked[r] /\ r \in Rows
        BY <1>1, <1>2, <1>4, <2>1, <3>2, Validating
      <4>2. \A s \in Threads : ~ Installing(s, r)
        BY <4>1 DEF Installing, VInv, LockBits
      <4>3. tid[r] = tids[t][r]
        BY <4>1 DEF Unchanged
      <4>4. PICK x \in AccessSet(t) : x = r
        BY <1>4
      <4>5. seen[t][x] = ImageBefore(p, x)
        BY <1>1, <2>1, <3>2, <4>2, <4>3, <4>4, ReadsPlace
      <4> QED  BY <3>2, <4>4, <4>5
    <3> QED  BY <1>6, <1>7, <3>1, <3>2
  <2>3. PICK x : x = query[u][i].row
    OBVIOUS
  <2>4. ImageBefore(p, x)' = ImageBefore(p, x)
    BY <1>5, KeptFacts
  <2> QED  BY <1>1, <2>2, <2>3, <2>4, ImageBeforeIn
<1>12. DataInv'
  <2>1. \A u \in Threads, s \in Rows :
           /\ Installing(u, s)' <=> Installing(u, s)
           /\ Installing(u, s) => pc'[u] = pc[u] /\ word'[u] = word[u] /\ locks'[u] = locks[u]
    BY <1>1 DEF Installing
  <2> QED  BY <1>1, <1>5, <2>1, DataKept DEF HInv
<1> QED  BY <1>9, <1>10, <1>11, <1>12 DEF HInv

LEMMA InstallNext ==
    ASSUME WritesLocal, VInv, HInv, NEW t \in Threads,
           Install(t) \/ SetTid(t) \/ Release(t)
    PROVE  HInv'
<1> USE DEF Goto, txnVars, copyVars
<1>0. locks[t] # {} /\ pc[t] \in {"write", "release"}
  BY DEF Install, SetTid, Release, VInv, PhaseInv, Phase
<1>1. PICK r \in Rows : r = NextRelease(t) /\ r \in locks[t]
  BY <1>0, NextReleaseFacts DEF VInv
<1>2. /\ UNCHANGED <<query, seen, tids, checked, txn_cnt, order>>
      /\ pc'[t] \in {"write", "release"} /\ Step(t)
  BY DEF Install, SetTid, Release, Step, VInv, TypeOK
<1>3. \A u \in Threads : u # t => pc'[u] = pc[u] /\ word'[u] = word[u] /\ locks'[u] = locks[u]
  BY <1>2, Frame DEF VInv
<1>4. Kept
  BY <1>0, <1>2, <1>3 DEF Kept, InFlight
<1>5. OrderInv' /\ Serializable'
  BY <1>4, KeptOrder DEF HInv
<1>6. BehindInv'
  <2>1. locks'[t] \subseteq locks[t]
    BY DEF Install, SetTid, Release, VInv, TypeOK
  <2>2. \A u \in Threads : InFlight(u) => locks'[u] \subseteq locks[u]
    BY <1>3, <2>1
  <2> QED  BY <1>2, <1>4, <2>2, BehindKept DEF HInv
<1>7. ReadInv'
  BY <1>2, <1>4, ReadKept DEF HInv
<1>8. PICK I : I = [s \in Rows |-> ImageBefore(Len(order) + 1, s)]
  OBVIOUS
<1>9. \A s \in Rows : I[s] = ImageBefore(Len(order) + 1, s) /\ I[s] = ImageBefore(Len(order) + 1, s)'
  <2>1. PICK n : n = Len(order) + 1 /\ n = Len(order') + 1
    BY <1>2
  <2>2. \A s \in Rows : ImageBefore(n, s)' = ImageBefore(n, s)
    BY <1>4, KeptFacts
  <2> QED  BY <1>2, <1>8, <2>1, <2>2, ImageBeforeIn
<1>10. \A u \in Threads : Written(u)' = Written(u) /\ Image(Written(u))' = Image(Written(u))
  BY <1>4, KeptFacts DEF Image
<1>11. \A s \in Rows : Installed(s)
  BY DEF HInv, DataInv, Installed
<1>12. \A u \in Threads : u # t => ~ Installing(u, r)
  BY <1>1 DEF Installing, VInv, LockBits
<1>13. I[r] = Image(Written(t))
  BY <1>0, <1>1, <1>9, <1>11 DEF Installing, Installed
<1>14. \A u \in Threads : u # t => NextRelease(u)' = NextRelease(u)
  BY <1>3 DEF NextRelease, Lowest
<1>15. \A u \in Threads, s \in Rows : s # r => (Installing(u, s)' <=> Installing(u, s))
  <2>1. \A s \in Rows : s # r => (s \in locks'[t] <=> s \in locks[t])
    BY <1>1 DEF Install, SetTid, Release, VInv, TypeOK
  <2> QED  BY <1>0, <1>2, <1>3, <2>1 DEF Installing
<1>16. \A s \in Rows : s # r => data'[s] = data[s]
  BY <1>1 DEF Install, SetTid, Release, VInv, TypeOK
\* The other rows.
<1>17. ASSUME NEW s \in Rows, s # r PROVE Installed(s)'
  <2>1. (\A u \in Threads : ~ Installing(u, s)') => data'[s] = ImageBefore(Len(order) + 1, s)'
    BY <1>9, <1>11, <1>15, <1>16, <1>17 DEF Installed
  <2>2. ASSUME NEW u \in Threads, Installing(u, s)'
        PROVE  ImageBefore(Len(order) + 1, s)' = Image(Written(u))'
    BY <1>9, <1>10, <1>11, <1>15, <1>17, <2>2 DEF Installed
  <2>3. ASSUME NEW u \in Threads, Installing(u, s)', s = NextRelease(u)',
               NEW w \in 1..(IF pc'[u] = "release" THEN WordCnt ELSE word'[u])
        PROVE  data'[s][w] = Written(u)'
    <3>1. CASE u # t
      BY <1>3, <1>10, <1>11, <1>14, <1>15, <1>16, <1>17, <2>3, <3>1 DEF Installed
    <3>2. CASE u = t
      <4>1. Release(t)
        <5>1. locks' # locks
          BY <1>1, <1>17, <2>3, <3>2 DEF NextRelease, Lowest
        <5> QED  BY <5>1 DEF Install, SetTid
      <4>2. pc'[t] = "write" /\ word'[t] = 0
        BY <4>1 DEF Release, VInv, TypeOK, PhaseInv, Phase
      <4> QED  BY <2>3, <3>2, <4>2
    <3> QED  BY <3>1, <3>2
  <2> QED  BY <2>1, <2>2, <2>3 DEF Installed
\* The row itself.
<1>18. CASE Install(t)
  <2>1. PICK x \in Words : x = word[t] + 1
    BY <1>18, BoundsAssumption DEF Install, VInv, TypeOK, Words
  <2>2. /\ data' = [data EXCEPT ![r][x] = NewImage(t, r)[x]]
        /\ word' = [word EXCEPT ![t] = x] /\ UNCHANGED <<pc, locks>> /\ pc[t] = "write"
    BY <1>1, <1>18, <2>1 DEF Install
  <2>3. NewImage(t, r)[x] = Written(t)
    BY <2>1 DEF NewImage, Image
  <2>4. Installing(t, r) /\ Installing(t, r)' /\ word'[t] = x
    BY <1>1, <2>2 DEF Installing, VInv, TypeOK
  <2>5. \A u \in Threads : Installing(u, r)' => u = t
    BY <1>3, <1>12 DEF Installing
  <2>6. \A w \in 1..word[t] : data[r][w] = Written(t)
    BY <1>1, <1>11, <2>2, <2>4 DEF Installed
  <2>7. \A w \in 1..x : w \in Words /\ (w \in 1..word[t] \/ w = x)
    <3>1. word[t] \in 0..WordCnt /\ WordCnt \in Nat /\ x \in 1..WordCnt
      BY BoundsAssumption DEF VInv, TypeOK, Words
    <3> QED  BY <2>1, <3>1 DEF Words
  <2>8. \A w \in Words : data'[r][w] = IF w = x THEN Written(t) ELSE data[r][w]
    BY <2>2, <2>3 DEF VInv, TypeOK, Images
  <2>9. \A w \in 1..word'[t] : data'[r][w] = Written(t)
    BY <2>4, <2>6, <2>7, <2>8
  <2>10. Installed(r)'
    BY <1>9, <1>10, <1>13, <2>2, <2>4, <2>5, <2>9 DEF Installed
  <2> QED  BY <1>5, <1>6, <1>7, <1>17, <2>10 DEF HInv, DataInv, Installed
<1>19. CASE SetTid(t)
  <2>1. pc[t] = "write" /\ pc'[t] = "release" /\ UNCHANGED <<data, locks>> /\ word[t] = WordCnt
    BY <1>19 DEF SetTid, VInv, TypeOK
  <2>2. Installing(t, r) /\ Installing(t, r)'
    BY <1>1, <2>1 DEF Installing
  <2>3. \A u \in Threads : Installing(u, r)' => u = t
    BY <1>3, <1>12 DEF Installing
  <2>4. \A w \in 1..WordCnt : data[r][w] = Written(t)
    BY <1>1, <1>11, <2>1, <2>2 DEF Installed
  <2>5. Installed(r)'
    BY <1>9, <1>10, <1>13, <2>1, <2>2, <2>3, <2>4 DEF Installed
  <2> QED  BY <1>5, <1>6, <1>7, <1>17, <2>5 DEF HInv, DataInv, Installed
<1>20. CASE Release(t)
  <2>1. pc[t] = "release" /\ pc'[t] = "write" /\ data' = data /\ locks'[t] = locks[t] \ {r}
    BY <1>1, <1>20 DEF Release, VInv, TypeOK
  <2>2. \A u \in Threads : ~ Installing(u, r)'
    BY <1>3, <1>12, <2>1 DEF Installing
  <2>3. \A w \in 1..WordCnt : data[r][w] = Written(t)
    BY <1>1, <1>11, <2>1 DEF Installing, Installed
  <2>4. data[r] = Image(Written(t))
    BY <2>3 DEF VInv, TypeOK, Images, Image, Words
  <2>5. Installed(r)'
    BY <1>9, <1>13, <2>1, <2>2, <2>4 DEF Installed
  <2> QED  BY <1>5, <1>6, <1>7, <1>17, <2>5 DEF HInv, DataInv, Installed
<1> QED  BY <1>18, <1>19, <1>20

LEMMA FinishNext ==
    ASSUME VInv, HInv, NEW t \in Threads, Finish(t)
    PROVE  HInv'
<1> USE DEF Goto, copyVars
<1>1. /\ UNCHANGED <<tid, data, word, locks, checked, order>> /\ Step(t)
      /\ pc[t] = "write" /\ locks[t] = {} /\ pc'[t] \in {"fetch", "done"}
      /\ txn_cnt' = [txn_cnt EXCEPT ![t] = txn_cnt[t] + 1]
  BY DEF Finish, Step, VInv, TypeOK
<1>2. \A u \in Threads : u # t =>
         /\ pc'[u] = pc[u] /\ txn_cnt'[u] = txn_cnt[u] /\ query'[u] = query[u]
         /\ seen'[u] = seen[u] /\ tids'[u] = tids[u]
  BY <1>1, Frame DEF VInv
<1>3. InFlight(t) /\ ~ InFlight(t)' /\ txn_cnt'[t] = txn_cnt[t] + 1 /\ txn_cnt[t] \in Nat
  BY <1>1, BoundsAssumption DEF InFlight, VInv, TypeOK
<1>4. \A u \in Threads : \A p : At(u, p)' <=> At(u, p) /\ u # t
  BY <1>1, <1>2, <1>3 DEF At, InFlight, Written
<1>5. \A u \in Threads, r \in Rows : Installing(u, r)' <=> Installing(u, r)
  BY <1>1, <1>2 DEF Installing
<1>6. \A i, r : ImageBefore(i, r)' = ImageBefore(i, r)
  BY <1>1, ImageBeforeIn
<1>7. OrderInv'
  <2>1. /\ order' \in Seq(Entries)
        /\ \A i, j \in 1..Len(order') : order'[i].txn = order'[j].txn => i = j
    BY <1>1 DEF HInv, OrderInv
  <2>2. ASSUME NEW i \in 1..Len(order')
        PROVE  \E u \in Threads, n \in 1..MaxTxn :
                  order'[i].txn = <<u, n>> /\ (n <= txn_cnt'[u] \/ At(u, i)')
    <3>1. PICK u \in Threads, n \in 1..MaxTxn :
             order[i].txn = <<u, n>> /\ (n <= txn_cnt[u] \/ At(u, i))
      BY <1>1, <2>2 DEF HInv, OrderInv
    <3>2. n \in Nat
      BY BoundsAssumption
    <3>3. CASE u # t
      BY <1>1, <1>2, <1>4, <3>1, <3>3
    <3>4. CASE u = t /\ At(t, i)
      <4>1. n = txn_cnt'[t]
        BY <1>3, <3>1, <3>4 DEF At, Written
      <4>2. n <= txn_cnt'[t]
        BY <3>2, <4>1
      <4> QED  BY <1>1, <3>1, <3>4, <4>2
    <3>5. CASE u = t /\ n <= txn_cnt[t]
      <4>1. n <= txn_cnt'[t]
        BY <1>3, <3>2, <3>5
      <4> QED  BY <1>1, <3>1, <3>5, <4>1
    <3> QED  BY <3>1, <3>3, <3>4, <3>5
  <2>3. ASSUME NEW u \in Threads, InFlight(u)' PROVE \E p \in 1..Len(order') : At(u, p)'
    <3>1. u # t /\ InFlight(u)
      BY <1>2, <1>3, <2>3 DEF InFlight
    <3> QED  BY <1>1, <1>4, <3>1 DEF HInv, OrderInv
  <2>4. ASSUME NEW u \in Threads, NEW p \in 1..Len(order'), At(u, p)'
        PROVE  /\ order'[p].writes = WriteSet(u)' /\ order'[p].reads = seen'[u]
               /\ order'[p].ok <=> pc'[u] # "validate"
    <3>1. u # t /\ At(u, p) /\ WriteSet(u)' = WriteSet(u)
      BY <1>2, <1>4, <2>4, Same
    <3> QED  BY <1>1, <1>2, <3>1 DEF HInv, OrderInv
  <2> QED  BY <2>1, <2>2, <2>3, <2>4 DEF OrderInv
<1>8. BehindInv'
  <2> SUFFICES ASSUME NEW u \in Threads, NEW p \in 1..Len(order'), At(u, p)',
                      NEW j \in (p + 1)..Len(order')
               PROVE  /\ \A r \in locks'[u] :
                            /\ r \notin order'[j].writes
                            /\ order'[j].ok => order'[j].reads[r] = NoImage
                      /\ \A s \in Threads : At(s, j)' /\ pc'[s] = "validate" =>
                            \A i \in 1..checked'[s] : query'[s][i].row \notin locks'[u]
                      /\ pc'[u] = "validate" /\ order'[j].ok =>
                            \A r \in AccessSet(u)' \cap order'[j].writes : Away(r, tids[u][r])'
    BY DEF BehindInv, Behind
  <2>1. u # t /\ At(u, p) /\ AccessSet(u)' = AccessSet(u)
    BY <1>2, <1>4, Same
  <2>2. Behind(u, p)
    BY <1>1, <2>1 DEF HInv, BehindInv
  <2>3. \A s \in Threads : At(s, j)' => At(s, j) /\ s # t
    BY <1>4
  <2>4. ASSUME pc'[u] = "validate", order'[j].ok, NEW r \in AccessSet(u) \cap order[j].writes
        PROVE  Away(r, tids[u][r])'
    <3>1. Away(r, tids[u][r])
      BY <1>1, <1>2, <2>1, <2>2, <2>4 DEF Behind
    <3>2. \A s \in Threads : Installing(s, r) => Installing(s, r)'
      BY <1>1, <1>2 DEF Installing
    <3> QED  BY <1>1, <1>2, <2>1, <3>1, <3>2 DEF Away
  <2> QED  BY <1>1, <1>2, <2>1, <2>2, <2>3, <2>4 DEF Behind
<1>9. ReadInv'
  <2> SUFFICES ASSUME NEW u \in Threads, NEW p \in 1..Len(order'), At(u, p)', pc'[u] = "validate",
                      NEW i \in 1..checked'[u], query'[u][i].type = "RD"
               PROVE  seen'[u][query'[u][i].row] = ImageBefore(p, query[u][i].row)'
    BY ImageBeforeIn DEF ReadInv
  <2>1. u # t /\ At(u, p) /\ pc[u] = "validate" /\ query'[u] = query[u] /\ seen'[u] = seen[u]
    BY <1>2, <1>4
  <2>2. PICK x : x = query[u][i].row
    OBVIOUS
  <2>3. seen[u][x] = ImageBefore(p, x)
    BY <1>1, <2>1, <2>2 DEF HInv, ReadInv
  <2>4. ImageBefore(p, x)' = ImageBefore(p, x)
    BY <1>6
  <2> QED  BY <2>1, <2>2, <2>3, <2>4, ImageBeforeIn
<1>10. \A r \in Rows : Installed(r)'
  <2> SUFFICES ASSUME NEW r \in Rows PROVE Installed(r)'
    OBVIOUS
  <2>1. Installed(r)
    BY DEF HInv, DataInv, Installed
  <2>2. PICK n : n = Len(order) + 1 /\ n = Len(order') + 1
    BY <1>1
  <2>3. ImageBefore(Len(order) + 1, r)' = ImageBefore(Len(order) + 1, r)
    BY <1>6, <2>2, ImageBeforeIn, <1>1
  <2>4. ASSUME NEW u \in Threads, Installing(u, r)'
        PROVE  /\ Installing(u, r) /\ pc'[u] = pc[u] /\ NextRelease(u)' = NextRelease(u)
               /\ Written(u)' = Written(u) /\ Image(Written(u))' = Image(Written(u))
    <3>1. Installing(u, r) /\ u # t
      BY <1>1, <1>5, <2>4 DEF Installing
    <3> QED  BY <1>1, <1>2, <3>1 DEF Written, Image, NextRelease, Lowest
  <2>5. ASSUME NEW u \in Threads, Installing(u, r)'
        PROVE  /\ ImageBefore(Len(order) + 1, r)' = Image(Written(u))'
               /\ r = NextRelease(u)' =>
                     \A w \in 1..(IF pc'[u] = "release" THEN WordCnt ELSE word'[u]) :
                         data'[r][w] = Written(u)'
    BY <1>1, <2>1, <2>3, <2>4, <2>5 DEF Installed
  <2>6. (\A u \in Threads : ~ Installing(u, r)') => data'[r] = ImageBefore(Len(order) + 1, r)'
    BY <1>1, <1>5, <2>1, <2>3 DEF Installed
  <2> QED  BY <2>5, <2>6 DEF Installed
<1>11. Serializable'
  BY <1>1, <1>6 DEF HInv, Serializable
<1> QED  BY <1>7, <1>8, <1>9, <1>10, <1>11 DEF HInv, DataInv, Installed

----------------------------------------------------------------------------
(* A transaction has all its locks and enters the history.                 *)

LEMMA LockedNext ==
    ASSUME VInv, HInv, NEW t \in Threads, Locked(t)
    PROVE  HInv'
<1> USE DEF Goto, txnVars, copyVars
<1>1. PICK e : e = [txn |-> Written(t), reads |-> seen[t], writes |-> WriteSet(t), ok |-> FALSE]
  OBVIOUS
<1>2. /\ UNCHANGED <<tid, data, query, seen, tids, word, locks, txn_cnt>> /\ Step(t)
      /\ pc[t] = "lock" /\ locks[t] = WriteSet(t) /\ pc'[t] = "validate"
      /\ checked' = [checked EXCEPT ![t] = 0] /\ order' = Append(order, e)
  BY <1>1 DEF Locked, Step, VInv, TypeOK
<1>3. \A u \in Threads : u # t => pc'[u] = pc[u] /\ checked'[u] = checked[u]
  BY <1>2, Frame DEF VInv
<1>4. PICK n \in Nat : n = Len(order)
  BY OrderFacts DEF HInv
<1>5. e \in Entries /\ e.txn = Written(t) /\ e.reads = seen[t] /\ e.writes = WriteSet(t) /\ ~ e.ok
  <2>1. Written(t) \in Threads \X (1..MaxTxn)
    <3>1. txn_cnt[t] \in 0..MaxTxn /\ txn_cnt[t] < MaxTxn
      BY <1>2 DEF VInv, TypeOK, PhaseInv, Phase
    <3>2. txn_cnt[t] + 1 \in 1..MaxTxn
      BY <3>1, BoundsAssumption
    <3> QED  BY <3>2 DEF Written
  <2>2. seen[t] \in [Rows -> Images] /\ WriteSet(t) \in SUBSET Rows
    BY <1>2 DEF VInv, TypeOK
  <2> QED  BY <1>1, <2>1, <2>2 DEF Entries
<1>6. /\ Len(order') = n + 1 /\ order' \in Seq(Entries) /\ order'[n + 1] = e
      /\ \A i \in 1..n : order'[i] = order[i]
  BY <1>2, <1>4, <1>5 DEF HInv, OrderInv
<1>7. \A i : i \in 1..(n + 1) <=> i \in 1..n \/ i = n + 1
  OBVIOUS
<1>8. ~ InFlight(t) /\ InFlight(t)'
      /\ \A u \in Threads : u # t => (InFlight(u)' <=> InFlight(u))
  BY <1>2, <1>3 DEF InFlight
<1>9. \A u \in Threads : Written(u)' = Written(u) /\ (Written(u) = Written(t) => u = t)
  BY <1>2 DEF Written
<1>10. ASSUME NEW i \in 1..n PROVE order[i].txn # Written(t)
  <2>1. PICK u \in Threads, m \in 1..MaxTxn :
           order[i].txn = <<u, m>> /\ (m <= txn_cnt[u] \/ At(u, i))
    BY <1>4 DEF HInv, OrderInv
  <2>2. SUFFICES ASSUME u = t, m = txn_cnt[t] + 1 PROVE FALSE
    BY <2>1 DEF Written
  <2>3. txn_cnt[t] \in Nat
    BY BoundsAssumption DEF VInv, TypeOK
  <2> QED  BY <1>8, <2>1, <2>2, <2>3 DEF At
<1>11. ASSUME NEW u \in Threads, u # t, NEW p PROVE At(u, p)' <=> At(u, p)
  BY <1>4, <1>5, <1>6, <1>7, <1>8, <1>9, <1>11 DEF At
<1>12. ASSUME NEW p PROVE At(t, p)' <=> p = n + 1
  BY <1>4, <1>5, <1>6, <1>7, <1>8, <1>9, <1>10 DEF At
<1>13. ASSUME NEW i \in 1..(n + 1), NEW r PROVE ImageBefore(i, r)' = ImageBefore(i, r)
  <2>1. \A j \in 1..(i - 1) : j \in 1..n
    OBVIOUS
  <2>2. WritersIn(order', i, r) = WritersIn(order, i, r)
    BY <1>6, <2>1 DEF WritersIn
  <2>3. \A j \in WritersIn(order, i, r) : order'[j].txn = order[j].txn
    BY <1>6, <2>1 DEF WritersIn
  <2>4. i \in Nat
    OBVIOUS
  <2> QED  BY <2>2, <2>3, <2>4, SamePlaces, ImageBeforeIn
<1>14. ASSUME NEW r PROVE ImageBefore(n + 2, r)' = ImageBefore(n + 1, r)
  <2>1. (n + 2) - 1 = n + 1 /\ (n + 1) - 1 = n /\ n + 1 \in Nat /\ n + 2 \in Nat
    OBVIOUS
  <2>2. WritersIn(order', n + 2, r) = WritersIn(order, n + 1, r)
    BY <1>5, <1>6, <1>7, <2>1 DEF WritersIn
  <2>3. \A j \in WritersIn(order, n + 1, r) : order'[j].txn = order[j].txn
    BY <1>6, <2>1 DEF WritersIn
  <2> QED  BY <2>1, <2>2, <2>3, SamePlaces, ImageBeforeIn
<1>15. \A u \in Threads, r \in Rows : Installing(u, r)' <=> Installing(u, r)
  BY <1>2, <1>3 DEF Installing
<1>16. \A u \in Threads : WriteSet(u)' = WriteSet(u) /\ AccessSet(u)' = AccessSet(u)
  BY <1>2, Same
<1>17. OrderInv'
  <2>1. ASSUME NEW i \in 1..Len(order'), NEW j \in 1..Len(order'), order'[i].txn = order'[j].txn
        PROVE  i = j
    <3>1. CASE i \in 1..n /\ j \in 1..n
      BY <1>4, <1>6, <2>1, <3>1 DEF HInv, OrderInv
    <3>2. CASE i = n + 1 \/ j = n + 1
      BY <1>5, <1>6, <1>7, <1>10, <2>1, <3>2
    <3> QED  BY <1>6, <1>7, <3>1, <3>2
  <2>2. ASSUME NEW i \in 1..Len(order')
        PROVE  \E u \in Threads, m \in 1..MaxTxn :
                  order'[i].txn = <<u, m>> /\ (m <= txn_cnt'[u] \/ At(u, i)')
    <3>1. CASE i \in 1..n
      <4>1. PICK u \in Threads, m \in 1..MaxTxn :
               order[i].txn = <<u, m>> /\ (m <= txn_cnt[u] \/ At(u, i))
        BY <1>4, <3>1 DEF HInv, OrderInv
      <4>2. m <= txn_cnt'[u] \/ At(u, i)'
        BY <1>2, <1>8, <1>11, <4>1 DEF At
      <4> QED  BY <1>6, <3>1, <4>1, <4>2
    <3>2. CASE i = n + 1
      <4>1. order'[i].txn = <<t, txn_cnt[t] + 1>> /\ At(t, i)'
        BY <1>5, <1>6, <1>12, <3>2 DEF Written
      <4>2. txn_cnt[t] + 1 \in 1..MaxTxn
        BY <1>5 DEF Entries, Written
      <4> QED  BY <4>1, <4>2
    <3> QED  BY <1>6, <1>7, <3>1, <3>2
  <2>3. ASSUME NEW u \in Threads, InFlight(u)' PROVE \E p \in 1..Len(order') : At(u, p)'
    <3>1. CASE u = t
      BY <1>6, <1>7, <1>12, <3>1
    <3>2. CASE u # t
      <4>1. PICK p \in 1..Len(order) : At(u, p)
        BY <1>8, <2>3, <3>2 DEF HInv, OrderInv
      <4>2. At(u, p)' /\ p \in 1..Len(order')
        BY <1>4, <1>6, <1>7, <1>11, <3>2, <4>1
      <4> QED  BY <4>2
    <3> QED  BY <3>1, <3>2
  <2>4. ASSUME NEW u \in Threads, NEW p \in 1..Len(order'), At(u, p)'
        PROVE  /\ order'[p].writes = WriteSet(u)' /\ order'[p].reads = seen'[u]
               /\ order'[p].ok <=> pc'[u] # "validate"
    <3>1. CASE u = t
      BY <1>2, <1>5, <1>6, <1>12, <1>16, <2>4, <3>1
    <3>2. CASE u # t
      <4>1. At(u, p) /\ p \in 1..n
        BY <1>4, <1>11, <2>4, <3>2 DEF At
      <4>2. /\ order[p].writes = WriteSet(u) /\ order[p].reads = seen[u]
            /\ order[p].ok <=> pc[u] # "validate"
        BY <1>4, <4>1 DEF HInv, OrderInv
      <4> QED  BY <1>2, <1>3, <1>6, <1>16, <3>2, <4>1, <4>2
    <3> QED  BY <3>1, <3>2
  <2> QED  BY <1>6, <2>1, <2>2, <2>3, <2>4 DEF OrderInv
<1>18. BehindInv'
  <2> SUFFICES ASSUME NEW u \in Threads, NEW p \in 1..Len(order'), At(u, p)',
                      NEW j \in (p + 1)..Len(order')
               PROVE  /\ \A r \in locks'[u] :
                            /\ r \notin order'[j].writes
                            /\ order'[j].ok => order'[j].reads[r] = NoImage
                      /\ \A s \in Threads : At(s, j)' /\ pc'[s] = "validate" =>
                            \A i \in 1..checked'[s] : query'[s][i].row \notin locks'[u]
                      /\ pc'[u] = "validate" /\ order'[j].ok =>
                            \A r \in AccessSet(u)' \cap order'[j].writes : Away(r, tids[u][r])'
    BY DEF BehindInv, Behind
  <2>1. u # t /\ At(u, p) /\ p \in 1..n
    <3>1. p # n + 1
      BY <1>6
    <3>2. u # t
      BY <1>12, <3>1
    <3> QED  BY <1>4, <1>11, <3>2 DEF At
  <2>2. Behind(u, p)
    BY <1>4, <2>1 DEF HInv, BehindInv
  <2>3. CASE j = n + 1
    <3>1. order'[j] = e
      BY <1>6, <2>3
    <3>2. \A r \in locks'[u] : r \notin e.writes
      BY <1>2, <1>5, <2>1 DEF VInv, LockBits
    <3>3. \A s \in Threads : At(s, j)' => checked'[s] = 0
      <4>1. ASSUME NEW s \in Threads, At(s, j)', s # t PROVE FALSE
        BY <1>4, <1>11, <2>3, <4>1 DEF At
      <4>2. checked'[t] = 0
        BY <1>2 DEF VInv, TypeOK
      <4> QED  BY <4>1, <4>2
    <3> QED  BY <1>5, <3>1, <3>2, <3>3
  <2>4. CASE j \in (p + 1)..n
    <3>1. order'[j] = order[j] /\ j \in (p + 1)..Len(order)
      BY <1>4, <1>6, <2>1, <2>4
    <3>2. ASSUME NEW s \in Threads, At(s, j)' PROVE At(s, j) /\ s # t
      <4>1. j # n + 1
        BY <2>4
      <4>2. s # t
        BY <1>12, <3>2, <4>1
      <4> QED  BY <1>11, <3>2, <4>2
    <3>3. \A r : Away(r, tids[u][r]) => Away(r, tids[u][r])'
      <4>1. \A s \in Threads : \A r : Installing(s, r) => Installing(s, r)'
        BY <1>2, <1>3 DEF Installing
      <4> QED  BY <1>2, <4>1 DEF Away
    <3> QED  BY <1>2, <1>3, <1>16, <2>1, <2>2, <3>1, <3>2, <3>3 DEF Behind
  <2> QED  BY <1>6, <2>3, <2>4
<1>19. ReadInv'
  <2> SUFFICES ASSUME NEW u \in Threads, NEW p \in 1..Len(order'), At(u, p)', pc'[u] = "validate",
                      NEW i \in 1..checked'[u], query'[u][i].type = "RD"
               PROVE  seen'[u][query'[u][i].row] = ImageBefore(p, query[u][i].row)'
    BY ImageBeforeIn DEF ReadInv
  <2>1. u # t
    <3>1. checked'[t] = 0
      BY <1>2 DEF VInv, TypeOK
    <3> QED  BY <3>1
  <2>2. At(u, p) /\ pc[u] = "validate" /\ p \in 1..(n + 1) /\ p \in 1..Len(order)
    BY <1>3, <1>6, <1>11, <2>1 DEF At
  <2>3. PICK x : x = query[u][i].row
    OBVIOUS
  <2>4. seen[u][x] = ImageBefore(p, x)
    BY <1>2, <1>3, <2>1, <2>2, <2>3 DEF HInv, ReadInv
  <2>5. ImageBefore(p, x)' = ImageBefore(p, x)
    BY <1>13, <2>2
  <2> QED  BY <1>2, <2>3, <2>4, <2>5, ImageBeforeIn
<1>20. ASSUME NEW r \in Rows PROVE Installed(r)'
  <2>1. Installed(r)
    BY DEF HInv, DataInv, Installed
  <2>2. ImageBefore(Len(order) + 1, r)' = ImageBefore(Len(order) + 1, r)
    <3>1. Len(order') + 1 = n + 2
      BY <1>6
    <3> QED  BY <1>4, <1>14, <3>1, ImageBeforeIn
  <2>3. ASSUME NEW u \in Threads, Installing(u, r)'
        PROVE  /\ Installing(u, r) /\ pc'[u] = pc[u] /\ NextRelease(u)' = NextRelease(u)
               /\ Written(u)' = Written(u) /\ Image(Written(u))' = Image(Written(u))
    <3>1. Installing(u, r) /\ u # t
      BY <1>2, <1>15, <2>3 DEF Installing
    <3> QED  BY <1>2, <1>3, <1>9, <3>1 DEF Image, NextRelease, Lowest
  <2>4. ASSUME NEW u \in Threads, Installing(u, r)'
        PROVE  /\ ImageBefore(Len(order) + 1, r)' = Image(Written(u))'
               /\ r = NextRelease(u)' =>
                     \A w \in 1..(IF pc'[u] = "release" THEN WordCnt ELSE word'[u]) :
                         data'[r][w] = Written(u)'
    BY <1>2, <2>1, <2>2, <2>3, <2>4 DEF Installed
  <2>5. (\A u \in Threads : ~ Installing(u, r)') => data'[r] = ImageBefore(Len(order) + 1, r)'
    BY <1>2, <1>15, <2>1, <2>2 DEF Installed
  <2> QED  BY <2>4, <2>5 DEF Installed
<1>21. Serializable'
  <2> SUFFICES ASSUME NEW i \in DOMAIN order', order'[i].ok, NEW r \in Rows,
                      order'[i].reads[r] # NoImage
               PROVE  order'[i].reads[r] = ImageBefore(i, r)'
    BY DEF Serializable
  <2>1. i \in 1..(n + 1)
    BY <1>6
  <2>2. i \in 1..n
    BY <1>5, <1>6, <1>7, <2>1
  <2>3. i \in DOMAIN order
    BY <1>4, <2>2, OrderFacts DEF HInv
  <2>4. order[i].reads[r] = ImageBefore(i, r)
    BY <1>6, <2>2, <2>3 DEF HInv, Serializable
  <2> QED  BY <1>6, <1>13, <2>1, <2>2, <2>4
<1> QED  BY <1>17, <1>18, <1>19, <1>20, <1>21 DEF HInv, DataInv, Installed

----------------------------------------------------------------------------
(* A transaction fails its validation and leaves the history.              *)

LEMMA ShiftFacts ==
    ASSUME NEW n \in Nat, NEW p \in 1..n
    PROVE  /\ \A i \in 1..(n - 1) : Shift(p, i) \in 1..n /\ Shift(p, i) # p
           /\ \A i, j \in 1..(n - 1) : /\ Shift(p, i) = Shift(p, j) => i = j
                                       /\ i < j => Shift(p, i) < Shift(p, j)
           /\ \A k \in 1..n : k # p => \E i \in 1..(n - 1) : Shift(p, i) = k
           /\ Shift(p, n) = n + 1
<1>1. ASSUME NEW k \in 1..n, k # p PROVE \E i \in 1..(n - 1) : Shift(p, i) = k
  <2>1. CASE k < p
    <3>1. k \in 1..(n - 1) /\ Shift(p, k) = k
      BY <2>1 DEF Shift
    <3> QED  BY <3>1
  <2>2. CASE k > p
    <3>1. k - 1 \in 1..(n - 1) /\ Shift(p, k - 1) = k
      BY <2>2 DEF Shift
    <3> QED  BY <3>1
  <2> QED  BY <1>1, <2>1, <2>2
<1>2. \A i \in 1..(n - 1) : Shift(p, i) \in 1..n /\ Shift(p, i) # p
  BY DEF Shift
<1>3. \A i, j \in 1..(n - 1) : i < j => Shift(p, i) < Shift(p, j)
  BY DEF Shift
<1>4. \A i, j \in 1..(n - 1) : Shift(p, i) = Shift(p, j) => i = j
  BY DEF Shift
<1>5. Shift(p, n) = n + 1
  BY DEF Shift
<1> QED  BY <1>1, <1>2, <1>3, <1>4, <1>5

LEMMA ForgetFacts ==
    ASSUME OrderInv, NEW t \in Threads, NEW p, At(t, p), Forget(t)
    PROVE  /\ order' \in Seq(Entries) /\ Len(order') = Len(order) - 1
           /\ \A i \in 1..(Len(order) - 1) : order'[i] = order[Shift(p, i)]
<1>1. Place(t) = p
  <2>1. p \in DOMAIN order /\ order[p].txn = Written(t)
    BY OrderFacts DEF At
  <2>2. \A i \in DOMAIN order : order[i].txn = Written(t) => i = p
    <3>1. DOMAIN order = 1..Len(order)
      BY OrderFacts
    <3>2. \A i, j \in 1..Len(order) : order[i].txn = order[j].txn => i = j
      BY DEF OrderInv
    <3> QED  BY <2>1, <3>1, <3>2
  <2> QED  BY <2>1, <2>2 DEF Place
<1>2. PICK n \in Nat : n = Len(order) /\ p \in 1..n
  BY AtFacts
<1>3. order' = [i \in 1..(n - 1) |-> order[Shift(p, i)]]
  BY <1>1, <1>2 DEF Forget, Shift
<1>4. \A i \in 1..(n - 1) : order[Shift(p, i)] \in Entries
  BY <1>2, OrderFacts, ShiftFacts
<1>5. n - 1 \in Nat
  BY <1>2
<1>6. order' \in Seq(Entries) /\ Len(order') = n - 1
  BY <1>3, <1>4, <1>5
<1> QED  BY <1>2, <1>3, <1>6

LEMMA ForgottenNext ==
    ASSUME VInv, HInv, NEW t \in Threads, ValidateRead(t), pc' # pc
    PROVE  HInv'
<1> USE DEF Goto, txnVars, copyVars
<1>1. /\ UNCHANGED <<tid, data, query, seen, tids, word, locks, txn_cnt, checked>> /\ Step(t)
      /\ pc[t] = "validate" /\ pc'[t] = "abort" /\ Forget(t)
  BY DEF ValidateRead, Step, VInv, TypeOK
<1>2. \A u \in Threads : u # t => pc'[u] = pc[u]
  BY <1>1, Frame DEF VInv
<1>3. InFlight(t) /\ ~ InFlight(t)'
      /\ \A u \in Threads : u # t => (InFlight(u)' <=> InFlight(u))
  BY <1>1, <1>2 DEF InFlight
<1>4. PICK p \in 1..Len(order) : At(t, p) /\ ~ order[p].ok
  BY <1>1, <1>3, PlaceFacts DEF HInv
<1>5. PICK n \in Nat : n = Len(order) /\ p \in 1..n /\ n - 1 \in Nat
  BY <1>4, AtFacts DEF HInv
<1>6. /\ order' \in Seq(Entries) /\ Len(order') = n - 1
      /\ \A i \in 1..(n - 1) : order'[i] = order[Shift(p, i)]
  BY <1>1, <1>4, <1>5, ForgetFacts DEF HInv
<1>7. /\ \A i \in 1..(n - 1) : Shift(p, i) \in 1..n /\ Shift(p, i) # p
      /\ \A i, j \in 1..(n - 1) : /\ Shift(p, i) = Shift(p, j) => i = j
                                  /\ i < j => Shift(p, i) < Shift(p, j)
      /\ \A k \in 1..n : k # p => \E i \in 1..(n - 1) : Shift(p, i) = k
      /\ Shift(p, n) = n + 1
  <2>1. p \in 1..n
    BY <1>5
  <2> QED  BY <2>1, ShiftFacts
<1>8. \A u \in Threads : Written(u)' = Written(u)
  BY <1>1 DEF Written
<1>9. ASSUME NEW u \in Threads, NEW q
      PROVE  At(u, q)' <=> u # t /\ q \in 1..(n - 1) /\ At(u, Shift(p, q))
  BY <1>3, <1>5, <1>6, <1>7, <1>8 DEF At
<1>10. ASSUME NEW i \in 1..n, NEW r PROVE ImageBefore(i, r)' = ImageBefore(Shift(p, i), r)
  <2>1. p \in 1..n /\ ~ order[p].ok /\ \A j \in 1..(n - 1) : order'[j] = order[Shift(p, j)]
    BY <1>4, <1>5, <1>6
  <2>2. ImageIn(order', i, r) = ImageIn(order, Shift(p, i), r)
    BY <2>1, ImageRemoved
  <2> QED  BY <2>2, ImageBeforeIn
<1>11. \A u \in Threads, r \in Rows : Installing(u, r)' <=> Installing(u, r)
  BY <1>1, <1>2 DEF Installing
<1>12. \A u \in Threads : WriteSet(u)' = WriteSet(u) /\ AccessSet(u)' = AccessSet(u)
  BY <1>1, Same
<1>13. ASSUME NEW u \in Threads, u # t, NEW k, At(u, k)
       PROVE  \E q \in 1..(n - 1) : Shift(p, q) = k
  <2>1. k \in 1..n /\ k # p
    BY <1>4, <1>5, <1>13, AtFacts DEF HInv
  <2> QED  BY <1>7, <2>1
<1>14. OrderInv'
  <2>1. ASSUME NEW i \in 1..Len(order'), NEW j \in 1..Len(order'), order'[i].txn = order'[j].txn
        PROVE  i = j
    <3>1. i \in 1..(n - 1) /\ j \in 1..(n - 1)
      BY <1>6
    <3>2. Shift(p, i) \in 1..Len(order) /\ Shift(p, j) \in 1..Len(order)
      BY <1>5, <1>7, <3>1
    <3>3. order[Shift(p, i)].txn = order[Shift(p, j)].txn
      BY <1>6, <2>1, <3>1
    <3>4. Shift(p, i) = Shift(p, j)
      BY <3>2, <3>3 DEF HInv, OrderInv
    <3> QED  BY <1>7, <3>1, <3>4
  <2>2. ASSUME NEW i \in 1..Len(order')
        PROVE  \E u \in Threads, m \in 1..MaxTxn :
                  order'[i].txn = <<u, m>> /\ (m <= txn_cnt'[u] \/ At(u, i)')
    <3>1. i \in 1..(n - 1) /\ Shift(p, i) \in 1..n /\ Shift(p, i) # p
      BY <1>6, <1>7
    <3>2. PICK u \in Threads, m \in 1..MaxTxn :
             order[Shift(p, i)].txn = <<u, m>> /\ (m <= txn_cnt[u] \/ At(u, Shift(p, i)))
      BY <1>5, <3>1 DEF HInv, OrderInv
    <3>3. At(u, Shift(p, i)) => At(u, i)'
      BY <1>4, <1>9, <3>1, AtFacts DEF HInv
    <3> QED  BY <1>1, <1>6, <3>1, <3>2, <3>3
  <2>3. ASSUME NEW u \in Threads, InFlight(u)' PROVE \E q \in 1..Len(order') : At(u, q)'
    <3>1. u # t /\ InFlight(u)
      BY <1>3, <2>3
    <3>2. PICK k \in 1..Len(order) : At(u, k)
      BY <3>1 DEF HInv, OrderInv
    <3>3. PICK q \in 1..(n - 1) : Shift(p, q) = k
      BY <1>13, <3>1, <3>2
    <3> QED  BY <1>6, <1>9, <3>1, <3>2, <3>3
  <2>4. ASSUME NEW u \in Threads, NEW q \in 1..Len(order'), At(u, q)'
        PROVE  /\ order'[q].writes = WriteSet(u)' /\ order'[q].reads = seen'[u]
               /\ order'[q].ok <=> pc'[u] # "validate"
    <3>1. u # t /\ At(u, Shift(p, q)) /\ Shift(p, q) \in 1..Len(order) /\ q \in 1..(n - 1)
      BY <1>5, <1>7, <1>9, <2>4
    <3>2. /\ order[Shift(p, q)].writes = WriteSet(u) /\ order[Shift(p, q)].reads = seen[u]
          /\ order[Shift(p, q)].ok <=> pc[u] # "validate"
      BY <3>1 DEF HInv, OrderInv
    <3> QED  BY <1>1, <1>2, <1>6, <1>12, <3>1, <3>2
  <2> QED  BY <1>6, <2>1, <2>2, <2>3, <2>4 DEF OrderInv
<1>15. BehindInv'
  <2> SUFFICES ASSUME NEW u \in Threads, NEW q \in 1..Len(order'), At(u, q)',
                      NEW j \in (q + 1)..Len(order')
               PROVE  /\ \A r \in locks'[u] :
                            /\ r \notin order'[j].writes
                            /\ order'[j].ok => order'[j].reads[r] = NoImage
                      /\ \A s \in Threads : At(s, j)' /\ pc'[s] = "validate" =>
                            \A i \in 1..checked'[s] : query'[s][i].row \notin locks'[u]
                      /\ pc'[u] = "validate" /\ order'[j].ok =>
                            \A r \in AccessSet(u)' \cap order'[j].writes : Away(r, tids[u][r])'
    BY DEF BehindInv, Behind
  <2>1. /\ u # t /\ At(u, Shift(p, q)) /\ Shift(p, q) \in 1..Len(order)
        /\ q \in 1..(n - 1) /\ j \in 1..(n - 1) /\ q < j
    BY <1>5, <1>6, <1>7, <1>9
  <2>2. Behind(u, Shift(p, q))
    BY <2>1 DEF HInv, BehindInv
  <2>3. PICK k : k = Shift(p, j)
    OBVIOUS
  <2>4. k \in (Shift(p, q) + 1)..Len(order)
    <3>1. k \in 1..n /\ Shift(p, q) \in 1..n /\ Shift(p, q) < k
      BY <1>7, <2>1, <2>3
    <3> QED  BY <1>5, <3>1
  <2>5. order'[j] = order[k]
    BY <1>6, <2>1, <2>3
  <2>6. \A s \in Threads : At(s, j)' => At(s, k) /\ s # t
    BY <1>9, <2>3
  <2>7. \A r : Away(r, tids[u][r]) => Away(r, tids[u][r])'
    <3>1. \A s \in Threads : \A r : Installing(s, r) => Installing(s, r)'
      BY <1>1, <1>2 DEF Installing
    <3> QED  BY <1>1, <3>1 DEF Away
  <2> QED  BY <1>1, <1>2, <1>12, <2>1, <2>2, <2>4, <2>5, <2>6, <2>7 DEF Behind
<1>16. ReadInv'
  <2> SUFFICES ASSUME NEW u \in Threads, NEW q \in 1..Len(order'), At(u, q)', pc'[u] = "validate",
                      NEW i \in 1..checked'[u], query'[u][i].type = "RD"
               PROVE  seen'[u][query'[u][i].row] = ImageBefore(q, query[u][i].row)'
    BY ImageBeforeIn DEF ReadInv
  <2>1. /\ u # t /\ At(u, Shift(p, q)) /\ Shift(p, q) \in 1..Len(order)
        /\ q \in 1..(n - 1) /\ q \in 1..n
    BY <1>5, <1>7, <1>9
  <2>2. PICK x : x = query[u][i].row
    OBVIOUS
  <2>3. seen[u][x] = ImageBefore(Shift(p, q), x)
    BY <1>1, <1>2, <2>1, <2>2 DEF HInv, ReadInv
  <2>4. ImageBefore(q, x)' = ImageBefore(Shift(p, q), x)
    BY <1>10, <2>1
  <2> QED  BY <1>1, <2>2, <2>3, <2>4, ImageBeforeIn
<1>17. ASSUME NEW r \in Rows PROVE Installed(r)'
  <2>1. Installed(r)
    BY DEF HInv, DataInv, Installed
  <2>2. ImageBefore(Len(order) + 1, r)' = ImageBefore(Len(order) + 1, r)
    <3>1. Len(order') + 1 = n /\ n \in 1..n
      BY <1>5, <1>6
    <3>2. ImageBefore(n, r)' = ImageBefore(n + 1, r)
      BY <1>7, <1>10, <3>1
    <3> QED  BY <1>5, <3>1, <3>2, ImageBeforeIn
  <2>3. ASSUME NEW u \in Threads, Installing(u, r)'
        PROVE  /\ Installing(u, r) /\ pc'[u] = pc[u] /\ NextRelease(u)' = NextRelease(u)
               /\ Written(u)' = Written(u) /\ Image(Written(u))' = Image(Written(u))
    <3>1. Installing(u, r) /\ u # t
      BY <1>1, <1>11, <2>3 DEF Installing
    <3> QED  BY <1>1, <1>2, <1>8, <3>1 DEF Image, NextRelease, Lowest
  <2>4. ASSUME NEW u \in Threads, Installing(u, r)'
        PROVE  /\ ImageBefore(Len(order) + 1, r)' = Image(Written(u))'
               /\ r = NextRelease(u)' =>
                     \A w \in 1..(IF pc'[u] = "release" THEN WordCnt ELSE word'[u]) :
                         data'[r][w] = Written(u)'
    BY <1>1, <2>1, <2>2, <2>3, <2>4 DEF Installed
  <2>5. (\A u \in Threads : ~ Installing(u, r)') => data'[r] = ImageBefore(Len(order) + 1, r)'
    BY <1>1, <1>11, <2>1, <2>2 DEF Installed
  <2> QED  BY <2>4, <2>5 DEF Installed
<1>18. Serializable'
  <2> SUFFICES ASSUME NEW i \in DOMAIN order', order'[i].ok, NEW r \in Rows,
                      order'[i].reads[r] # NoImage
               PROVE  order'[i].reads[r] = ImageBefore(i, r)'
    BY DEF Serializable
  <2>1. i \in 1..(n - 1) /\ i \in 1..n /\ Shift(p, i) \in 1..n
    BY <1>5, <1>6, <1>7
  <2>2. Shift(p, i) \in DOMAIN order
    BY <1>5, <2>1, OrderFacts DEF HInv
  <2>3. order[Shift(p, i)].reads[r] = ImageBefore(Shift(p, i), r)
    BY <1>6, <2>1, <2>2 DEF HInv, Serializable
  <2> QED  BY <1>6, <1>10, <2>1, <2>3
<1> QED  BY <1>14, <1>15, <1>16, <1>17, <1>18 DEF HInv, DataInv, Installed

----------------------------------------------------------------------------
(* A transaction commits.                                                  *)

LEMMA CommitNext ==
    ASSUME WritesLocal, VInv, SeenInv, HInv, NEW t \in Threads, Commit(t)
    PROVE  HInv'
<1> USE DEF Goto, txnVars, copyVars
<1>0. /\ pc[t] = "validate" /\ Step(t) /\ checked[t] = Len(query[t])
      /\ UNCHANGED <<tid, data, query, seen, tids, word, locks, txn_cnt, checked>>
  BY DEF Commit, Step
<1>1. locks[t] = WriteSet(t) /\ word[t] = 0
  BY <1>0 DEF VInv, PhaseInv, Phase
<1>2. \A r \in WriteSet(t) : tid[r] = tids[t][r]
  BY <1>0, <1>1 DEF VInv, LockTidInv, LockTid
<1>3. /\ order' = [i \in DOMAIN order |->
                     IF order[i].txn = Written(t) THEN [order[i] EXCEPT !.ok = TRUE] ELSE order[i]]
      /\ pc'[t] = "write"
  BY <1>2 DEF Commit, Unchanged, VInv, TypeOK
<1>4. \A u \in Threads : u # t => pc'[u] = pc[u]
  BY <1>0, Frame DEF VInv
<1>5. InFlight(t) /\ \A u \in Threads : InFlight(u)' <=> InFlight(u)
  BY <1>0, <1>3, <1>4 DEF InFlight
<1>6. PICK p \in 1..Len(order) :
         At(t, p) /\ ~ order[p].ok /\ order[p].writes = WriteSet(t) /\ order[p].reads = seen[t]
  BY <1>0, <1>5, PlaceFacts DEF HInv
<1>7. PICK n \in Nat : n = Len(order) /\ p \in 1..n /\ DOMAIN order = 1..n
  BY <1>6, OrderFacts DEF HInv
<1>8. \A i \in 1..n : order[i].txn = Written(t) <=> i = p
  BY <1>6, <1>7 DEF At, HInv, OrderInv
<1>9. /\ DOMAIN order' = 1..n /\ Len(order') = n
      /\ \A i \in 1..n : order'[i] = IF i = p THEN [order[i] EXCEPT !.ok = TRUE] ELSE order[i]
  <2>1. order' = [i \in 1..n |-> IF order[i].txn = Written(t)
                                  THEN [order[i] EXCEPT !.ok = TRUE] ELSE order[i]]
    BY <1>3, <1>7
  <2> QED  BY <1>7, <1>8, <2>1
<1>10. ASSUME NEW i \in 1..n
       PROVE  /\ order'[i] \in Entries
              /\ order'[i].txn = order[i].txn /\ order'[i].reads = order[i].reads
              /\ order'[i].writes = order[i].writes
              /\ order'[i].ok <=> order[i].ok \/ i = p
  <2>1. order[i] \in Entries
    BY <1>7, OrderFacts DEF HInv
  <2>2. CASE i # p
    BY <1>9, <2>1, <2>2
  <2>3. CASE i = p
    <3>1. order'[i] = [order[i] EXCEPT !.ok = TRUE]
      BY <1>9, <2>3
    <3> QED  BY <2>1, <2>3, <3>1 DEF Entries
  <2> QED  BY <2>2, <2>3
<1>11. \A u \in Threads : Written(u)' = Written(u) /\ Image(Written(u))' = Image(Written(u))
  BY <1>0 DEF Written, Image
<1>12. \A u \in Threads : \A q : At(u, q)' <=> At(u, q)
  BY <1>5, <1>7, <1>9, <1>10, <1>11 DEF At
<1>13. \A u \in Threads : WriteSet(u)' = WriteSet(u) /\ AccessSet(u)' = AccessSet(u)
  BY <1>0, Same
<1>14. Behind(t, p)
  BY <1>6 DEF HInv, BehindInv
\* What was written before t's place, and who has written what t does not.
<1>15. ASSUME NEW i \in 1..(n + 1), NEW r, i <= p \/ r \notin WriteSet(t)
       PROVE  ImageBefore(i, r)' = ImageBefore(i, r)
  <2>1. \A j \in 1..(i - 1) : j \in 1..n /\ (j = p => r \notin WriteSet(t))
    BY <1>7, <1>15
  <2>2. WritersIn(order', i, r) = WritersIn(order, i, r)
    BY <1>6, <1>10, <2>1 DEF WritersIn
  <2>3. \A j \in WritersIn(order, i, r) : order'[j].txn = order[j].txn
    BY <1>10, <2>1 DEF WritersIn
  <2>4. i \in Nat
    OBVIOUS
  <2> QED  BY <2>2, <2>3, <2>4, SamePlaces, ImageBeforeIn
<1>16. ASSUME NEW r \in WriteSet(t) PROVE ImageBefore(n + 1, r)' = Image(Written(t))
  <2>1. p \in WritersIn(order', n + 1, r)
    BY <1>6, <1>7, <1>10 DEF WritersIn
  <2>2. ASSUME NEW j \in WritersIn(order', n + 1, r) PROVE j <= p
    <3>1. j \in 1..n /\ r \in order[j].writes
      BY <1>10 DEF WritersIn
    <3>2. j \notin (p + 1)..Len(order)
      BY <1>1, <1>14, <3>1 DEF Behind
    <3> QED  BY <1>7, <3>1, <3>2
  <2>3. n + 1 \in Nat
    OBVIOUS
  <2>4. ImageIn(order', n + 1, r) = Image(order'[p].txn)
    BY <2>1, <2>2, <2>3, LastWriter
  <2>5. order'[p].txn = Written(t)
    BY <1>7, <1>8, <1>10
  <2> QED  BY <2>4, <2>5, ImageBeforeIn
<1>17. \A u \in Threads : \A r : Installing(u, r) => Installing(u, r)'
  BY <1>0, <1>4 DEF Installing
<1>18. \A r : Installing(t, r)' <=> r \in WriteSet(t)
  BY <1>0, <1>1, <1>3 DEF Installing
\* The rows that t has accessed are those it has checked.
<1>19. ASSUME NEW r \in Rows, seen[t][r] # NoImage
       PROVE  /\ r \in AccessSet(t)
              /\ \E i \in 1..checked[t] : r = query[t][i].row
  <2>1. r \in AccessSet(t)
    BY <1>19 DEF SeenInv, Seen
  <2> QED  BY <1>0, <2>1, Validating
<1>20. OrderInv'
  <2>1. order' \in Seq(Entries)
    <3>1. order' = [i \in 1..n |-> order'[i]]
      BY <1>3, <1>7, <1>9
    <3> QED  BY <1>10, <3>1
  <2>2. \A i, j \in 1..Len(order') : order'[i].txn = order'[j].txn => i = j
    BY <1>7, <1>9, <1>10 DEF HInv, OrderInv
  <2>3. \A i \in 1..Len(order') : \E u \in Threads, m \in 1..MaxTxn :
           order'[i].txn = <<u, m>> /\ (m <= txn_cnt'[u] \/ At(u, i)')
    BY <1>0, <1>7, <1>9, <1>10, <1>12 DEF HInv, OrderInv
  <2>4. \A u \in Threads : InFlight(u)' => \E q \in 1..Len(order') : At(u, q)'
    BY <1>5, <1>7, <1>9, <1>12 DEF HInv, OrderInv
  <2>5. ASSUME NEW u \in Threads, NEW q \in 1..Len(order'), At(u, q)'
        PROVE  /\ order'[q].writes = WriteSet(u)' /\ order'[q].reads = seen'[u]
               /\ order'[q].ok <=> pc'[u] # "validate"
    <3>1. At(u, q) /\ q \in 1..n
      BY <1>9, <1>12, <2>5
    <3>2. /\ order[q].writes = WriteSet(u) /\ order[q].reads = seen[u]
          /\ order[q].ok <=> pc[u] # "validate"
      BY <1>7, <3>1 DEF HInv, OrderInv
    <3>3. q = p <=> u = t
      BY <1>6, <3>1, AtFacts DEF HInv
    <3>4. order'[q].ok <=> pc'[u] # "validate"
      BY <1>3, <1>4, <1>10, <3>1, <3>2, <3>3
    <3> QED  BY <1>0, <1>10, <1>13, <3>1, <3>2, <3>4
  <2> QED  BY <2>1, <2>2, <2>3, <2>4, <2>5 DEF OrderInv
<1>21. BehindInv'
  <2> SUFFICES ASSUME NEW u \in Threads, NEW q \in 1..Len(order'), At(u, q)',
                      NEW j \in (q + 1)..Len(order')
               PROVE  /\ \A r \in locks'[u] :
                            /\ r \notin order'[j].writes
                            /\ order'[j].ok => order'[j].reads[r] = NoImage
                      /\ \A s \in Threads : At(s, j)' /\ pc'[s] = "validate" =>
                            \A i \in 1..checked'[s] : query'[s][i].row \notin locks'[u]
                      /\ pc'[u] = "validate" /\ order'[j].ok =>
                            \A r \in AccessSet(u)' \cap order'[j].writes : Away(r, tids[u][r])'
    BY DEF BehindInv, Behind
  <2>1. At(u, q) /\ q \in 1..Len(order) /\ j \in (q + 1)..Len(order) /\ j \in 1..n
    BY <1>7, <1>9, <1>12
  <2>2. Behind(u, q)
    BY <2>1 DEF HInv, BehindInv
  <2>3. ASSUME NEW r \in locks'[u], j = p PROVE order[j].reads[r] = NoImage
    <3>1. SUFFICES ASSUME seen[t][r] # NoImage PROVE FALSE
      BY <1>6, <2>3
    <3>2. r \in Rows
      BY <1>0 DEF VInv, TypeOK
    <3>3. PICK i \in 1..checked[t] : r = query[t][i].row
      BY <1>19, <3>1, <3>2
    <3>4. r \notin locks[u]
      BY <1>0, <1>6, <2>1, <2>2, <2>3, <3>3 DEF Behind
    <3> QED  BY <1>0, <3>4
  <2>4. \A r \in locks'[u] :
           r \notin order'[j].writes /\ (order'[j].ok => order'[j].reads[r] = NoImage)
    BY <1>0, <1>10, <2>1, <2>2, <2>3 DEF Behind
  <2>5. \A s \in Threads : At(s, j)' /\ pc'[s] = "validate" =>
           \A i \in 1..checked'[s] : query'[s][i].row \notin locks'[u]
    BY <1>0, <1>3, <1>4, <1>12, <2>1, <2>2 DEF Behind
  <2>6. ASSUME pc'[u] = "validate", order'[j].ok, NEW r \in AccessSet(u)' \cap order'[j].writes
        PROVE  Away(r, tids[u][r])'
    <3>1. u # t /\ pc[u] = "validate" /\ r \in AccessSet(u) \cap order[j].writes
      BY <1>3, <1>4, <1>10, <1>13, <2>1, <2>6
    <3>2. CASE j = p
      BY <1>6, <1>18, <3>1, <3>2 DEF Away
    <3>3. CASE j # p
      <4>1. Away(r, tids[u][r])
        BY <1>10, <2>1, <2>2, <2>6, <3>1, <3>3 DEF Behind
      <4> QED  BY <1>0, <1>17, <4>1 DEF Away
    <3> QED  BY <3>2, <3>3
  <2> QED  BY <2>4, <2>5, <2>6
<1>22. ReadInv'
  <2> SUFFICES ASSUME NEW u \in Threads, NEW q \in 1..Len(order'), At(u, q)', pc'[u] = "validate",
                      NEW i \in 1..checked'[u], query'[u][i].type = "RD"
               PROVE  seen'[u][query'[u][i].row] = ImageBefore(q, query[u][i].row)'
    BY ImageBeforeIn DEF ReadInv
  <2>1. u # t /\ pc[u] = "validate" /\ At(u, q) /\ q \in 1..Len(order) /\ q \in 1..(n + 1)
    BY <1>3, <1>4, <1>7, <1>9, <1>12
  <2>2. PICK x : x = query[u][i].row
    OBVIOUS
  <2>3. seen[u][x] = ImageBefore(q, x)
    BY <1>0, <2>1, <2>2 DEF HInv, ReadInv
  <2>4. ASSUME q > p PROVE x \notin WriteSet(t)
    <3>1. q \in (p + 1)..Len(order)
      BY <1>7, <2>1, <2>4
    <3> QED  BY <1>0, <1>1, <1>14, <2>1, <2>2, <3>1 DEF Behind
  <2>5. q <= p \/ x \notin WriteSet(t)
    BY <1>7, <2>1, <2>4
  <2>6. ImageBefore(q, x)' = ImageBefore(q, x)
    BY <1>15, <2>1, <2>5
  <2> QED  BY <1>0, <2>2, <2>3, <2>6, ImageBeforeIn
<1>23. ASSUME NEW r \in Rows PROVE Installed(r)'
  <2>1. Installed(r)
    BY DEF HInv, DataInv, Installed
  <2>2. ImageBefore(n + 1, r)' = ImageBefore(Len(order) + 1, r)'
    BY <1>9, ImageBeforeIn
  <2>3. CASE r \in WriteSet(t)
    <3>1. Installing(t, r)' /\ \A u \in Threads : Installing(u, r)' => u = t
      BY <1>0, <1>1, <1>18, <2>3 DEF Installing, VInv, LockBits
    <3>2. ImageBefore(Len(order) + 1, r)' = Image(Written(t))'
      BY <1>11, <1>16, <2>2, <2>3
    <3>3. pc'[t] # "release" /\ word'[t] = 0
      BY <1>0, <1>1, <1>3
    <3> QED  BY <3>1, <3>2, <3>3 DEF Installed
  <2>4. CASE r \notin WriteSet(t)
    <3>1. n + 1 \in 1..(n + 1)
      OBVIOUS
    <3>2. ImageBefore(Len(order) + 1, r)' = ImageBefore(Len(order) + 1, r)
      BY <1>7, <1>15, <2>2, <2>4, <3>1
    <3>3. \A u \in Threads : Installing(u, r)' <=> Installing(u, r)
      BY <1>0, <1>1, <1>4, <2>4 DEF Installing
    <3>4. ASSUME NEW u \in Threads, Installing(u, r)'
          PROVE  /\ Installing(u, r) /\ pc'[u] = pc[u] /\ NextRelease(u)' = NextRelease(u)
                 /\ Written(u)' = Written(u) /\ Image(Written(u))' = Image(Written(u))
      <4>1. Installing(u, r) /\ u # t
        BY <1>18, <2>4, <3>3, <3>4
      <4> QED  BY <1>0, <1>4, <1>11, <4>1 DEF NextRelease, Lowest
    <3>5. ASSUME NEW u \in Threads, Installing(u, r)'
          PROVE  /\ ImageBefore(Len(order) + 1, r)' = Image(Written(u))'
                 /\ r = NextRelease(u)' =>
                       \A w \in 1..(IF pc'[u] = "release" THEN WordCnt ELSE word'[u]) :
                           data'[r][w] = Written(u)'
      BY <1>0, <2>1, <3>2, <3>4, <3>5 DEF Installed
    <3>6. (\A u \in Threads : ~ Installing(u, r)') => data'[r] = ImageBefore(Len(order) + 1, r)'
      BY <1>0, <2>1, <3>2, <3>3 DEF Installed
    <3> QED  BY <3>5, <3>6 DEF Installed
  <2> QED  BY <2>3, <2>4
<1>24. Serializable'
  <2> SUFFICES ASSUME NEW i \in DOMAIN order', order'[i].ok, NEW r \in Rows,
                      order'[i].reads[r] # NoImage
               PROVE  order'[i].reads[r] = ImageBefore(i, r)'
    BY DEF Serializable
  <2>1. i \in 1..n /\ i \in 1..(n + 1) /\ order'[i].reads = order[i].reads
    BY <1>9, <1>10
  <2>2. CASE i # p
    <3>1. order[i].ok /\ order[i].reads[r] = ImageBefore(i, r)
      BY <1>7, <1>10, <2>1, <2>2 DEF HInv, Serializable
    <3>2. ASSUME i > p PROVE r \notin WriteSet(t)
      <4>1. i \in (p + 1)..Len(order)
        BY <1>7, <2>1, <3>2
      <4> QED  BY <1>1, <1>14, <2>1, <3>1, <4>1 DEF Behind
    <3>3. i <= p \/ r \notin WriteSet(t)
      BY <1>7, <2>1, <3>2
    <3> QED  BY <1>15, <2>1, <3>1, <3>3
  <2>3. CASE i = p
    <3>1. order[i].reads = seen[t] /\ seen[t][r] # NoImage
      BY <1>6, <2>1, <2>3
    <3>2. PICK k \in 1..checked[t] : r = query[t][k].row /\ r \in AccessSet(t)
      BY <1>19, <3>1
    <3>3. query[t] \in Queries /\ k \in 1..Len(query[t])
      BY <1>0, <3>2, Validating
    <3>4. query[t][k].type \in {"RD", "WR"} /\ DOMAIN query[t] = 1..Len(query[t])
      BY <3>3, QueryFacts
    <3>5. seen[t][r] = ImageBefore(p, r)
      <4>1. CASE query[t][k].type = "RD"
        BY <1>0, <1>6, <3>2, <4>1 DEF HInv, ReadInv
      <4>2. CASE query[t][k].type = "WR"
        <5>1. r \in WriteSet(t)
          BY <3>2, <3>3, <3>4, <4>2 DEF WriteSet, RowsOf
        <5>2. tid[r] = tids[t][r]
          BY <1>2, <5>1
        <5>3. \A u \in Threads : ~ Installing(u, r)
          BY <1>0, <1>1, <5>1 DEF Installing, VInv, LockBits
        <5> QED  BY <1>0, <1>6, <3>2, <5>2, <5>3, ReadsPlace
      <4> QED  BY <3>4, <4>1, <4>2
    <3>6. i <= p
      BY <1>7, <2>3
    <3> QED  BY <1>15, <2>1, <2>3, <3>1, <3>5, <3>6
  <2> QED  BY <2>2, <2>3
<1> QED  BY <1>20, <1>21, <1>22, <1>23, <1>24 DEF HInv, DataInv, Installed

----------------------------------------------------------------------------
(* The copies.                                                             *)

LEMMA SomeImage ==
    ASSUME OrderInv, NEW r
    PROVE  \E val \in Values : ImageBefore(Len(order) + 1, r) = Image(val)
<1>1. PICK n \in Nat : n = Len(order)
  BY OrderFacts
<1>2. CASE WritersIn(order, n + 1, r) = {}
  BY <1>1, <1>2, ImageBeforeIn DEF ImageIn, Values
<1>3. CASE WritersIn(order, n + 1, r) # {}
  <2>1. n + 1 \in Nat
    OBVIOUS
  <2>2. PICK k \in WritersIn(order, n + 1, r) : \A l \in WritersIn(order, n + 1, r) : l <= k
    BY <1>3, <2>1, SomeLastWriter
  <2>3. ImageIn(order, n + 1, r) = Image(order[k].txn)
    BY <2>1, <2>2, LastWriter
  <2>4. k \in 1..Len(order)
    BY <1>1 DEF WritersIn
  <2>5. order[k].txn \in Values
    BY <2>4, OrderFacts DEF Values
  <2> QED  BY <1>1, <2>3, <2>5, ImageBeforeIn
<1> QED  BY <1>2, <1>3

LEMMA SeenNext ==
    ASSUME WritesLocal, VInv, SeenInv, HInv, [Next]_vars
    PROVE  SeenInv'
<1> USE DEF Goto, txnVars, copyVars
<1>0. \A u \in Threads : Seen(u)
  BY DEF SeenInv, Seen
\* Nothing is copied.
<1>1. ASSUME NEW u \in Threads, query'[u] = query[u], seen'[u] = seen[u], Got(u)' \subseteq Got(u)
      PROVE  Seen(u)'
  <2>1. AccessSet(u)' = AccessSet(u)
    BY <1>1, Same
  <2> QED  BY <1>0, <1>1, <2>1 DEF Seen, NoImage, Image
<1>2. ASSUME NEW t \in Threads, Step(t), NEW u \in Threads, u # t PROVE Seen(u)'
  <2>1. query'[u] = query[u] /\ seen'[u] = seen[u] /\ pc'[u] = pc[u] /\ row_cnt'[u] = row_cnt[u]
    BY <1>2, Frame DEF VInv
  <2>2. Got(u)' = Got(u)
    BY <2>1 DEF Got
  <2> QED  BY <1>1, <2>1, <2>2
<1>3. ASSUME NEW t \in Threads, Fetch(t) \/ Abort(t) \/ Finish(t) PROVE Seen(t)'
  <2>1. row_cnt'[t] = 0 /\ pc'[t] \in {"read_tid", "fetch", "done"} /\ seen'[t] = NoReads
    BY <1>3 DEF Fetch, Abort, Finish, VInv, TypeOK
  <2>2. Got(t)' = {}
    BY <2>1 DEF Got
  <2> QED  BY <2>1, <2>2 DEF Seen, NoReads, NoImage
<1>4. ASSUME NEW t \in Threads, ReadTid(t) PROVE Seen(t)'
  <2>1. /\ query' = query /\ seen' = seen /\ row_cnt' = row_cnt
        /\ pc[t] = "read_tid" /\ pc'[t] = "copy"
    BY <1>4 DEF ReadTid, VInv, TypeOK
  <2>2. Got(t)' = Got(t)
    BY <2>1 DEF Got
  <2> QED  BY <1>1, <2>1, <2>2
<1>5. ASSUME NEW t \in Threads, Copy(t) PROVE Seen(t)'
  <2>1. /\ query' = query /\ row_cnt' = row_cnt /\ pc' = pc /\ pc[t] = "copy"
        /\ seen' = [seen EXCEPT ![t][NextReq(t).row][word[t] + 1] = data[NextReq(t).row][word[t] + 1]]
    BY <1>5 DEF Copy
  <2>2. PICK r \in Rows : r = NextReq(t).row /\ r \in AccessSet(t)
    <3>1. query[t] \in Queries /\ row_cnt[t] + 1 \in 1..Len(query[t]) /\ NextReq(t).row \in Rows
      BY <2>1, Running DEF VInv
    <3>2. NextReq(t).row \in AccessSet(t)
      BY <3>1, AccessFacts DEF NextReq
    <3> QED  BY <3>1, <3>2
  <2>3. \A s \in Rows : s # r => seen'[t][s] = seen[t][s]
    BY <2>1, <2>2 DEF VInv, TypeOK
  <2>4. Got(t)' = Got(t) /\ r \notin Got(t) /\ Got(t) \subseteq Rows
    BY <2>1, <2>2, GotFacts DEF Got, VInv
  <2>5. AccessSet(t)' = AccessSet(t)
    BY <2>1, Same
  <2>6. \A s \in Rows \ AccessSet(t)' : seen'[t][s] = NoImage
    BY <1>0, <2>2, <2>3, <2>5 DEF Seen
  <2>7. ASSUME NEW s \in Got(t)' PROVE \E val \in Values : seen'[t][s] = Image(val)
    BY <1>0, <2>3, <2>4 DEF Seen
  <2> QED  BY <2>6, <2>7 DEF Seen, NoImage, Image
<1>6. ASSUME NEW t \in Threads, Recheck(t) PROVE Seen(t)'
  <2>1. PICK r \in Rows : r = NextReq(t).row
    BY <1>6, Running DEF Recheck, VInv
  <2>2. /\ query' = query /\ seen' = seen /\ row_cnt' = row_cnt /\ pc[t] = "copy"
        /\ word[t] = WordCnt
        /\ \/ tid[r] = v[t] /\ ~ locked[r] /\ pc'[t] = "compute"
           \/ pc'[t] = "read_tid"
    BY <1>6, <2>1 DEF Recheck, VInv, TypeOK
  <2>3. CASE pc'[t] = "read_tid"
    <3>1. Got(t)' = Got(t)
      BY <2>2, <2>3 DEF Got
    <3> QED  BY <1>1, <2>2, <3>1
  <2>4. CASE tid[r] = v[t] /\ ~ locked[r] /\ pc'[t] = "compute"
    <3>1. \A s \in Got(t)' : s \in Got(t) \/ s = r
      <4>1. row_cnt[t] \in Nat /\ \A i \in 1..(row_cnt[t] + 1) : i \in 1..row_cnt[t] \/ i = row_cnt[t] + 1
        BY DEF VInv, TypeOK
      <4>2. Got(t)' = {query[t][i].row : i \in 1..(row_cnt[t] + 1)}
        BY <2>2, <2>4 DEF Got
      <4>3. Got(t) = {query[t][i].row : i \in 1..row_cnt[t]}
        BY <2>2 DEF Got
      <4> QED  BY <2>1, <4>1, <4>2, <4>3 DEF NextReq
    <3>2. \A u \in Threads : ~ Installing(u, r)
      BY <2>4 DEF Installing, VInv, LockBits
    <3>3. Holds(r, v[t], seen[t][r], WordCnt)
      BY <2>1, <2>2 DEF VInv, CopyInv, HasCopies
    <3>4. seen[t][r] = data[r]
      <4>1. \A w \in Words : seen[t][r][w] = data[r][w]
        BY <2>4, <3>2, <3>3 DEF Holds, Words
      <4>2. seen[t][r] \in Images /\ data[r] \in Images
        BY DEF VInv, TypeOK
      <4> QED  BY <4>1, <4>2 DEF Images
    <3>5. data[r] = ImageBefore(Len(order) + 1, r)
      BY <3>2 DEF HInv, DataInv, Installed
    <3>6. \E val \in Values : seen[t][r] = Image(val)
      BY <3>4, <3>5, SomeImage DEF HInv
    <3>7. AccessSet(t)' = AccessSet(t)
      BY <2>2, Same
    <3>8. \A s \in Got(t)' : \E val \in Values : seen[t][s] = Image(val)
      BY <1>0, <3>1, <3>6 DEF Seen
    <3>9. \A s \in Rows \ AccessSet(t) : seen[t][s] = NoImage
      BY <1>0 DEF Seen
    <3> QED  BY <2>2, <3>7, <3>8, <3>9 DEF Seen, NoImage, Image
  <2> QED  BY <2>2, <2>3, <2>4
<1>7. ASSUME NEW t \in Threads, Compute(t) PROVE Seen(t)'
  <2>1. /\ query' = query /\ seen' = seen /\ row_cnt'[t] = row_cnt[t] + 1
        /\ pc[t] = "compute" /\ pc'[t] \in {"pre_abort", "read_tid"}
    BY <1>7 DEF Compute, VInv, TypeOK
  <2>2. Got(t)' = Got(t)
    BY <2>1 DEF Got
  <2> QED  BY <1>1, <2>1, <2>2
<1>8. ASSUME NEW t \in Threads,
             \/ PreAbort(t) \/ LockRow(t) \/ LockBusy(t) \/ Unlock(t) \/ BackOff(t)
             \/ Locked(t) \/ ValidateRead(t) \/ Commit(t) \/ Install(t) \/ SetTid(t) \/ Release(t)
      PROVE  Seen(t)'
  <2>1. query' = query /\ seen' = seen /\ row_cnt' = row_cnt
    BY <1>8 DEF PreAbort, LockRow, LockBusy, Unlock, BackOff, Locked, ValidateRead, Commit,
                Install, SetTid, Release
  <2>2. pc[t] # "compute" /\ pc'[t] # "compute"
    BY <1>8 DEF VInv, TypeOK, PreAbort, LockRow, LockBusy, Unlock, BackOff, Locked,
                ValidateRead, Commit, Install, SetTid, Release
  <2>3. Got(t)' = Got(t)
    BY <2>1, <2>2 DEF Got
  <2> QED  BY <1>1, <2>1, <2>3
<1>9. CASE UNCHANGED vars
  <2>1. \A u \in Threads : query'[u] = query[u] /\ seen'[u] = seen[u] /\ Got(u)' = Got(u)
    BY <1>9 DEF vars, Got
  <2>2. \A u \in Threads : Seen(u)'
    BY <1>1, <2>1
  <2> QED  BY <2>2 DEF SeenInv, Seen
<1>10. ASSUME NEW t \in Threads, Step(t) PROVE SeenInv'
  <2>1. Seen(t)'
    BY <1>3, <1>4, <1>5, <1>6, <1>7, <1>8, <1>10 DEF Step
  <2>2. \A u \in Threads : Seen(u)'
    BY <1>2, <1>10, <2>1
  <2> QED  BY <2>2 DEF SeenInv, Seen
<1> QED  BY <1>9, <1>10 DEF Next, Terminated

----------------------------------------------------------------------------
(* The theorems about the history.                                         *)

LEMMA HistoryNext ==
    ASSUME WritesLocal, VInv, SeenInv, HInv, [Next]_vars
    PROVE  HInv'
<1>1. ASSUME NEW t \in Threads, Step(t) PROVE HInv'
  <2>1. CASE ~ InFlight(t) /\ ~ Locked(t)
    BY <1>1, <2>1, IdleNext
  <2>2. CASE Locked(t)
    BY <2>2, LockedNext
  <2>3. CASE ValidateRead(t)
    BY <2>3, CheckedNext, ForgottenNext
  <2>4. CASE Commit(t)
    BY <2>4, CommitNext
  <2>5. CASE Install(t) \/ SetTid(t) \/ Release(t)
    BY <2>5, InstallNext
  <2>6. CASE Finish(t)
    BY <2>6, FinishNext
  <2>7. InFlight(t) => \/ ValidateRead(t) \/ Commit(t) \/ Install(t)
                       \/ SetTid(t) \/ Release(t) \/ Finish(t)
    BY <1>1 DEF InFlight, Step, Fetch, ReadTid, Copy, Recheck, Compute, PreAbort, LockRow,
                LockBusy, Unlock, BackOff, Abort, Locked
  <2> QED  BY <2>1, <2>2, <2>3, <2>4, <2>5, <2>6, <2>7
<1>2. CASE UNCHANGED vars
  <2> USE DEF vars, txnVars, copyVars
  <2>1. Kept /\ data' = data /\ tid' = tid
    BY <1>2 DEF Kept, InFlight
  <2>2. OrderInv' /\ Serializable'
    BY <2>1, KeptOrder DEF HInv
  <2>3. \A u \in Threads : \A r : Installing(u, r)' <=> Installing(u, r)
    BY <1>2 DEF Installing
  <2>5. \A u \in Threads : AccessSet(u)' = AccessSet(u) /\ \A p : At(u, p)' <=> At(u, p)
    BY <1>2, <2>1, KeptFacts, Same
  <2>6. ASSUME NEW u \in Threads, NEW p \in 1..Len(order'), At(u, p)' PROVE Behind(u, p)'
    <3>1. Behind(u, p)
      BY <1>2, <2>5, <2>6 DEF HInv, BehindInv
    <3>2. \A r : Away(r, tids[u][r]) => Away(r, tids[u][r])'
      BY <1>2, <2>1, <2>3 DEF Away
    <3> QED  BY <1>2, <2>5, <3>1, <3>2 DEF Behind, NoImage, Image
  <2>7. BehindInv'
    BY <2>6 DEF BehindInv
  <2>8. ReadInv'
    BY <1>2, <2>1, ReadKept DEF HInv
  <2>9. DataInv'
    BY <1>2, <2>1, <2>3, DataKept DEF HInv
  <2> QED  BY <2>2, <2>7, <2>8, <2>9 DEF HInv
<1> QED  BY <1>1, <1>2 DEF Next, Terminated

LEMMA InitHistory == Init => SeenInv /\ HInv
<1> SUFFICES ASSUME Init PROVE SeenInv /\ HInv
  OBVIOUS
<1>1. order = << >> /\ Len(order) = 0 /\ order \in Seq(Entries)
  BY DEF Init
<1>2. \A t \in Threads : ~ InFlight(t) /\ Got(t) = {} /\ \A r : ~ Installing(t, r)
  BY DEF Init, InFlight, Installing, Got
<1>3. OrderInv /\ BehindInv /\ ReadInv /\ Serializable
  BY <1>1, <1>2 DEF OrderInv, BehindInv, ReadInv, Serializable, At
<1>4. \A r : ImageBefore(Len(order) + 1, r) = Image(InitVal)
  BY <1>1 DEF ImageBefore, Writers
<1>5. DataInv
  BY <1>2, <1>4 DEF Init, DataInv, Installed
<1>6. SeenInv
  BY <1>2 DEF Init, SeenInv, Seen, NoReads
<1> QED  BY <1>3, <1>5, <1>6 DEF HInv

\* The strengthened invariant behind serializability: what the transactions that
\* have all their locks have validated, and what the table is on the way to.
THEOREM HistoryInvariance == ASSUME WritesLocal PROVE Spec => []SInv
<1>1. Init => SInv
  BY InitVInv, InitHistory DEF SInv
<1>2. VInv /\ [Next]_vars => VInv'
  BY TypeNext, PhaseNext, LockNext, LockTidNext, CopyNext DEF VInv
<1>3. SInv /\ [Next]_vars => SInv'
  BY <1>2, SeenNext, HistoryNext DEF SInv
<1> QED  BY <1>1, <1>3, PTL DEF Spec

\* If the workload writes to its copies only, the committed transactions of the
\* SILO build are strictly serializable, for any number of threads, rows, words and
\* transactions: each read what it would if it ran alone at the moment it had all
\* its locks, although nothing is locked while it reads.
THEOREM SerializableTheorem == ASSUME WritesLocal PROVE Spec => []Serializable
<1>1. SInv => Serializable
  BY DEF SInv, HInv
<1> QED  BY <1>1, HistoryInvariance, PTL

\* Row_silo::write leaves nothing behind: a row that is not locked holds, word by
\* word, what the last committed transaction wrote.
THEOREM CommittedImagesTheorem == ASSUME WritesLocal PROVE Spec => []CommittedImages
<1>1. SInv => CommittedImages
  <2> SUFFICES ASSUME SInv, NEW r \in Rows, ~ locked[r]
               PROVE  data[r] = ImageBefore(Len(order) + 1, r)
    BY DEF CommittedImages
  <2>1. \A u \in Threads : ~ Installing(u, r)
    BY DEF SInv, VInv, LockBits, Installing
  <2> QED  BY <2>1 DEF SInv, HInv, DataInv, Installed
<1> QED  BY <1>1, HistoryInvariance, PTL

\* What Row_silo::access returns is one version of the row, even to a transaction
\* that aborts later.
THEOREM WholeCopiesTheorem == ASSUME WritesLocal PROVE Spec => []WholeCopies
<1>1. SInv => WholeCopies
  <2> SUFFICES ASSUME SInv, NEW t \in Threads, NEW i \in 1..row_cnt[t]
               PROVE  \E val \in Values : seen[t][query[t][i].row] = Image(val)
    BY DEF WholeCopies
  <2>1. query[t][i].row \in Got(t)
    <3>1. row_cnt[t] \in Nat
      BY DEF SInv, VInv, TypeOK
    <3>2. i \in 1..(IF pc[t] = "compute" THEN row_cnt[t] + 1 ELSE row_cnt[t])
      BY <3>1
    <3> QED  BY <3>2 DEF Got
  <2> QED  BY <2>1 DEF SInv, SeenInv, Seen
<1> QED  BY <1>1, HistoryInvariance, PTL
=============================================================================
