---------------------------- MODULE TicTocProofs ----------------------------
(* Why the TICTOC build never gives out a torn copy, and why what it        *)
(* commits is serializable as long as no lease is shortened and what may    *)
(* shorten one, for every number of threads, rows, words and transactions   *)
(* and every width of a lease.                                              *)
EXTENDS TicToc, OptimisticProofs

Labels == {"fetch", "read_word", "copy", "commit_time", "pre_abort", "lock", "back_off",
           "abort", "validate", "renew", "write", "install", "done"}
Images == [Words -> Values \cup {NoVal}]
Entries == [txn : 1..MaxTxn, ts : Nat, reads : [Rows -> Images], writes : SUBSET Rows]

TypeOK ==
    /\ wts \in [Rows -> Nat] /\ delta \in [Rows -> Nat]
    /\ locked \in [Rows -> BOOLEAN]
    /\ data \in [Rows -> Images]
    /\ pc \in [Threads -> Labels]
    /\ query \in [Threads -> Queries \cup {<< >>}]
    /\ row_cnt \in [Threads -> Nat]
    /\ seen \in [Threads -> [Rows -> Images]]
    /\ access_wts \in [Threads -> [Rows -> Nat]]
    /\ access_rts \in [Threads -> [Rows -> Nat]]
    /\ v \in [Threads -> [wts : Nat, delta : Nat]]
    /\ word \in [Threads -> 0..WordCnt]
    /\ commit_wts \in [Threads -> Nat]
    /\ locks \in [Threads -> SUBSET Rows]
    /\ checked \in [Threads -> Nat]
    /\ settings \in [pre_abort : BOOLEAN, no_wait : BOOLEAN]
    /\ id \in [Threads -> 0..MaxTxn] /\ started \in 0..MaxTxn
    /\ log \in Seq(Entries)

Idle(t) == pc[t] \in {"fetch", "done"}
Reads(t) == pc[t] \in {"read_word", "copy"}

\* How far a transaction is, by its place in the code.
Phase(t) ==
    /\ Idle(t) <=> query[t] = << >>
    /\ Idle(t) => row_cnt[t] = 0
    /\ ~ Idle(t) => id[t] # 0
    /\ Reads(t) => row_cnt[t] < Len(query[t])
    /\ ~ Idle(t) /\ ~ Reads(t) => row_cnt[t] = Len(query[t])
    /\ Idle(t) \/ Reads(t) \/ pc[t] \in {"commit_time", "pre_abort"} => locks[t] = {}
    /\ locks[t] \subseteq WriteSet(t)
    /\ pc[t] \in {"validate", "renew"} => locks[t] = WriteSet(t)
    /\ pc[t] = "renew" => /\ checked[t] < Len(query[t]) /\ NextCheck(t).type = "RD"
                          /\ v[t].wts = access_wts[t][NextCheck(t).row]
    /\ pc[t] \in {"pre_abort", "lock", "back_off", "validate", "renew"} =>
          \A r \in ReadSet(t) : access_wts[t][r] <= commit_wts[t]
    /\ pc[t] \in {"lock", "back_off", "commit_time"} \/ Reads(t) \/ Idle(t) => checked[t] = 0
    /\ pc[t] = "validate" => checked[t] <= Len(query[t])
    /\ pc[t] \notin {"copy", "install"} => word[t] = 0
    /\ pc[t] = "install" => locks[t] # {}

PhaseInv == \A t \in Threads : Phase(t)

\* A row is locked by one transaction, or by none.
LockInv ==
    /\ \A r \in Rows : locked[r] <=> \E t \in Threads : r \in locks[t]
    /\ \A t, u \in Threads : t # u => locks[t] \cap locks[u] = {}

\* t is writing the words of r, whose times it has set.
Installing(t, r) == pc[t] = "install" /\ r = NextRelease(t)

\* The rows a committed transaction has still to write.
ToInstall(t) ==
    CASE pc[t] = "write" -> locks[t]
      [] pc[t] = "install" -> locks[t] \ {NextRelease(t)}
      [] OTHER -> {}

\* Times under locks: none changes but by the transaction that installs.
LockTime(t) ==
    /\ pc[t] \in {"lock", "validate", "renew"} =>
          \A r \in locks[t] : wts[r] = access_wts[t][r]
    /\ pc[t] \in {"validate", "renew"} => \A r \in locks[t] : rts(r) < commit_wts[t]
    /\ \A r \in ToInstall(t) : rts(r) < commit_wts[t]
    /\ \A r \in Rows : Installing(t, r) => wts[r] = commit_wts[t] /\ delta[r] = 0

LockTimeInv == \A t \in Threads : LockTime(t)

\* The rows that t has copied and found unchanged after the copy.
Got(t) == {query[t][i].row : i \in 1..row_cnt[t]}

\* The first k words of img have been copied from r at time n of its version: they
\* are those of r, or r's time has grown.
Copied(r, n, img, k) ==
    /\ n <= wts[r]
    /\ \A u \in Threads : Installing(u, r) => n < wts[r]
    /\ n = wts[r] => \A w \in 1..k : img[w] = data[r][w]

HasCopies(t) ==
    /\ \A r \in Got(t) : Copied(r, access_wts[t][r], seen[t][r], WordCnt)
    /\ pc[t] = "copy" =>
          Copied(NextReq(t).row, v[t].wts, seen[t][NextReq(t).row], word[t])

CopyInv == \A t \in Threads : HasCopies(t)

\* A row that is not being written has one transaction's value in all its words.
WholeRows ==
    /\ \A r \in Rows : (\A u \in Threads : ~ Installing(u, r)) =>
          \E val \in Values : data[r] = Image(val)
    /\ \A u \in Threads : \A r \in Rows :
          Installing(u, r) => \A w \in 1..word[u] : data[r][w] = id[u]

CInv == TypeOK /\ PhaseInv /\ LockInv /\ LockTimeInv /\ CopyInv /\ WholeRows /\ WholeCopies

----------------------------------------------------------------------------
(* What the operators compute.                                             *)

LEMMA QueryFacts ==
    ASSUME NEW q \in Queries
    PROVE  /\ q \in Seq(Request) /\ Len(q) \in Nat \ {0} /\ DOMAIN q = 1..Len(q)
           /\ \A i \in 1..Len(q) : q[i].row \in Rows /\ q[i].type \in {"RD", "WR"}
           /\ \A i, j \in 1..Len(q) : q[i].row = q[j].row => i = j
           /\ \A type : RowsOf(q, type) \subseteq Rows
<1>1. /\ q \in Seq(Request) /\ Len(q) \in Nat \ {0} /\ DOMAIN q = 1..Len(q)
      /\ \A i, j \in 1..Len(q) : q[i].row = q[j].row => i = j
  BY QueriesAssumption
<1>2. \A i \in 1..Len(q) : q[i] \in Request
  BY <1>1
<1>3. \A i \in 1..Len(q) : q[i].row \in Rows /\ q[i].type \in {"RD", "WR"}
  BY <1>2 DEF Request
<1> QED  BY <1>1, <1>3 DEF RowsOf

\* A transaction that runs has a real query, whose rows are those it reads and
\* those it writes.
LEMMA Running ==
    ASSUME TypeOK, PhaseInv, NEW t \in Threads, ~ Idle(t)
    PROVE  /\ query[t] \in Queries
           /\ Len(query[t]) \in Nat \ {0} /\ row_cnt[t] \in 0..Len(query[t])
           /\ WriteSet(t) \subseteq Rows /\ ReadSet(t) \subseteq Rows
           /\ id[t] \in 1..MaxTxn
           /\ \A i \in 1..Len(query[t]) :
                 query[t][i].row \in Rows /\ query[t][i].type \in {"RD", "WR"}
           /\ Reads(t) => /\ row_cnt[t] + 1 \in 1..Len(query[t]) /\ NextReq(t).row \in Rows
                          /\ NextReq(t) = query[t][row_cnt[t] + 1]
<1>1. query[t] \in Queries
  BY DEF TypeOK, PhaseInv, Phase
<1>2. Len(query[t]) \in Nat \ {0} /\ row_cnt[t] \in Nat
  BY <1>1, QueryFacts DEF TypeOK
<1>3. row_cnt[t] \in 0..Len(query[t])
  <2>1. row_cnt[t] < Len(query[t]) \/ row_cnt[t] = Len(query[t])
    BY DEF PhaseInv, Phase
  <2> QED  BY <1>2, <2>1
<1>4. ASSUME Reads(t) PROVE row_cnt[t] + 1 \in 1..Len(query[t])
  BY <1>2, <1>4 DEF PhaseInv, Phase
<1>5. id[t] \in 1..MaxTxn
  BY BoundsAssumption DEF TypeOK, PhaseInv, Phase
<1>6. WriteSet(t) \subseteq Rows /\ ReadSet(t) \subseteq Rows
  BY <1>1, QueryFacts DEF WriteSet, ReadSet
<1>7. \A i \in 1..Len(query[t]) :
         query[t][i].row \in Rows /\ query[t][i].type \in {"RD", "WR"}
  BY <1>1, QueryFacts
<1> QED  BY <1>1, <1>2, <1>3, <1>4, <1>5, <1>6, <1>7 DEF NextReq

LEMMA Members ==
    ASSUME NEW t, query[t] \in Queries
    PROVE  /\ \A i \in 1..Len(query[t]) :
                 /\ query[t][i].type = "RD" => query[t][i].row \in ReadSet(t)
                 /\ query[t][i].type = "WR" => query[t][i].row \in WriteSet(t)
           /\ \A r \in ReadSet(t) : \E i \in 1..Len(query[t]) :
                 query[t][i].row = r /\ query[t][i].type = "RD"
           /\ \A r \in WriteSet(t) : \E i \in 1..Len(query[t]) :
                 query[t][i].row = r /\ query[t][i].type = "WR"
BY QueryFacts DEF ReadSet, WriteSet, RowsOf

\* The row that a transaction locks next, and the row it writes or gives back.
LEMMA NextLockFacts ==
    ASSUME TypeOK, PhaseInv, NEW t \in Threads, pc[t] = "lock", locks[t] # WriteSet(t)
    PROVE  NextLock(t) \in WriteSet(t) \ locks[t] /\ NextLock(t) \in Rows
<1>1. WriteSet(t) \subseteq Rows /\ locks[t] \subseteq WriteSet(t)
  BY Running DEF PhaseInv, Phase, Idle
<1> DEFINE M == WriteSet(t) \ locks[t]
<1>2. M \in SUBSET Nat /\ M # {}
  BY <1>1, RowsAssumption
<1>3. Lowest(M) \in M
  <2> HIDE DEF M
  <2> QED  BY <1>2, LowestIsLeast
<1> QED  BY <1>1, <1>3 DEF NextLock

LEMMA NextReleaseFacts ==
    ASSUME TypeOK, NEW t \in Threads, locks[t] # {}
    PROVE  NextRelease(t) \in locks[t] /\ NextRelease(t) \in Rows
<1>1. locks[t] \in SUBSET Nat /\ locks[t] \subseteq Rows
  BY RowsAssumption DEF TypeOK
<1> QED  BY <1>1, LowestIsLeast DEF NextRelease

LEMMA Same ==
    ASSUME NEW t, query'[t] = query[t]
    PROVE  WriteSet(t)' = WriteSet(t) /\ ReadSet(t)' = ReadSet(t)
BY DEF WriteSet, ReadSet, RowsOf

LEMMA ImageFacts ==
    /\ \A val \in Values \cup {NoVal} : Image(val) \in Images
    /\ \A val : \A w \in 1..WordCnt : Image(val)[w] = val
    /\ NoReads \in [Rows -> Images] /\ NoImage \in Images
    /\ 1..MaxTxn \subseteq Values /\ Words = 1..WordCnt /\ 0 \in 0..WordCnt
BY BoundsAssumption DEF Image, Images, NoReads, NoImage, Words, Values

LEMMA RtsFacts ==
    ASSUME TypeOK, NEW r \in Rows
    PROVE  wts[r] \in Nat /\ delta[r] \in Nat /\ rts(r) \in Nat /\ wts[r] <= rts(r)
           /\ rts(r) = wts[r] + delta[r]
BY DEF TypeOK, rts

LEMMA RowsBounded ==
    ASSUME NEW g \in [Rows -> Nat]
    PROVE  \E n \in Nat : \A r \in Rows : g[r] <= n
<1>1. CASE Rows = {}
  <2>1. 0 \in Nat /\ \A r \in Rows : g[r] <= 0
    BY <1>1
  <2> QED  BY <2>1
<1>2. CASE Rows # {}
  <2>1. PICK w \in Rows : \A x \in Rows : g[x] <= g[w]
    BY <1>2, GreatestAmongRows
  <2> QED  BY <2>1
<1> QED  BY <1>1, <1>2

LEMMA MaxOfFacts ==
    ASSUME NEW S \in SUBSET Nat, S # {}, NEW n \in Nat, \A x \in S : x <= n
    PROVE  MaxOf(S) \in S /\ \A k \in S : k <= MaxOf(S)
BY NatGreatest DEF MaxOf

\* validate_tictoc's first commit time.
CommitTimes(t) == {access_wts[t][r] : r \in ReadSet(t)}
                      \cup {access_rts[t][r] + 1 : r \in WriteSet(t)}

LEMMA CommitTimeFacts ==
    ASSUME TypeOK, PhaseInv, NEW t \in Threads, ~ Idle(t)
    PROVE  /\ MaxOf(CommitTimes(t)) \in Nat
           /\ \A r \in ReadSet(t) : access_wts[t][r] <= MaxOf(CommitTimes(t))
<1>1. access_wts[t] \in [Rows -> Nat] /\ access_rts[t] \in [Rows -> Nat]
  BY DEF TypeOK
<1>2. /\ query[t] \in Queries /\ 1 \in 1..Len(query[t])
      /\ WriteSet(t) \subseteq Rows /\ ReadSet(t) \subseteq Rows
      /\ query[t][1].type \in {"RD", "WR"}
  BY Running
<1>3. PICK m \in Nat : \A r \in Rows : access_wts[t][r] <= m
  BY <1>1, RowsBounded
<1>4. PICK n \in Nat : \A r \in Rows : access_rts[t][r] <= n
  BY <1>1, RowsBounded
<1> DEFINE S == CommitTimes(t)
<1>5. S \in SUBSET Nat
  BY <1>1, <1>2 DEF CommitTimes
<1>6. S # {}
  <2>1. query[t][1].row \in ReadSet(t) \/ query[t][1].row \in WriteSet(t)
    BY <1>2, Members
  <2> QED  BY <2>1 DEF CommitTimes
<1>7. m + n + 1 \in Nat /\ \A x \in S : x <= m + n + 1
  <2>1. \A r \in ReadSet(t) : access_wts[t][r] <= m + n + 1
    BY <1>1, <1>2, <1>3
  <2>2. \A r \in WriteSet(t) : access_rts[t][r] + 1 <= m + n + 1
    BY <1>1, <1>2, <1>4
  <2> QED  BY <2>1, <2>2 DEF CommitTimes
<1> HIDE DEF S
<1>8. MaxOf(S) \in S /\ \A k \in S : k <= MaxOf(S)
  BY <1>5, <1>6, <1>7, MaxOfFacts
<1>9. \A r \in ReadSet(t) : access_wts[t][r] \in S
  BY DEF S, CommitTimes
<1> QED  BY <1>5, <1>8, <1>9 DEF S

\* The commit time under the locks.
LEMMA LeaseEndFacts ==
    ASSUME TypeOK, PhaseInv, NEW t \in Threads, ~ Idle(t)
    PROVE  /\ LeaseEnd(t) \in Nat /\ commit_wts[t] <= LeaseEnd(t)
           /\ \A r \in WriteSet(t) : rts(r) < LeaseEnd(t)
<1> DEFINE S == {commit_wts[t]} \cup {rts(r) + 1 : r \in WriteSet(t)}
           g == [r \in Rows |-> rts(r)]
<1>1. commit_wts[t] \in Nat /\ WriteSet(t) \subseteq Rows /\ \A r \in Rows : rts(r) \in Nat
  BY Running, RtsFacts DEF TypeOK
<1>2. g \in [Rows -> Nat]
  BY <1>1
<1>3. PICK n \in Nat : \A r \in Rows : rts(r) <= n
  <2> HIDE DEF g
  <2>1. PICK n \in Nat : \A r \in Rows : g[r] <= n
    BY <1>2, RowsBounded
  <2> QED  BY <2>1 DEF g
<1>4. S \in SUBSET Nat /\ S # {}
  BY <1>1
<1>5. commit_wts[t] + n + 1 \in Nat /\ \A x \in S : x <= commit_wts[t] + n + 1
  <2>1. \A r \in WriteSet(t) : rts(r) + 1 <= commit_wts[t] + n + 1
    BY <1>1, <1>3
  <2>2. commit_wts[t] <= commit_wts[t] + n + 1
    BY <1>1
  <2> QED  BY <1>1, <2>1, <2>2
<1>6. LeaseEnd(t) = MaxOf(S)
  BY DEF LeaseEnd
<1> HIDE DEF S
<1>7. LeaseEnd(t) \in S /\ \A k \in S : k <= LeaseEnd(t)
  BY <1>4, <1>5, <1>6, MaxOfFacts
<1>8. commit_wts[t] \in S /\ \A r \in WriteSet(t) : rts(r) + 1 \in S
  BY DEF S
<1>9. LeaseEnd(t) \in Nat /\ \A r \in WriteSet(t) : rts(r) \in Nat /\ rts(r) + 1 <= LeaseEnd(t)
  BY <1>1, <1>4, <1>7, <1>8
<1> QED  BY <1>7, <1>8, <1>9

\* The word try_renew swaps in: its lease ends at the commit time, its time does
\* not go back, and stays if the lease is not too long for its field.
LEMMA NewWordFacts ==
    ASSUME NEW t, NEW r, access_wts[t][r] \in Nat, commit_wts[t] \in Nat,
           access_wts[t][r] <= commit_wts[t]
    PROVE  /\ NewDelta(t, r) \in Nat
           /\ NewWord(t, r).wts \in Nat /\ NewWord(t, r).delta \in Nat
           /\ access_wts[t][r] <= NewWord(t, r).wts
           /\ NewWord(t, r).wts + NewWord(t, r).delta = commit_wts[t]
           /\ ~ Rebase(t, r) => NewWord(t, r).wts = access_wts[t][r]
<1> DEFINE d == NewDelta(t, r)
           m == 2^RtsLen
<1>1. d \in Nat /\ d = commit_wts[t] - access_wts[t][r]
  BY DEF NewDelta
<1>2. m \in Nat /\ m > 0
  <2>1. 2^RtsLen \in Int
    BY SettingsAssumption
  <2> QED  BY <2>1, SettingsAssumption
<1>3. NewWord(t, r).wts = access_wts[t][r] + d - (d % m) /\ NewWord(t, r).delta = d % m
  BY DEF NewWord
<1>4. ~ Rebase(t, r) => d < m
  BY <1>1, <1>2 DEF Rebase
<1> HIDE DEF d, m
<1>5. d % m \in Nat /\ d % m <= d /\ (d < m => d % m = d)
  BY <1>1, <1>2
<1> QED  BY <1>1, <1>3, <1>4, <1>5 DEF d
----------------------------------------------------------------------------
(* Types and places.                                                       *)

\* What a transaction's step leaves alone.
LEMMA Frame ==
    ASSUME TypeOK, NEW t \in Threads, Step(t), NEW u \in Threads, u # t
    PROVE  /\ pc'[u] = pc[u] /\ query'[u] = query[u] /\ row_cnt'[u] = row_cnt[u]
           /\ seen'[u] = seen[u] /\ access_wts'[u] = access_wts[u]
           /\ access_rts'[u] = access_rts[u] /\ v'[u] = v[u] /\ word'[u] = word[u]
           /\ commit_wts'[u] = commit_wts[u] /\ locks'[u] = locks[u]
           /\ checked'[u] = checked[u] /\ id'[u] = id[u]
<1> USE DEF TypeOK, rowVars, txnVars, histVars, Goto
<1>1. CASE Fetch(t)
  BY <1>1 DEF Fetch
<1>2. CASE Stop(t)
  BY <1>2 DEF Stop
<1>3. CASE ReadWord(t)
  BY <1>3 DEF ReadWord
<1>4. CASE Copy(t)
  BY <1>4 DEF Copy
<1>5. CASE Recheck(t)
  BY <1>5 DEF Recheck
<1>6. CASE CommitTime(t)
  BY <1>6 DEF CommitTime
<1>7. CASE PreAbort(t)
  BY <1>7 DEF PreAbort
<1>8. CASE LockRow(t)
  BY <1>8 DEF LockRow
<1>9. CASE LockBusy(t)
  BY <1>9 DEF LockBusy
<1>10. CASE Unlock(t)
  BY <1>10 DEF Unlock
<1>11. CASE BackOff(t)
  BY <1>11 DEF BackOff
<1>12. CASE Locked(t)
  BY <1>12 DEF Locked
<1>13. CASE Validate(t)
  <2>1. /\ pc \in [Threads -> Labels] /\ v \in [Threads -> [wts : Nat, delta : Nat]]
        /\ checked \in [Threads -> Nat]
    OBVIOUS
  <2> HIDE DEF TypeOK
  <2>2. pc'[u] = pc[u] /\ checked'[u] = checked[u] /\ v'[u] = v[u]
    BY <1>13, <2>1 DEF Validate, Passed, Failed
  <2> QED  BY <1>13, <2>2 DEF Validate
<1>14. CASE Renew(t)
  BY <1>14 DEF Renew, Passed, Failed
<1>15. CASE Commit(t)
  BY <1>15 DEF Commit
<1>16. CASE SetWts(t)
  BY <1>16 DEF SetWts
<1>17. CASE Install(t)
  BY <1>17 DEF Install
<1>18. CASE Release(t)
  BY <1>18 DEF Release
<1>19. CASE Finish(t)
  BY <1>19 DEF Finish
<1> QED  BY <1>1, <1>2, <1>3, <1>4, <1>5, <1>6, <1>7, <1>8, <1>9, <1>10, <1>11, <1>12, <1>13, <1>14, <1>15, <1>16, <1>17, <1>18, <1>19 DEF Step

LEMMA TypeNext == TypeOK /\ PhaseInv /\ [Next]_vars => TypeOK'
<1> SUFFICES ASSUME TypeOK, PhaseInv, [Next]_vars PROVE TypeOK'
  OBVIOUS
<1> USE DEF rowVars, txnVars, histVars, Goto, Labels
<1>1. ASSUME NEW t \in Threads, Fetch(t) PROVE TypeOK'
  <2>1. started' \in 1..MaxTxn
    BY <1>1, BoundsAssumption DEF Fetch, TypeOK
  <2>2. id' \in [Threads -> 0..MaxTxn] /\ started' \in 0..MaxTxn
    BY <1>1, <2>1 DEF Fetch, TypeOK
  <2>3. query' \in [Threads -> Queries \cup {<< >>}] /\ pc' \in [Threads -> Labels]
    <3>1. PICK q \in Queries : query' = [query EXCEPT ![t] = q]
      BY <1>1 DEF Fetch
    <3>2. pc' = [pc EXCEPT ![t] = "read_word"]
      BY <1>1 DEF Fetch
    <3>3. query' \in [Threads -> Queries \cup {<< >>}]
      BY <3>1 DEF TypeOK
    <3> QED  BY <3>2, <3>3 DEF TypeOK
  <2> QED  BY <1>1, <2>2, <2>3 DEF TypeOK, Fetch
<1>2. ASSUME NEW t \in Threads, Stop(t) PROVE TypeOK'
  BY <1>2 DEF TypeOK, Stop
<1>3. ASSUME NEW t \in Threads, ReadWord(t) PROVE TypeOK'
  <2>1. NextReq(t).row \in Rows
    BY <1>3, Running DEF ReadWord, Idle, Reads
  <2>2. Word(NextReq(t).row) \in [wts : Nat, delta : Nat]
    BY <2>1 DEF Word, TypeOK
  <2> QED  BY <1>3, <2>2 DEF TypeOK, ReadWord
<1>4. ASSUME NEW t \in Threads, Copy(t) PROVE TypeOK'
  <2>1. PICK r \in Rows : r = NextReq(t).row
    BY <1>4, Running DEF Copy, Idle, Reads
  <2>2. PICK w \in Words : w = word[t] + 1
    <3>1. word[t] \in 0..WordCnt /\ WordCnt \in Nat
      BY BoundsAssumption DEF TypeOK
    <3>2. word[t] < WordCnt
      BY <1>4 DEF Copy
    <3> QED  BY <3>1, <3>2 DEF Words
  <2>3. seen' = [seen EXCEPT ![t][r][w] = data[r][w]] /\ word' = [word EXCEPT ![t] = w]
    BY <1>4, <2>1, <2>2 DEF Copy
  <2>4. data[r][w] \in Values \cup {NoVal} /\ w \in 0..WordCnt
    <3>1. data[r] \in Images /\ w \in 1..WordCnt
      BY DEF TypeOK, Words
    <3> QED  BY <3>1, BoundsAssumption DEF Images
  <2>5. word' \in [Threads -> 0..WordCnt]
    BY <2>3, <2>4 DEF TypeOK
  <2>6. seen' \in [Threads -> [Rows -> Images]]
    <3>1. [seen[t][r] EXCEPT ![w] = data[r][w]] \in Images
      BY <2>4 DEF TypeOK, Images
    <3>2. seen' = [seen EXCEPT ![t] = [seen[t] EXCEPT ![r] = [seen[t][r] EXCEPT ![w] = data[r][w]]]]
      BY <2>3
    <3> QED  BY <3>1, <3>2 DEF TypeOK
  <2> QED  BY <1>4, <2>5, <2>6 DEF TypeOK, Copy
<1>5. ASSUME NEW t \in Threads, Recheck(t) PROVE TypeOK'
  <2>1. PICK r \in Rows : r = NextReq(t).row
    BY <1>5, Running DEF Recheck, Idle, Reads
  <2>2. /\ \/ access_wts' = [access_wts EXCEPT ![t] = [access_wts[t] EXCEPT ![r] = v[t].wts]]
           \/ access_wts' = access_wts
        /\ \/ access_rts' = [access_rts EXCEPT ![t] =
                               [access_rts[t] EXCEPT ![r] = v[t].wts + v[t].delta]]
           \/ access_rts' = access_rts
        /\ row_cnt' = [row_cnt EXCEPT ![t] = @ + 1] \/ row_cnt' = row_cnt
        /\ pc' = [pc EXCEPT ![t] = "commit_time"] \/ pc' = [pc EXCEPT ![t] = "read_word"]
        /\ word' = [word EXCEPT ![t] = 0] /\ v' = [v EXCEPT ![t] = NoWord]
    BY <1>5, <2>1 DEF Recheck
  <2>3. v[t].wts \in Nat /\ v[t].wts + v[t].delta \in Nat
    <3>1. v[t] \in [wts : Nat, delta : Nat]
      BY DEF TypeOK
    <3> QED  BY <3>1
  <2>4. access_wts' \in [Threads -> [Rows -> Nat]]
    <3>1. access_wts \in [Threads -> [Rows -> Nat]]
      BY DEF TypeOK
    <3>2. [access_wts[t] EXCEPT ![r] = v[t].wts] \in [Rows -> Nat]
      BY <2>3, <3>1
    <3> QED  BY <2>2, <3>1, <3>2
  <2>5. access_rts' \in [Threads -> [Rows -> Nat]]
    <3>1. access_rts \in [Threads -> [Rows -> Nat]]
      BY DEF TypeOK
    <3>2. [access_rts[t] EXCEPT ![r] = v[t].wts + v[t].delta] \in [Rows -> Nat]
      BY <2>3, <3>1
    <3> QED  BY <2>2, <3>1, <3>2
  <2>6. row_cnt' \in [Threads -> Nat]
    <3>1. row_cnt \in [Threads -> Nat]
      BY DEF TypeOK
    <3> QED  BY <2>2, <3>1
  <2>7. pc' \in [Threads -> Labels]
    BY <2>2 DEF TypeOK
  <2>8. word' \in [Threads -> 0..WordCnt] /\ v' \in [Threads -> [wts : Nat, delta : Nat]]
    BY <2>2, ImageFacts DEF TypeOK, NoWord
  <2> QED  BY <1>5, <2>4, <2>5, <2>6, <2>7, <2>8 DEF TypeOK, Recheck
<1>6. ASSUME NEW t \in Threads, CommitTime(t) PROVE TypeOK'
  <2>1. MaxOf(CommitTimes(t)) \in Nat
    BY <1>6, CommitTimeFacts DEF CommitTime, Idle
  <2>2. /\ commit_wts' = [commit_wts EXCEPT ![t] = MaxOf(CommitTimes(t))]
        /\ pc' = [pc EXCEPT ![t] = "pre_abort"] \/ pc' = [pc EXCEPT ![t] = "lock"]
    BY <1>6 DEF CommitTime, CommitTimes
  <2>3. commit_wts' \in [Threads -> Nat] /\ pc' \in [Threads -> Labels]
    BY <2>1, <2>2 DEF TypeOK
  <2> QED  BY <1>6, <2>3 DEF TypeOK, CommitTime
<1>7. ASSUME NEW t \in Threads, PreAbort(t) PROVE TypeOK'
  <2>1. /\ \/ checked' = [checked EXCEPT ![t] = 0]
           \/ checked' = [checked EXCEPT ![t] = @ + 1]
        /\ pc' = pc \/ pc' = [pc EXCEPT ![t] = "lock"] \/ pc' = [pc EXCEPT ![t] = "abort"]
    BY <1>7 DEF PreAbort
  <2>2. checked' \in [Threads -> Nat]
    <3>1. checked \in [Threads -> Nat]
      BY DEF TypeOK
    <3> QED  BY <2>1, <3>1
  <2>3. pc' \in [Threads -> Labels]
    BY <2>1 DEF TypeOK
  <2> QED  BY <1>7, <2>2, <2>3 DEF TypeOK, PreAbort
<1>8. ASSUME NEW t \in Threads, LockRow(t) PROVE TypeOK'
  <2>1. PICK r \in Rows : r = NextLock(t)
    BY <1>8, NextLockFacts DEF LockRow
  <2>2. /\ locked' = [locked EXCEPT ![r] = TRUE]
        /\ locks' = [locks EXCEPT ![t] = locks[t] \cup {r}]
        /\ pc' = pc \/ pc' = [pc EXCEPT ![t] = "abort"]
    BY <1>8, <2>1 DEF LockRow, TypeOK
  <2>3. pc' \in [Threads -> Labels] /\ locked' \in [Rows -> BOOLEAN]
    BY <2>2 DEF TypeOK
  <2>4. locks' \in [Threads -> SUBSET Rows]
    <3>1. locks \in [Threads -> SUBSET Rows] /\ locks[t] \cup {r} \in SUBSET Rows
      BY DEF TypeOK
    <3> QED  BY <2>2, <3>1
  <2> QED  BY <1>8, <2>3, <2>4 DEF TypeOK, LockRow
<1>9. ASSUME NEW t \in Threads, LockBusy(t) PROVE TypeOK'
  BY <1>9 DEF TypeOK, LockBusy
<1>10. ASSUME NEW t \in Threads, Unlock(t) PROVE TypeOK'
  <2>1. /\ locked' = [locked EXCEPT ![NextRelease(t)] = FALSE]
        /\ locks' = [locks EXCEPT ![t] = locks[t] \ {NextRelease(t)}]
    BY <1>10 DEF Unlock, TypeOK
  <2>2. locked' \in [Rows -> BOOLEAN] /\ locks' \in [Threads -> SUBSET Rows]
    BY <2>1 DEF TypeOK
  <2> QED  BY <1>10, <2>2 DEF TypeOK, Unlock
<1>11. ASSUME NEW t \in Threads, BackOff(t) PROVE TypeOK'
  BY <1>11 DEF TypeOK, BackOff
<1>12. ASSUME NEW t \in Threads, Locked(t) PROVE TypeOK'
  <2>1. LeaseEnd(t) \in Nat
    BY <1>12, LeaseEndFacts DEF Locked, Idle
  <2>2. commit_wts' \in [Threads -> Nat] /\ pc' \in [Threads -> Labels]
    BY <1>12, <2>1 DEF TypeOK, Locked
  <2> QED  BY <1>12, <2>2 DEF TypeOK, Locked
<1>13. ASSUME NEW t \in Threads, Validate(t) PROVE TypeOK'
  <2>1. checked[t] < Len(query[t]) /\ pc[t] = "validate" /\ ~ Idle(t)
    BY <1>13 DEF Validate, Idle
  <2>2. NextCheck(t).row \in Rows
    <3>1. checked[t] + 1 \in 1..Len(query[t])
      BY <2>1, Running DEF TypeOK
    <3> QED  BY <2>1, <3>1, Running DEF NextCheck
  <2>3. Word(NextCheck(t).row) \in [wts : Nat, delta : Nat] /\ NoWord \in [wts : Nat, delta : Nat]
    BY <2>2 DEF Word, NoWord, TypeOK
  <2>4. /\ \/ checked' = [checked EXCEPT ![t] = @ + 1]
           \/ checked' = [checked EXCEPT ![t] = 0] \/ checked' = checked
        /\ \/ pc' = [pc EXCEPT ![t] = "validate"] \/ pc' = [pc EXCEPT ![t] = "abort"]
           \/ pc' = [pc EXCEPT ![t] = "renew"]
        /\ v' = [v EXCEPT ![t] = NoWord] \/ v' = [v EXCEPT ![t] = Word(NextCheck(t).row)]
    BY <1>13 DEF Validate, Passed, Failed
  <2>5. checked' \in [Threads -> Nat]
    <3>1. checked \in [Threads -> Nat]
      BY DEF TypeOK
    <3> QED  BY <2>4, <3>1
  <2>6. pc' \in [Threads -> Labels]
    BY <2>4 DEF TypeOK
  <2>7. v' \in [Threads -> [wts : Nat, delta : Nat]]
    <3>1. v \in [Threads -> [wts : Nat, delta : Nat]]
      BY DEF TypeOK
    <3> QED  BY <2>3, <2>4, <3>1
  <2> QED  BY <1>13, <2>5, <2>6, <2>7 DEF TypeOK, Validate
<1>14. ASSUME NEW t \in Threads, Renew(t) PROVE TypeOK'
  <2>1. checked[t] < Len(query[t]) /\ pc[t] = "renew" /\ ~ Idle(t)
    BY <1>14 DEF Renew, Idle, PhaseInv, Phase
  <2>2. PICK r \in Rows : r = NextCheck(t).row
    <3>1. checked[t] + 1 \in 1..Len(query[t])
      BY <2>1, Running DEF TypeOK
    <3> QED  BY <2>1, <3>1, Running DEF NextCheck
  <2>3. Word(r) \in [wts : Nat, delta : Nat] /\ NoWord \in [wts : Nat, delta : Nat]
    BY DEF Word, NoWord, TypeOK
  <2>4. /\ \/ checked' = [checked EXCEPT ![t] = @ + 1]
           \/ checked' = [checked EXCEPT ![t] = 0] \/ checked' = checked
        /\ \/ pc' = [pc EXCEPT ![t] = "validate"] \/ pc' = [pc EXCEPT ![t] = "abort"]
           \/ pc' = pc
        /\ v' = [v EXCEPT ![t] = NoWord] \/ v' = [v EXCEPT ![t] = Word(r)]
        /\ \/ /\ wts' = [wts EXCEPT ![r] = NewWord(t, r).wts]
              /\ delta' = [delta EXCEPT ![r] = NewWord(t, r).delta]
           \/ wts' = wts /\ delta' = delta
    BY <1>14, <2>2 DEF Renew, Passed, Failed
  <2>5. checked' \in [Threads -> Nat]
    <3>1. checked \in [Threads -> Nat]
      BY DEF TypeOK
    <3> QED  BY <2>4, <3>1
  <2>6. pc' \in [Threads -> Labels]
    BY <2>4 DEF TypeOK
  <2>7. v' \in [Threads -> [wts : Nat, delta : Nat]]
    <3>1. v \in [Threads -> [wts : Nat, delta : Nat]]
      BY DEF TypeOK
    <3> QED  BY <2>3, <2>4, <3>1
  <2>8. wts' \in [Rows -> Nat] /\ delta' \in [Rows -> Nat]
    <3>1. access_wts[t][r] \in Nat /\ commit_wts[t] \in Nat
      BY DEF TypeOK
    <3>2. access_wts[t][r] <= commit_wts[t]
      <4>1. query[t] \in Queries /\ checked[t] + 1 \in 1..Len(query[t])
        <5>1. query[t] \in Queries /\ Len(query[t]) \in Nat /\ checked[t] \in Nat
          BY <2>1, Running DEF TypeOK
        <5> QED  BY <5>1, <2>1
      <4>2. r \in ReadSet(t)
        BY <4>1, <2>1, <2>2, Members DEF NextCheck, PhaseInv, Phase
      <4> QED  BY <4>2, <2>1 DEF PhaseInv, Phase
    <3>3. NewWord(t, r).wts \in Nat /\ NewWord(t, r).delta \in Nat
      BY <3>1, <3>2, NewWordFacts
    <3> QED  BY <2>4, <3>3 DEF TypeOK
  <2> QED  BY <1>14, <2>5, <2>6, <2>7, <2>8 DEF TypeOK, Renew
<1>15. ASSUME NEW t \in Threads, Commit(t) PROVE TypeOK'
  <2>1. /\ id[t] \in 1..MaxTxn /\ commit_wts[t] \in Nat /\ seen[t] \in [Rows -> Images]
        /\ WriteSet(t) \in SUBSET Rows
    BY <1>15, Running DEF Commit, Idle, TypeOK
  <2>2. [txn |-> id[t], ts |-> commit_wts[t], reads |-> seen[t], writes |-> WriteSet(t)]
           \in Entries
    BY <2>1 DEF Entries
  <2>3. log' \in Seq(Entries)
    BY <1>15, <2>2 DEF Commit, TypeOK
  <2>4. pc' \in [Threads -> Labels]
    BY <1>15 DEF Commit, TypeOK
  <2> QED  BY <1>15, <2>3, <2>4 DEF TypeOK, Commit
<1>16. ASSUME NEW t \in Threads, SetWts(t) PROVE TypeOK'
  <2>1. wts' \in [Rows -> Nat] /\ delta' \in [Rows -> Nat]
    BY <1>16 DEF SetWts, TypeOK
  <2>2. pc' \in [Threads -> Labels]
    BY <1>16 DEF SetWts, TypeOK
  <2> QED  BY <1>16, <2>1, <2>2 DEF TypeOK, SetWts
<1>17. ASSUME NEW t \in Threads, Install(t) PROVE TypeOK'
  <2>1. PICK r \in Rows : r = NextRelease(t)
    BY <1>17, NextReleaseFacts DEF Install, PhaseInv, Phase
  <2>2. PICK w \in Words : w = word[t] + 1
    BY <1>17, BoundsAssumption DEF Install, TypeOK, Words
  <2>3. /\ data' = [data EXCEPT ![r] = [data[r] EXCEPT ![w] = id[t]]]
        /\ word' = [word EXCEPT ![t] = w]
    BY <1>17, <2>1, <2>2 DEF Install, TypeOK
  <2>4. id[t] \in Values /\ w \in 0..WordCnt
    <3>1. id[t] \in 1..MaxTxn
      BY <1>17, Running DEF Install, Idle
    <3>2. w \in 1..WordCnt
      BY DEF Words
    <3> QED  BY <3>1, <3>2, ImageFacts, BoundsAssumption
  <2>5. data' \in [Rows -> Images]
    <3>1. [data[r] EXCEPT ![w] = id[t]] \in Images
      BY <2>4 DEF TypeOK, Images
    <3> QED  BY <2>3, <3>1 DEF TypeOK
  <2>6. word' \in [Threads -> 0..WordCnt]
    BY <2>3, <2>4 DEF TypeOK
  <2> QED  BY <1>17, <2>5, <2>6 DEF TypeOK, Install
<1>18. ASSUME NEW t \in Threads, Release(t) PROVE TypeOK'
  <2>1. /\ locked' = [locked EXCEPT ![NextRelease(t)] = FALSE]
        /\ locks' = [locks EXCEPT ![t] = locks[t] \ {NextRelease(t)}]
        /\ word' = [word EXCEPT ![t] = 0] /\ pc' = [pc EXCEPT ![t] = "write"]
    BY <1>18 DEF Release, TypeOK
  <2>2. locked' \in [Rows -> BOOLEAN] /\ locks' \in [Threads -> SUBSET Rows]
    BY <2>1 DEF TypeOK
  <2>3. word' \in [Threads -> 0..WordCnt] /\ pc' \in [Threads -> Labels]
    BY <2>1, ImageFacts DEF TypeOK
  <2> QED  BY <1>18, <2>2, <2>3 DEF TypeOK, Release
<1>19. ASSUME NEW t \in Threads, Finish(t) PROVE TypeOK'
  <2>1. pc' \in [Threads -> Labels] /\ query' \in [Threads -> Queries \cup {<< >>}]
    BY <1>19 DEF TypeOK, Finish
  <2>2. [r \in Rows |-> 0] \in [Rows -> Nat] /\ NoReads \in [Rows -> Images]
    BY ImageFacts
  <2>3. /\ seen' \in [Threads -> [Rows -> Images]]
        /\ access_wts' \in [Threads -> [Rows -> Nat]]
        /\ access_rts' \in [Threads -> [Rows -> Nat]]
    BY <1>19, <2>2 DEF TypeOK, Finish
  <2>4. /\ row_cnt' \in [Threads -> Nat] /\ commit_wts' \in [Threads -> Nat]
        /\ checked' \in [Threads -> Nat]
    BY <1>19 DEF TypeOK, Finish
  <2>5. id' \in [Threads -> 0..MaxTxn]
    <3>1. 0 \in 0..MaxTxn
      BY BoundsAssumption
    <3> QED  BY <1>19, <3>1 DEF TypeOK, Finish
  <2> QED  BY <1>19, <2>1, <2>3, <2>4, <2>5 DEF TypeOK, Finish
<1>20. CASE UNCHANGED vars
  BY <1>20 DEF TypeOK, vars
<1> QED  BY <1>1, <1>2, <1>3, <1>4, <1>5, <1>6, <1>7, <1>8, <1>9, <1>10, <1>11, <1>12, <1>13, <1>14, <1>15, <1>16, <1>17, <1>18, <1>19, <1>20 DEF Next, Step, Terminated

LEMMA PhaseFrame ==
    ASSUME NEW u, Phase(u), pc'[u] = pc[u], query'[u] = query[u], row_cnt'[u] = row_cnt[u],
           access_wts'[u] = access_wts[u], v'[u] = v[u], word'[u] = word[u],
           commit_wts'[u] = commit_wts[u], locks'[u] = locks[u], checked'[u] = checked[u],
           id'[u] = id[u]
    PROVE  Phase(u)'
<1>1. WriteSet(u)' = WriteSet(u) /\ ReadSet(u)' = ReadSet(u)
  BY Same
<1> QED  BY <1>1 DEF Phase, Idle, Reads, NextCheck

LEMMA PhaseNext == TypeOK /\ PhaseInv /\ [Next]_vars => PhaseInv'
<1> SUFFICES ASSUME TypeOK, PhaseInv, [Next]_vars PROVE PhaseInv'
  OBVIOUS
<1>0. ASSUME NEW t \in Threads, Step(t), Phase(t)' PROVE PhaseInv'
  <2> SUFFICES ASSUME NEW u \in Threads, u # t PROVE Phase(u)'
    BY <1>0 DEF PhaseInv
  <2>1. Phase(u)
    BY DEF PhaseInv
  <2> QED  BY <1>0, <2>1, Frame, PhaseFrame
<1> USE DEF rowVars, txnVars, histVars, Goto
<1>1. ASSUME NEW t \in Threads, Fetch(t) PROVE Phase(t)'
  <2>1. PICK q \in Queries : query' = [query EXCEPT ![t] = q]
    BY <1>1 DEF Fetch
  <2>2. /\ pc'[t] = "read_word" /\ query'[t] = q /\ row_cnt'[t] = row_cnt[t]
        /\ word'[t] = word[t] /\ locks'[t] = locks[t] /\ checked'[t] = checked[t]
        /\ id'[t] = started + 1 /\ started \in Nat
    BY <1>1, <2>1 DEF Fetch, TypeOK
  <2>3. q # << >> /\ Len(q) \in Nat \ {0}
    BY QueryFacts, QueriesAssumption
  <2>4. row_cnt[t] = 0 /\ word[t] = 0 /\ locks[t] = {} /\ checked[t] = 0
    BY <1>1 DEF Fetch, PhaseInv, Phase, Idle
  <2> QED  BY <2>2, <2>3, <2>4 DEF Phase, Idle, Reads
<1>2. ASSUME NEW t \in Threads, Stop(t) PROVE Phase(t)'
  <2>1. /\ pc'[t] = "done"
        /\ query'[t] = query[t] /\ row_cnt'[t] = row_cnt[t] /\ access_wts'[t] = access_wts[t]
        /\ v'[t] = v[t] /\ word'[t] = word[t] /\ commit_wts'[t] = commit_wts[t]
        /\ locks'[t] = locks[t] /\ checked'[t] = checked[t] /\ id'[t] = id[t]
    BY <1>2 DEF Stop, TypeOK
  <2>8. WriteSet(t)' = WriteSet(t) /\ ReadSet(t)' = ReadSet(t) /\ Phase(t)
    BY <2>1, Same DEF PhaseInv
  <2> QED  BY <1>2, <2>1, <2>8 DEF Phase, Idle, Reads, Stop
<1>3. ASSUME NEW t \in Threads, ReadWord(t) PROVE Phase(t)'
  <2>1. /\ pc'[t] = "copy"
        /\ query'[t] = query[t] /\ row_cnt'[t] = row_cnt[t] /\ access_wts'[t] = access_wts[t]
        /\ word'[t] = word[t] /\ commit_wts'[t] = commit_wts[t] /\ locks'[t] = locks[t]
        /\ checked'[t] = checked[t] /\ id'[t] = id[t]
    BY <1>3 DEF ReadWord, TypeOK
  <2>8. WriteSet(t)' = WriteSet(t) /\ ReadSet(t)' = ReadSet(t) /\ Phase(t)
    BY <2>1, Same DEF PhaseInv
  <2> QED  BY <1>3, <2>1, <2>8 DEF Phase, Idle, Reads, ReadWord
<1>4. ASSUME NEW t \in Threads, Copy(t) PROVE Phase(t)'
  <2>1. /\ pc'[t] = "copy"
        /\ query'[t] = query[t] /\ row_cnt'[t] = row_cnt[t] /\ access_wts'[t] = access_wts[t]
        /\ v'[t] = v[t] /\ commit_wts'[t] = commit_wts[t] /\ locks'[t] = locks[t]
        /\ checked'[t] = checked[t] /\ id'[t] = id[t]
    BY <1>4 DEF Copy, TypeOK
  <2>8. WriteSet(t)' = WriteSet(t) /\ ReadSet(t)' = ReadSet(t) /\ Phase(t)
    BY <2>1, Same DEF PhaseInv
  <2> QED  BY <1>4, <2>1, <2>8 DEF Phase, Idle, Reads, Copy
<1>5. ASSUME NEW t \in Threads, Recheck(t) PROVE Phase(t)'
  <2>1. /\ query'[t] = query[t] /\ locks'[t] = locks[t] /\ checked'[t] = checked[t]
        /\ id'[t] = id[t] /\ word'[t] = 0 /\ pc[t] = "copy"
        /\ \/ /\ row_cnt'[t] = row_cnt[t] + 1
              /\ pc'[t] = IF row_cnt[t] + 1 = Len(query[t]) THEN "commit_time" ELSE "read_word"
           \/ row_cnt'[t] = row_cnt[t] /\ pc'[t] = "read_word"
    BY <1>5 DEF Recheck, TypeOK
  <2>2. row_cnt[t] \in Nat /\ Len(query[t]) \in Nat /\ row_cnt[t] < Len(query[t])
    BY <2>1, Running DEF PhaseInv, Phase, Idle, Reads
  <2>8. WriteSet(t)' = WriteSet(t) /\ ReadSet(t)' = ReadSet(t) /\ Phase(t)
    BY <2>1, Same DEF PhaseInv
  <2> QED  BY <2>1, <2>2, <2>8 DEF Phase, Idle, Reads
<1>6. ASSUME NEW t \in Threads, CommitTime(t) PROVE Phase(t)'
  <2>1. /\ pc'[t] = "pre_abort" \/ pc'[t] = "lock"
        /\ query'[t] = query[t] /\ row_cnt'[t] = row_cnt[t] /\ word'[t] = word[t]
        /\ locks'[t] = locks[t] /\ checked'[t] = checked[t] /\ id'[t] = id[t]
        /\ access_wts'[t] = access_wts[t] /\ commit_wts'[t] = MaxOf(CommitTimes(t))
    BY <1>6 DEF CommitTime, CommitTimes, TypeOK
  <2>2. \A r \in ReadSet(t) : access_wts[t][r] <= MaxOf(CommitTimes(t))
    BY <1>6, CommitTimeFacts DEF CommitTime, Idle
  <2>8. WriteSet(t)' = WriteSet(t) /\ ReadSet(t)' = ReadSet(t) /\ Phase(t)
    BY <2>1, Same DEF PhaseInv
  <2> QED  BY <1>6, <2>1, <2>2, <2>8 DEF Phase, Idle, Reads, CommitTime
<1>7. ASSUME NEW t \in Threads, PreAbort(t) PROVE Phase(t)'
  <2>1. /\ pc'[t] \in {"pre_abort", "abort"} \/ (pc'[t] = "lock" /\ checked'[t] = 0)
        /\ query'[t] = query[t] /\ row_cnt'[t] = row_cnt[t] /\ word'[t] = word[t]
        /\ locks'[t] = locks[t] /\ id'[t] = id[t]
        /\ access_wts'[t] = access_wts[t] /\ commit_wts'[t] = commit_wts[t]
    BY <1>7 DEF PreAbort, TypeOK
  <2>8. WriteSet(t)' = WriteSet(t) /\ ReadSet(t)' = ReadSet(t) /\ Phase(t)
    BY <2>1, Same DEF PhaseInv
  <2> QED  BY <1>7, <2>1, <2>8 DEF Phase, Idle, Reads, PreAbort
<1>8. ASSUME NEW t \in Threads, LockRow(t) PROVE Phase(t)'
  <2>1. /\ pc'[t] = "lock" \/ pc'[t] = "abort"
        /\ query'[t] = query[t] /\ row_cnt'[t] = row_cnt[t] /\ word'[t] = word[t]
        /\ locks'[t] = locks[t] \cup {NextLock(t)} /\ checked'[t] = checked[t]
        /\ id'[t] = id[t] /\ access_wts'[t] = access_wts[t] /\ commit_wts'[t] = commit_wts[t]
    BY <1>8 DEF LockRow, TypeOK
  <2>2. NextLock(t) \in WriteSet(t)
    BY <1>8, NextLockFacts DEF LockRow
  <2>8. WriteSet(t)' = WriteSet(t) /\ ReadSet(t)' = ReadSet(t) /\ Phase(t)
    BY <2>1, Same DEF PhaseInv
  <2> QED  BY <1>8, <2>1, <2>2, <2>8 DEF Phase, Idle, Reads, LockRow
<1>9. ASSUME NEW t \in Threads, LockBusy(t) PROVE Phase(t)'
  <2>1. /\ pc'[t] = "back_off"
        /\ query'[t] = query[t] /\ row_cnt'[t] = row_cnt[t] /\ access_wts'[t] = access_wts[t]
        /\ v'[t] = v[t] /\ word'[t] = word[t] /\ commit_wts'[t] = commit_wts[t]
        /\ locks'[t] = locks[t] /\ checked'[t] = checked[t] /\ id'[t] = id[t]
    BY <1>9 DEF LockBusy, TypeOK
  <2>8. WriteSet(t)' = WriteSet(t) /\ ReadSet(t)' = ReadSet(t) /\ Phase(t)
    BY <2>1, Same DEF PhaseInv
  <2> QED  BY <1>9, <2>1, <2>8 DEF Phase, Idle, Reads, LockBusy
<1>10. ASSUME NEW t \in Threads, Unlock(t) PROVE Phase(t)'
  <2>1. /\ pc'[t] = pc[t]
        /\ query'[t] = query[t] /\ row_cnt'[t] = row_cnt[t] /\ access_wts'[t] = access_wts[t]
        /\ v'[t] = v[t] /\ word'[t] = word[t] /\ commit_wts'[t] = commit_wts[t]
        /\ locks'[t] = locks[t] \ {NextRelease(t)} /\ checked'[t] = checked[t] /\ id'[t] = id[t]
    BY <1>10 DEF Unlock, TypeOK
  <2>8. WriteSet(t)' = WriteSet(t) /\ ReadSet(t)' = ReadSet(t) /\ Phase(t)
    BY <2>1, Same DEF PhaseInv
  <2> QED  BY <1>10, <2>1, <2>8 DEF Phase, Idle, Reads, Unlock
<1>11. ASSUME NEW t \in Threads, BackOff(t) PROVE Phase(t)'
  <2>1. /\ pc'[t] = "pre_abort" \/ pc'[t] = "lock"
        /\ query'[t] = query[t] /\ row_cnt'[t] = row_cnt[t] /\ access_wts'[t] = access_wts[t]
        /\ v'[t] = v[t] /\ word'[t] = word[t] /\ commit_wts'[t] = commit_wts[t]
        /\ locks'[t] = locks[t] /\ checked'[t] = checked[t] /\ id'[t] = id[t]
    BY <1>11 DEF BackOff, TypeOK
  <2>8. WriteSet(t)' = WriteSet(t) /\ ReadSet(t)' = ReadSet(t) /\ Phase(t)
    BY <2>1, Same DEF PhaseInv
  <2> QED  BY <1>11, <2>1, <2>8 DEF Phase, Idle, Reads, BackOff
<1>12. ASSUME NEW t \in Threads, Locked(t) PROVE Phase(t)'
  <2>1. /\ pc'[t] = "validate"
        /\ query'[t] = query[t] /\ row_cnt'[t] = row_cnt[t] /\ access_wts'[t] = access_wts[t]
        /\ v'[t] = v[t] /\ word'[t] = word[t] /\ commit_wts'[t] = LeaseEnd(t)
        /\ locks'[t] = locks[t] /\ checked'[t] = checked[t] /\ id'[t] = id[t]
    BY <1>12 DEF Locked, TypeOK
  <2>8. WriteSet(t)' = WriteSet(t) /\ ReadSet(t)' = ReadSet(t) /\ Phase(t)
    BY <2>1, Same DEF PhaseInv
  <2>2. /\ commit_wts[t] <= LeaseEnd(t) /\ commit_wts[t] \in Nat /\ LeaseEnd(t) \in Nat
        /\ \A r \in ReadSet(t) : access_wts[t][r] \in Nat
    <3>1. pc[t] = "lock" /\ ~ Idle(t)
      BY <1>12 DEF Locked, Idle
    <3>2. commit_wts[t] <= LeaseEnd(t) /\ LeaseEnd(t) \in Nat
      BY <3>1, LeaseEndFacts
    <3>3. ReadSet(t) \subseteq Rows
      BY <3>1, Running
    <3>4. commit_wts[t] \in Nat /\ access_wts[t] \in [Rows -> Nat]
      BY DEF TypeOK
    <3> QED  BY <3>2, <3>3, <3>4
  <2>3. Len(query[t]) \in Nat
    BY <1>12, Running DEF Locked, Idle
  <2> QED  BY <1>12, <2>1, <2>8, <2>2, <2>3 DEF Phase, Idle, Reads, Locked
<1>13. ASSUME NEW t \in Threads, Validate(t) PROVE Phase(t)'
  <2>1. /\ query'[t] = query[t] /\ row_cnt'[t] = row_cnt[t] /\ word'[t] = word[t]
        /\ locks'[t] = locks[t] /\ id'[t] = id[t]
        /\ access_wts'[t] = access_wts[t] /\ commit_wts'[t] = commit_wts[t]
    BY <1>13 DEF Validate, TypeOK
  <2>2. \/ pc'[t] = "validate" /\ checked'[t] = checked[t] + 1
        \/ pc'[t] = "abort"
        \/ /\ pc'[t] = "renew" /\ checked'[t] = checked[t] /\ NextCheck(t).type # "WR"
           /\ v'[t].wts = access_wts[t][NextCheck(t).row]
    BY <1>13 DEF Validate, TypeOK, Passed, Failed, Word
  <2>3. /\ checked[t] \in Nat /\ Len(query[t]) \in Nat /\ checked[t] < Len(query[t])
        /\ pc[t] = "validate"
    BY <1>13, Running DEF TypeOK, Validate, Idle
  <2>4. NextCheck(t).type \in {"RD", "WR"}
    BY <2>3, Running DEF NextCheck, Idle
  <2>5. NextCheck(t)' = query[t][checked'[t] + 1]
    BY <2>1 DEF NextCheck
  <2>8. WriteSet(t)' = WriteSet(t) /\ ReadSet(t)' = ReadSet(t) /\ Phase(t)
    BY <2>1, Same DEF PhaseInv
  <2> QED  BY <2>1, <2>2, <2>3, <2>4, <2>5, <2>8 DEF Phase, Idle, Reads, NextCheck
<1>14. ASSUME NEW t \in Threads, Renew(t) PROVE Phase(t)'
  <2>1. /\ query'[t] = query[t] /\ row_cnt'[t] = row_cnt[t] /\ word'[t] = word[t]
        /\ locks'[t] = locks[t] /\ id'[t] = id[t]
        /\ access_wts'[t] = access_wts[t] /\ commit_wts'[t] = commit_wts[t]
    BY <1>14 DEF Renew, TypeOK
  <2>2. \/ pc'[t] = "validate" /\ checked'[t] = checked[t] + 1
        \/ pc'[t] = "abort"
        \/ /\ pc'[t] = "renew" /\ checked'[t] = checked[t]
           /\ ~ Rebase(t, NextCheck(t).row)
           /\ v'[t].wts = NewWord(t, NextCheck(t).row).wts
    BY <1>14 DEF Renew, TypeOK, Passed, Failed, Word
  <2>3. /\ checked[t] \in Nat /\ Len(query[t]) \in Nat /\ checked[t] < Len(query[t])
        /\ pc[t] = "renew" /\ NextCheck(t).type = "RD"
    <3>1. pc[t] = "renew"
      BY <1>14 DEF Renew
    <3> QED  BY <3>1, Running DEF TypeOK, Idle, PhaseInv, Phase
  <2>4. ~ Rebase(t, NextCheck(t).row) =>
           NewWord(t, NextCheck(t).row).wts = access_wts[t][NextCheck(t).row]
    <3>1. NextCheck(t).row \in Rows /\ NextCheck(t).row \in ReadSet(t)
      <4>1. query[t] \in Queries /\ checked[t] + 1 \in 1..Len(query[t])
        BY <2>3, Running DEF Idle
      <4> QED  BY <4>1, <2>3, QueryFacts, Members DEF NextCheck
    <3>2. /\ access_wts[t][NextCheck(t).row] \in Nat /\ commit_wts[t] \in Nat
          /\ access_wts[t][NextCheck(t).row] <= commit_wts[t]
      BY <3>1, <2>3 DEF TypeOK, PhaseInv, Phase
    <3> QED  BY <3>2, NewWordFacts
  <2>5. NextCheck(t)' = query[t][checked'[t] + 1]
    BY <2>1 DEF NextCheck
  <2>8. WriteSet(t)' = WriteSet(t) /\ ReadSet(t)' = ReadSet(t) /\ Phase(t)
    BY <2>1, Same DEF PhaseInv
  <2> QED  BY <2>1, <2>2, <2>3, <2>4, <2>5, <2>8 DEF Phase, Idle, Reads, NextCheck
<1>15. ASSUME NEW t \in Threads, Commit(t) PROVE Phase(t)'
  <2>1. /\ pc'[t] = "write"
        /\ query'[t] = query[t] /\ row_cnt'[t] = row_cnt[t] /\ access_wts'[t] = access_wts[t]
        /\ v'[t] = v[t] /\ word'[t] = word[t] /\ commit_wts'[t] = commit_wts[t]
        /\ locks'[t] = locks[t] /\ checked'[t] = checked[t] /\ id'[t] = id[t]
    BY <1>15 DEF Commit, TypeOK
  <2>8. WriteSet(t)' = WriteSet(t) /\ ReadSet(t)' = ReadSet(t) /\ Phase(t)
    BY <2>1, Same DEF PhaseInv
  <2> QED  BY <1>15, <2>1, <2>8 DEF Phase, Idle, Reads, Commit
<1>16. ASSUME NEW t \in Threads, SetWts(t) PROVE Phase(t)'
  <2>1. /\ pc'[t] = "install"
        /\ query'[t] = query[t] /\ row_cnt'[t] = row_cnt[t] /\ access_wts'[t] = access_wts[t]
        /\ v'[t] = v[t] /\ word'[t] = word[t] /\ commit_wts'[t] = commit_wts[t]
        /\ locks'[t] = locks[t] /\ checked'[t] = checked[t] /\ id'[t] = id[t]
    BY <1>16 DEF SetWts, TypeOK
  <2>8. WriteSet(t)' = WriteSet(t) /\ ReadSet(t)' = ReadSet(t) /\ Phase(t)
    BY <2>1, Same DEF PhaseInv
  <2> QED  BY <1>16, <2>1, <2>8 DEF Phase, Idle, Reads, SetWts
<1>17. ASSUME NEW t \in Threads, Install(t) PROVE Phase(t)'
  <2>1. /\ pc'[t] = "install"
        /\ query'[t] = query[t] /\ row_cnt'[t] = row_cnt[t] /\ access_wts'[t] = access_wts[t]
        /\ v'[t] = v[t] /\ commit_wts'[t] = commit_wts[t] /\ locks'[t] = locks[t]
        /\ checked'[t] = checked[t] /\ id'[t] = id[t]
    BY <1>17 DEF Install, TypeOK
  <2>8. WriteSet(t)' = WriteSet(t) /\ ReadSet(t)' = ReadSet(t) /\ Phase(t)
    BY <2>1, Same DEF PhaseInv
  <2> QED  BY <1>17, <2>1, <2>8 DEF Phase, Idle, Reads, Install
<1>18. ASSUME NEW t \in Threads, Release(t) PROVE Phase(t)'
  <2>1. /\ pc'[t] = "write"
        /\ query'[t] = query[t] /\ row_cnt'[t] = row_cnt[t] /\ access_wts'[t] = access_wts[t]
        /\ v'[t] = v[t] /\ word'[t] = 0 /\ commit_wts'[t] = commit_wts[t]
        /\ locks'[t] = locks[t] \ {NextRelease(t)} /\ checked'[t] = checked[t] /\ id'[t] = id[t]
    BY <1>18 DEF Release, TypeOK
  <2>8. WriteSet(t)' = WriteSet(t) /\ ReadSet(t)' = ReadSet(t) /\ Phase(t)
    BY <2>1, Same DEF PhaseInv
  <2> QED  BY <1>18, <2>1, <2>8 DEF Phase, Idle, Reads, Release
<1>19. ASSUME NEW t \in Threads, Finish(t) PROVE Phase(t)'
  <2>1. /\ pc'[t] = "fetch" /\ query'[t] = << >> /\ row_cnt'[t] = 0 /\ word'[t] = word[t]
        /\ locks'[t] = {} /\ checked'[t] = 0 /\ pc[t] \in {"write", "abort"}
    BY <1>19 DEF Finish, TypeOK
  <2>2. word[t] = 0
    BY <2>1 DEF PhaseInv, Phase
  <2> QED  BY <2>1, <2>2 DEF Phase, Idle, Reads
<1>20. CASE UNCHANGED vars
  BY <1>20, PhaseFrame DEF PhaseInv, vars
<1> QED  BY <1>0, <1>1, <1>2, <1>3, <1>4, <1>5, <1>6, <1>7, <1>8, <1>9, <1>10, <1>11, <1>12, <1>13, <1>14, <1>15, <1>16, <1>17, <1>18, <1>19, <1>20 DEF Next, Step, Terminated

----------------------------------------------------------------------------
(* What a step does to a row.                                              *)

\* The access that a validation loop looks at.
LEMMA CheckedRow ==
    ASSUME TypeOK, PhaseInv, NEW t \in Threads, ~ Idle(t), checked[t] < Len(query[t])
    PROVE  /\ checked[t] \in Nat /\ checked[t] + 1 \in 1..Len(query[t])
           /\ NextCheck(t) = query[t][checked[t] + 1] /\ NextCheck(t).row \in Rows
           /\ NextCheck(t).type \in {"RD", "WR"}
           /\ NextCheck(t).type = "RD" => NextCheck(t).row \in ReadSet(t)
<1>1. /\ query[t] \in Queries /\ Len(query[t]) \in Nat
      /\ \A i \in 1..Len(query[t]) :
            query[t][i].row \in Rows /\ query[t][i].type \in {"RD", "WR"}
  BY Running
<1>2. checked[t] \in Nat
  BY DEF TypeOK
<1>3. checked[t] + 1 \in 1..Len(query[t])
  BY <1>1, <1>2
<1> QED  BY <1>1, <1>2, <1>3, Members DEF NextCheck

LEMMA InstallLocked ==
    ASSUME TypeOK, PhaseInv, NEW u \in Threads
    PROVE  /\ ToInstall(u) \subseteq locks[u]
           /\ \A r : Installing(u, r) => r \in locks[u] /\ r \in Rows
<1>1. pc[u] = "install" => NextRelease(u) \in locks[u] /\ NextRelease(u) \in Rows
  BY NextReleaseFacts DEF PhaseInv, Phase
<1> QED  BY <1>1 DEF Installing, ToInstall

LEMMA OtherInstalls ==
    ASSUME TypeOK, NEW t \in Threads, Step(t), NEW u \in Threads, u # t
    PROVE  /\ ToInstall(u)' = ToInstall(u)
           /\ \A r : Installing(u, r)' <=> Installing(u, r)
<1>1. pc'[u] = pc[u] /\ locks'[u] = locks[u]
  BY Frame
<1>2. NextRelease(u)' = NextRelease(u)
  BY <1>1 DEF NextRelease
<1> QED  BY <1>1, <1>2 DEF ToInstall, Installing

NoNewInstall(r) == \A u \in Threads : Installing(u, r)' => Installing(u, r)

Still(r) ==
    /\ wts'[r] = wts[r] /\ delta'[r] = delta[r] /\ data'[r] = data[r]
    /\ NoNewInstall(r)

Renewed(t, r) ==
    /\ pc[t] = "renew" /\ r = NextCheck(t).row /\ Word(r) = v[t] /\ ~ locked[r]
    /\ wts'[r] = NewWord(t, r).wts /\ delta'[r] = NewWord(t, r).delta
    /\ data'[r] = data[r] /\ Renew(t)
    /\ NoNewInstall(r)

Timed(t, r) ==
    /\ SetWts(t) /\ r = NextRelease(t)
    /\ wts'[r] = commit_wts[t] /\ delta'[r] = 0 /\ data'[r] = data[r]

Written(t, r) ==
    /\ Install(t) /\ r = NextRelease(t)
    /\ wts'[r] = wts[r] /\ delta'[r] = delta[r]
    /\ data'[r] = [data[r] EXCEPT ![word[t] + 1] = id[t]]

LEMMA NoInstall ==
    ASSUME TypeOK, NEW t \in Threads, Step(t), pc'[t] # "install"
    PROVE  \A r : NoNewInstall(r)
<1> SUFFICES ASSUME NEW r, NEW u \in Threads, Installing(u, r)' PROVE Installing(u, r)
  BY DEF NoNewInstall
<1>1. CASE u = t
  BY <1>1 DEF Installing
<1>2. CASE u # t
  BY <1>2, OtherInstalls
<1> QED  BY <1>1, <1>2

LEMMA StillNext ==
    ASSUME TypeOK, NEW t \in Threads, Step(t), pc'[t] # "install",
           wts' = wts, delta' = delta, data' = data
    PROVE  \A r : Still(r)
BY NoInstall DEF Still

LEMMA RowStep ==
    ASSUME TypeOK, PhaseInv, NEW t \in Threads, Step(t), NEW r \in Rows
    PROVE  Still(r) \/ Renewed(t, r) \/ Timed(t, r) \/ Written(t, r)
<1> USE DEF rowVars, txnVars, histVars, Goto
<1>0. pc \in [Threads -> Labels]
  BY DEF TypeOK
<1>1. CASE Fetch(t)
  <2>1. wts' = wts /\ delta' = delta /\ data' = data /\ pc'[t] # "install"
    BY <1>0, <1>1 DEF Fetch
  <2> QED  BY <2>1, StillNext
<1>2. CASE Stop(t)
  <2>1. wts' = wts /\ delta' = delta /\ data' = data /\ pc'[t] # "install"
    BY <1>0, <1>2 DEF Stop
  <2> QED  BY <2>1, StillNext
<1>3. CASE ReadWord(t)
  <2>1. wts' = wts /\ delta' = delta /\ data' = data /\ pc'[t] # "install"
    BY <1>0, <1>3 DEF ReadWord
  <2> QED  BY <2>1, StillNext
<1>4. CASE Copy(t)
  <2>1. wts' = wts /\ delta' = delta /\ data' = data /\ pc'[t] # "install"
    BY <1>0, <1>4 DEF Copy
  <2> QED  BY <2>1, StillNext
<1>5. CASE Recheck(t)
  <2>1. wts' = wts /\ delta' = delta /\ data' = data /\ pc'[t] # "install"
    BY <1>0, <1>5 DEF Recheck
  <2> QED  BY <2>1, StillNext
<1>6. CASE CommitTime(t)
  <2>1. wts' = wts /\ delta' = delta /\ data' = data /\ pc'[t] # "install"
    BY <1>0, <1>6 DEF CommitTime
  <2> QED  BY <2>1, StillNext
<1>7. CASE PreAbort(t)
  <2>1. wts' = wts /\ delta' = delta /\ data' = data /\ pc'[t] # "install"
    BY <1>0, <1>7 DEF PreAbort
  <2> QED  BY <2>1, StillNext
<1>8. CASE LockRow(t)
  <2>1. wts' = wts /\ delta' = delta /\ data' = data /\ pc'[t] # "install"
    BY <1>0, <1>8 DEF LockRow
  <2> QED  BY <2>1, StillNext
<1>9. CASE LockBusy(t)
  <2>1. wts' = wts /\ delta' = delta /\ data' = data /\ pc'[t] # "install"
    BY <1>0, <1>9 DEF LockBusy
  <2> QED  BY <2>1, StillNext
<1>10. CASE Unlock(t)
  <2>1. wts' = wts /\ delta' = delta /\ data' = data /\ pc'[t] # "install"
    BY <1>0, <1>10 DEF Unlock
  <2> QED  BY <2>1, StillNext
<1>11. CASE BackOff(t)
  <2>1. wts' = wts /\ delta' = delta /\ data' = data /\ pc'[t] # "install"
    BY <1>0, <1>11 DEF BackOff
  <2> QED  BY <2>1, StillNext
<1>12. CASE Locked(t)
  <2>1. wts' = wts /\ delta' = delta /\ data' = data /\ pc'[t] # "install"
    BY <1>0, <1>12 DEF Locked
  <2> QED  BY <2>1, StillNext
<1>13. CASE Validate(t)
  <2>1. wts' = wts /\ delta' = delta /\ data' = data /\ pc'[t] # "install"
    BY <1>0, <1>13 DEF Validate, Passed, Failed
  <2> QED  BY <2>1, StillNext
<1>15. CASE Commit(t)
  <2>1. wts' = wts /\ delta' = delta /\ data' = data /\ pc'[t] # "install"
    BY <1>0, <1>15 DEF Commit
  <2> QED  BY <2>1, StillNext
<1>18. CASE Release(t)
  <2>1. wts' = wts /\ delta' = delta /\ data' = data /\ pc'[t] # "install"
    BY <1>0, <1>18 DEF Release
  <2> QED  BY <2>1, StillNext
<1>19. CASE Finish(t)
  <2>1. wts' = wts /\ delta' = delta /\ data' = data /\ pc'[t] # "install"
    BY <1>0, <1>19 DEF Finish
  <2> QED  BY <2>1, StillNext
<1>14. CASE Renew(t)
  <2>1. data' = data /\ pc'[t] # "install" /\ pc[t] = "renew"
    BY <1>0, <1>14 DEF Renew, Passed, Failed
  <2>2. NoNewInstall(r)
    BY <2>1, NoInstall
  <2>3. CASE wts' = wts /\ delta' = delta
    BY <2>1, <2>2, <2>3 DEF Still
  <2>4. CASE ~ (wts' = wts /\ delta' = delta)
    <3>1. PICK s \in Rows : s = NextCheck(t).row
      <4>1. ~ Idle(t) /\ checked[t] < Len(query[t])
        BY <2>1 DEF PhaseInv, Phase, Idle
      <4> QED  BY <2>1, <4>1, CheckedRow
    <3>2. /\ Word(s) = v[t] /\ ~ locked[s]
          /\ wts' = [wts EXCEPT ![s] = NewWord(t, s).wts]
          /\ delta' = [delta EXCEPT ![s] = NewWord(t, s).delta]
      BY <1>14, <2>4, <3>1 DEF Renew
    <3>3. CASE r = s
      <4>1. wts'[r] = NewWord(t, r).wts /\ delta'[r] = NewWord(t, r).delta
        BY <3>2, <3>3 DEF TypeOK
      <4> QED  BY <1>14, <2>1, <2>2, <3>1, <3>2, <3>3, <4>1 DEF Renewed
    <3>4. CASE r # s
      <4>1. wts'[r] = wts[r] /\ delta'[r] = delta[r]
        BY <3>2, <3>4 DEF TypeOK
      <4> QED  BY <2>1, <2>2, <4>1 DEF Still
    <3> QED  BY <3>3, <3>4
  <2> QED  BY <2>3, <2>4
<1>16. CASE SetWts(t)
  <2>1. /\ data' = data /\ pc'[t] = "install" /\ locks'[t] = locks[t]
        /\ wts' = [wts EXCEPT ![NextRelease(t)] = commit_wts[t]]
        /\ delta' = [delta EXCEPT ![NextRelease(t)] = 0]
    BY <1>0, <1>16 DEF SetWts
  <2>2. CASE r = NextRelease(t)
    BY <1>16, <2>1, <2>2 DEF Timed, TypeOK
  <2>3. CASE r # NextRelease(t)
    <3>1. wts'[r] = wts[r] /\ delta'[r] = delta[r]
      BY <2>1, <2>3 DEF TypeOK
    <3>2. ~ Installing(t, r)'
      BY <2>1, <2>3 DEF Installing, NextRelease
    <3>3. NoNewInstall(r)
      BY <3>2, OtherInstalls DEF NoNewInstall
    <3> QED  BY <2>1, <3>1, <3>3 DEF Still
  <2> QED  BY <2>2, <2>3
<1>17. CASE Install(t)
  <2>1. /\ wts' = wts /\ delta' = delta /\ pc'[t] = "install" /\ pc[t] = "install"
        /\ locks'[t] = locks[t]
        /\ data' = [data EXCEPT ![NextRelease(t)][word[t] + 1] = id[t]]
    BY <1>0, <1>17 DEF Install
  <2>2. CASE r = NextRelease(t)
    <3>1. data'[r] = [data[r] EXCEPT ![word[t] + 1] = id[t]]
      BY <2>1, <2>2 DEF TypeOK
    <3> QED  BY <1>17, <2>1, <2>2, <3>1 DEF Written
  <2>3. CASE r # NextRelease(t)
    <3>1. data'[r] = data[r]
      BY <2>1, <2>3 DEF TypeOK
    <3>2. ~ Installing(t, r)'
      BY <2>1, <2>3 DEF Installing, NextRelease
    <3>3. NoNewInstall(r)
      BY <3>2, OtherInstalls DEF NoNewInstall
    <3> QED  BY <2>1, <3>1, <3>3 DEF Still
  <2> QED  BY <2>2, <2>3
<1> QED  BY <1>1, <1>2, <1>3, <1>4, <1>5, <1>6, <1>7, <1>8, <1>9, <1>10, <1>11, <1>12, <1>13, <1>14, <1>15, <1>16, <1>17, <1>18, <1>19 DEF Step

----------------------------------------------------------------------------
(* Locks and times.                                                        *)

LEMMA LocksStep ==
    ASSUME NEW t \in Threads, Step(t)
    PROVE  (locked' = locked /\ locks' = locks) \/ LockRow(t) \/ Unlock(t) \/ Release(t)
BY DEF Step, Fetch, Stop, ReadWord, Copy, Recheck, CommitTime, PreAbort, LockBusy, BackOff,
       Locked, Validate, Renew, Commit, SetWts, Install, Finish, rowVars

\* A lock is taken on a free row, and given back by who has it.
LEMMA LockTaken ==
    ASSUME LockInv, TypeOK, NEW t \in Threads, NEW r \in Rows, ~ locked[r],
           locked' = [locked EXCEPT ![r] = TRUE],
           locks' = [locks EXCEPT ![t] = @ \cup {r}]
    PROVE  LockInv'
<1>1. locked \in [Rows -> BOOLEAN] /\ locks \in [Threads -> SUBSET Rows]
  BY DEF TypeOK
<1>2. \A u \in Threads : locks'[u] = IF u = t THEN locks[t] \cup {r} ELSE locks[u]
  BY <1>1
<1>3. \A s \in Rows : locked'[s] = IF s = r THEN TRUE ELSE locked[s]
  BY <1>1
<1>4. \A u \in Threads : r \notin locks[u]
  BY DEF LockInv
<1>5. \A s \in Rows : locked'[s] <=> \E u \in Threads : s \in locks'[u]
  <2> TAKE s \in Rows
  <2>1. locked[s] <=> \E u \in Threads : s \in locks[u]
    BY DEF LockInv
  <2>2. CASE s = r
    <3>1. s \in locks'[t]
      BY <1>2, <2>2
    <3>2. locked'[s] = TRUE
      BY <1>1, <2>2
    <3> QED  BY <3>1, <3>2
  <2>3. CASE s # r
    <3>1. locked'[s] = locked[s] /\ \A u \in Threads : s \in locks'[u] <=> s \in locks[u]
      BY <1>2, <1>3, <2>3
    <3> QED  BY <2>1, <3>1, Zenon
  <2> QED  BY <2>2, <2>3
<1>6. \A u, w \in Threads : u # w => locks'[u] \cap locks'[w] = {}
  BY <1>2, <1>4 DEF LockInv
<1> QED  BY <1>5, <1>6 DEF LockInv

LEMMA LockGiven ==
    ASSUME LockInv, TypeOK, NEW t \in Threads, NEW r \in Rows, r \in locks[t],
           locked' = [locked EXCEPT ![r] = FALSE],
           locks' = [locks EXCEPT ![t] = @ \ {r}]
    PROVE  LockInv'
<1>1. locked \in [Rows -> BOOLEAN] /\ locks \in [Threads -> SUBSET Rows]
  BY DEF TypeOK
<1>2. \A u \in Threads : locks'[u] = IF u = t THEN locks[t] \ {r} ELSE locks[u]
  BY <1>1
<1>3. \A s \in Rows : locked'[s] = IF s = r THEN FALSE ELSE locked[s]
  BY <1>1
<1>4. \A u \in Threads : r \notin locks'[u]
  BY <1>2 DEF LockInv
<1>5. \A s \in Rows : locked'[s] <=> \E u \in Threads : s \in locks'[u]
  <2> TAKE s \in Rows
  <2>1. locked[s] <=> \E u \in Threads : s \in locks[u]
    BY DEF LockInv
  <2>2. CASE s = r
    BY <1>3, <1>4, <2>2
  <2>3. CASE s # r
    <3>1. locked'[s] = locked[s] /\ \A u \in Threads : s \in locks'[u] <=> s \in locks[u]
      BY <1>2, <1>3, <2>3
    <3> QED  BY <2>1, <3>1, Zenon
  <2> QED  BY <2>2, <2>3
<1>6. \A u, w \in Threads : u # w => locks'[u] \cap locks'[w] = {}
  BY <1>2 DEF LockInv
<1> QED  BY <1>5, <1>6 DEF LockInv

LEMMA LockNext ==
    ASSUME TypeOK, PhaseInv, LockInv, NEW t \in Threads, Step(t)
    PROVE  LockInv'
<1>1. CASE locked' = locked /\ locks' = locks
  BY <1>1 DEF LockInv
<1>2. CASE LockRow(t)
  <2>1. PICK r \in Rows : r = NextLock(t)
    BY <1>2, NextLockFacts DEF LockRow
  <2> QED  BY <1>2, <2>1, LockTaken DEF LockRow
<1>3. CASE Unlock(t)
  <2>1. PICK r \in Rows : r = NextRelease(t) /\ r \in locks[t]
    BY <1>3, NextReleaseFacts DEF Unlock
  <2> QED  BY <1>3, <2>1, LockGiven DEF Unlock
<1>4. CASE Release(t)
  <2>1. PICK r \in Rows : r = NextRelease(t) /\ r \in locks[t]
    BY <1>4, NextReleaseFacts DEF Release, PhaseInv, Phase
  <2> QED  BY <1>4, <2>1, LockGiven DEF Release
<1> QED  BY <1>1, <1>2, <1>3, <1>4, LocksStep

\* The word try_renew swaps in.
LEMMA RenewFacts ==
    ASSUME TypeOK, PhaseInv, NEW t \in Threads, NEW r \in Rows, Renewed(t, r)
    PROVE  /\ r \in ReadSet(t) /\ wts[r] = access_wts[t][r] /\ wts[r] <= wts'[r]
           /\ wts'[r] \in Nat /\ delta'[r] \in Nat /\ wts'[r] + delta'[r] = commit_wts[t]
<1>1. pc[t] = "renew" /\ r = NextCheck(t).row /\ Word(r) = v[t]
  BY DEF Renewed
<1>2. r \in ReadSet(t) /\ v[t].wts = access_wts[t][r]
  <2>1. ~ Idle(t) /\ checked[t] < Len(query[t]) /\ NextCheck(t).type = "RD"
    BY <1>1 DEF PhaseInv, Phase, Idle
  <2> QED  BY <1>1, <2>1, CheckedRow DEF PhaseInv, Phase
<1>3. wts[r] = access_wts[t][r]
  BY <1>1, <1>2 DEF Word
<1>4. access_wts[t][r] \in Nat /\ commit_wts[t] \in Nat /\ access_wts[t][r] <= commit_wts[t]
  BY <1>1, <1>2 DEF TypeOK, PhaseInv, Phase
<1>5. /\ NewWord(t, r).wts \in Nat /\ NewWord(t, r).delta \in Nat
      /\ access_wts[t][r] <= NewWord(t, r).wts
      /\ NewWord(t, r).wts + NewWord(t, r).delta = commit_wts[t]
  BY <1>4, NewWordFacts
<1> QED  BY <1>2, <1>3, <1>5 DEF Renewed

\* Who has locked a row can rely on it.
LEMMA LockedStays ==
    ASSUME TypeOK, PhaseInv, LockInv, NEW t \in Threads, Step(t),
           NEW u \in Threads, u # t, NEW r \in locks[u]
    PROVE  wts'[r] = wts[r] /\ delta'[r] = delta[r] /\ data'[r] = data[r]
<1>1. r \in Rows /\ locked[r] /\ r \notin locks[t]
  BY DEF TypeOK, LockInv
<1>2. ~ Renewed(t, r)
  BY <1>1 DEF Renewed
<1>3. ~ Timed(t, r) /\ ~ Written(t, r)
  <2>1. locks[t] # {} => NextRelease(t) # r
    BY <1>1, NextReleaseFacts
  <2> QED  BY <2>1 DEF Timed, Written, SetWts, Install, PhaseInv, Phase
<1> QED  BY <1>1, <1>2, <1>3, RowStep DEF Still

LEMMA LockTimeOff ==
    ASSUME NEW t, pc'[t] \notin {"lock", "validate", "renew", "write", "install"}
    PROVE  LockTime(t)'
BY DEF LockTime, ToInstall, Installing

LEMMA LockTimeNone ==
    ASSUME NEW t, pc'[t] \in {"lock", "pre_abort"}, locks'[t] = {}
    PROVE  LockTime(t)'
BY DEF LockTime, ToInstall, Installing

LEMMA LockTimeOther ==
    ASSUME TypeOK, PhaseInv, LockInv, LockTimeInv, NEW t \in Threads, Step(t),
           NEW u \in Threads, u # t
    PROVE  LockTime(u)'
<1>1. LockTime(u)
  BY DEF LockTimeInv
<1>2. /\ pc'[u] = pc[u] /\ locks'[u] = locks[u] /\ access_wts'[u] = access_wts[u]
      /\ commit_wts'[u] = commit_wts[u] /\ ToInstall(u)' = ToInstall(u)
      /\ \A r : Installing(u, r)' <=> Installing(u, r)
  BY Frame, OtherInstalls
<1>3. \A r \in locks[u] : wts'[r] = wts[r] /\ delta'[r] = delta[r] /\ rts(r)' = rts(r)
  BY LockedStays DEF rts
<1>4. ToInstall(u) \subseteq locks[u] /\ \A r : Installing(u, r) => r \in locks[u]
  BY InstallLocked
<1> QED  BY <1>1, <1>2, <1>3, <1>4 DEF LockTime

LEMMA LockTimeOwn ==
    ASSUME TypeOK, PhaseInv, LockInv, LockTimeInv, NEW t \in Threads, Step(t)
    PROVE  LockTime(t)'
<1> USE DEF rowVars, txnVars, histVars, Goto
<1>0. /\ pc \in [Threads -> Labels] /\ locks \in [Threads -> SUBSET Rows]
      /\ commit_wts \in [Threads -> Nat]
  BY DEF TypeOK
<1>a. LockTime(t) /\ Phase(t)
  BY DEF LockTimeInv, PhaseInv
<1>1. CASE Fetch(t)
  <2>1. pc'[t] = "read_word"
    BY <1>0, <1>1 DEF Fetch
  <2> QED  BY <2>1, LockTimeOff
<1>2. CASE Stop(t)
  <2>1. pc'[t] = "done"
    BY <1>0, <1>2 DEF Stop
  <2> QED  BY <2>1, LockTimeOff
<1>3. CASE ReadWord(t)
  <2>1. pc'[t] = "copy"
    BY <1>0, <1>3 DEF ReadWord
  <2> QED  BY <2>1, LockTimeOff
<1>4. CASE Copy(t)
  <2>1. pc'[t] = "copy"
    BY <1>0, <1>4 DEF Copy
  <2> QED  BY <2>1, LockTimeOff
<1>5. CASE Recheck(t)
  <2>1. pc'[t] \in {"read_word", "commit_time"}
    BY <1>0, <1>5 DEF Recheck
  <2> QED  BY <2>1, LockTimeOff
<1>6. CASE CommitTime(t)
  <2>1. pc'[t] \in {"lock", "pre_abort"} /\ locks'[t] = {}
    BY <1>0, <1>a, <1>6 DEF CommitTime, Phase
  <2> QED  BY <2>1, LockTimeNone
<1>7. CASE PreAbort(t)
  <2>1. pc'[t] \in {"lock", "pre_abort", "abort"} /\ locks'[t] = {}
    BY <1>0, <1>a, <1>7 DEF PreAbort, Phase
  <2> QED  BY <2>1, LockTimeNone, LockTimeOff
<1>8. CASE LockRow(t)
  <2>1. PICK r \in Rows : r = NextLock(t)
    BY <1>8, NextLockFacts DEF LockRow
  <2>2. /\ pc[t] = "lock" /\ locks'[t] = locks[t] \cup {r}
        /\ pc'[t] = "abort" \/ (pc'[t] = "lock" /\ wts[r] = access_wts[t][r])
        /\ wts' = wts /\ access_wts' = access_wts
    BY <1>0, <1>8, <2>1 DEF LockRow
  <2>3. CASE pc'[t] = "abort"
    BY <2>3, LockTimeOff
  <2>4. CASE pc'[t] = "lock" /\ wts[r] = access_wts[t][r]
    <3>1. \A s \in locks'[t] : wts'[s] = access_wts'[t][s]
      BY <1>a, <2>2, <2>4 DEF LockTime
    <3> QED  BY <2>4, <3>1 DEF LockTime, ToInstall, Installing
  <2> QED  BY <2>2, <2>3, <2>4
<1>9. CASE LockBusy(t)
  <2>1. pc'[t] = "back_off"
    BY <1>0, <1>9 DEF LockBusy
  <2> QED  BY <2>1, LockTimeOff
<1>10. CASE Unlock(t)
  <2>1. pc'[t] \in {"back_off", "abort"}
    BY <1>0, <1>10 DEF Unlock
  <2> QED  BY <2>1, LockTimeOff
<1>11. CASE BackOff(t)
  <2>1. pc'[t] \in {"lock", "pre_abort"} /\ locks'[t] = {}
    BY <1>0, <1>11 DEF BackOff
  <2> QED  BY <2>1, LockTimeNone
<1>12. CASE Locked(t)
  <2>1. /\ pc[t] = "lock" /\ pc'[t] = "validate" /\ locks'[t] = WriteSet(t)
        /\ locks[t] = WriteSet(t) /\ commit_wts'[t] = LeaseEnd(t) /\ ~ Idle(t)
        /\ wts' = wts /\ delta' = delta /\ access_wts' = access_wts
    BY <1>0, <1>12 DEF Locked, Idle
  <2>2. \A s \in locks'[t] : wts'[s] = access_wts'[t][s]
    BY <1>a, <2>1 DEF LockTime
  <2>3. \A s \in locks'[t] : rts(s)' < commit_wts'[t]
    <3>1. \A s \in WriteSet(t) : rts(s) < LeaseEnd(t)
      BY <2>1, LeaseEndFacts
    <3> QED  BY <2>1, <3>1 DEF rts
  <2> QED  BY <2>1, <2>2, <2>3 DEF LockTime, ToInstall, Installing
<1>13. CASE Validate(t)
  <2>1. /\ pc[t] = "validate" /\ pc'[t] \in {"validate", "renew", "abort"}
        /\ locks'[t] = locks[t] /\ commit_wts'[t] = commit_wts[t]
        /\ wts' = wts /\ delta' = delta /\ access_wts' = access_wts
    BY <1>0, <1>13 DEF Validate, Passed, Failed
  <2> QED  BY <1>a, <2>1 DEF LockTime, ToInstall, Installing, rts
<1>14. CASE Renew(t)
  <2>1. /\ pc[t] = "renew" /\ pc'[t] \in {"validate", "renew", "abort"}
        /\ locks'[t] = locks[t] /\ commit_wts'[t] = commit_wts[t]
        /\ access_wts' = access_wts
    BY <1>0, <1>14 DEF Renew, Passed, Failed
  <2>2. \A s \in locks[t] : wts'[s] = wts[s] /\ delta'[s] = delta[s]
    <3> TAKE s \in locks[t]
    <3>1. s \in Rows /\ locked[s]
      BY DEF TypeOK, LockInv
    <3>2. ~ Renewed(t, s) /\ ~ Timed(t, s)
      BY <2>1, <3>1 DEF Renewed, Timed, SetWts
    <3> QED  BY <3>1, <3>2, RowStep DEF Still, Written
  <2> QED  BY <1>a, <2>1, <2>2 DEF LockTime, ToInstall, Installing, rts
<1>15. CASE Commit(t)
  <2>1. /\ pc[t] = "validate" /\ pc'[t] = "write" /\ locks'[t] = locks[t]
        /\ commit_wts'[t] = commit_wts[t] /\ wts' = wts /\ delta' = delta
    BY <1>0, <1>15 DEF Commit
  <2> QED  BY <1>a, <2>1 DEF LockTime, ToInstall, Installing, rts
<1>16. CASE SetWts(t)
  <2>1. /\ pc[t] = "write" /\ pc'[t] = "install" /\ locks'[t] = locks[t] /\ locks[t] # {}
        /\ commit_wts'[t] = commit_wts[t]
        /\ wts' = [wts EXCEPT ![NextRelease(t)] = commit_wts[t]]
        /\ delta' = [delta EXCEPT ![NextRelease(t)] = 0]
        /\ NextRelease(t)' = NextRelease(t)
    BY <1>0, <1>16 DEF SetWts, NextRelease
  <2>2. NextRelease(t) \in Rows
    BY <2>1, NextReleaseFacts
  <2>3. wts \in [Rows -> Nat] /\ delta \in [Rows -> Nat] /\ locks[t] \subseteq Rows
    BY DEF TypeOK
  <2>4. \A s \in locks[t] \ {NextRelease(t)} : rts(s)' < commit_wts'[t]
    <3>1. \A s \in locks[t] : rts(s) < commit_wts[t]
      BY <1>a, <2>1 DEF LockTime, ToInstall
    <3>2. \A s \in locks[t] \ {NextRelease(t)} : wts'[s] = wts[s] /\ delta'[s] = delta[s]
      BY <2>1, <2>3
    <3> QED  BY <2>1, <3>1, <3>2 DEF rts
  <2>5. wts'[NextRelease(t)] = commit_wts[t] /\ delta'[NextRelease(t)] = 0
    BY <2>1, <2>2, <2>3
  <2>6. ToInstall(t)' = locks[t] \ {NextRelease(t)}
    BY <2>1 DEF ToInstall
  <2> QED  BY <2>1, <2>4, <2>5, <2>6 DEF LockTime, Installing
<1>17. CASE Install(t)
  <2>1. /\ pc[t] = "install" /\ pc'[t] = "install" /\ locks'[t] = locks[t]
        /\ commit_wts'[t] = commit_wts[t] /\ wts' = wts /\ delta' = delta
        /\ NextRelease(t)' = NextRelease(t)
    BY <1>0, <1>17 DEF Install, NextRelease
  <2>2. ToInstall(t)' = ToInstall(t)
    BY <2>1 DEF ToInstall
  <2> QED  BY <1>a, <2>1, <2>2 DEF LockTime, Installing, rts
<1>18. CASE Release(t)
  <2>1. /\ pc[t] = "install" /\ pc'[t] = "write" /\ locks'[t] = locks[t] \ {NextRelease(t)}
        /\ commit_wts'[t] = commit_wts[t] /\ wts' = wts /\ delta' = delta
    BY <1>0, <1>18 DEF Release
  <2>2. ToInstall(t)' = ToInstall(t)
    BY <2>1 DEF ToInstall
  <2> QED  BY <1>a, <2>1, <2>2 DEF LockTime, Installing, rts
<1>19. CASE Finish(t)
  <2>1. pc'[t] = "fetch"
    BY <1>0, <1>19 DEF Finish
  <2> QED  BY <2>1, LockTimeOff
<1> QED  BY <1>1, <1>2, <1>3, <1>4, <1>5, <1>6, <1>7, <1>8, <1>9, <1>10, <1>11, <1>12, <1>13, <1>14, <1>15, <1>16, <1>17, <1>18, <1>19 DEF Step

LEMMA LockTimeNext ==
    ASSUME TypeOK, PhaseInv, LockInv, LockTimeInv, NEW t \in Threads, Step(t)
    PROVE  LockTimeInv'
BY LockTimeOwn, LockTimeOther DEF LockTimeInv

\* A version's time never goes back.
LEMMA TimesGrow ==
    ASSUME TypeOK, PhaseInv, LockTimeInv, NEW t \in Threads, Step(t), NEW r \in Rows
    PROVE  /\ wts'[r] \in Nat /\ wts[r] <= wts'[r]
           /\ Timed(t, r) => wts[r] < wts'[r] /\ rts(r) < rts(r)' /\ r \in locks[t]
                             /\ ToInstall(t) = locks[t]
<1>1. wts[r] \in Nat /\ delta[r] \in Nat /\ commit_wts[t] \in Nat
  BY DEF TypeOK
<1>2. ASSUME Timed(t, r)
      PROVE  /\ wts[r] < wts'[r] /\ rts(r) < rts(r)' /\ r \in locks[t] /\ wts'[r] \in Nat
             /\ ToInstall(t) = locks[t]
  <2>1. pc[t] = "write" /\ locks[t] # {} /\ r = NextRelease(t) /\ wts'[r] = commit_wts[t]
        /\ delta'[r] = 0
    BY <1>2 DEF Timed, SetWts
  <2>2. r \in locks[t] /\ ToInstall(t) = locks[t]
    BY <2>1, NextReleaseFacts DEF ToInstall
  <2>3. rts(r) < commit_wts[t]
    BY <2>2 DEF LockTimeInv, LockTime
  <2> QED  BY <1>1, <2>1, <2>2, <2>3 DEF rts
<1>3. CASE Renewed(t, r)
  BY <1>2, <1>3, RenewFacts
<1>4. CASE Still(r) \/ Written(t, r)
  BY <1>1, <1>2, <1>4 DEF Still, Written
<1> QED  BY <1>1, <1>2, <1>3, <1>4, RowStep

----------------------------------------------------------------------------
(* Copies.                                                                 *)

LEMMA GotFacts ==
    ASSUME TypeOK, PhaseInv, NEW t \in Threads
    PROVE  /\ Got(t) \subseteq Rows
           /\ Reads(t) => NextReq(t).row \notin Got(t)
           /\ \A r \in Got(t) : \E i \in 1..row_cnt[t] : query[t][i].row = r
<1>1. CASE Idle(t)
  <2>1. row_cnt[t] = 0
    BY <1>1 DEF PhaseInv, Phase
  <2> QED  BY <1>1, <2>1 DEF Got, Idle, Reads
<1>2. CASE ~ Idle(t)
  <2>1. /\ query[t] \in Queries /\ row_cnt[t] \in 0..Len(query[t]) /\ Len(query[t]) \in Nat
        /\ \A i \in 1..Len(query[t]) : query[t][i].row \in Rows
        /\ Reads(t) => /\ row_cnt[t] + 1 \in 1..Len(query[t])
                       /\ NextReq(t) = query[t][row_cnt[t] + 1]
    BY <1>2, Running
  <2>2. \A i \in 1..row_cnt[t] : i \in 1..Len(query[t]) /\ i # row_cnt[t] + 1
    BY <2>1
  <2>3. \A i, j \in 1..Len(query[t]) : query[t][i].row = query[t][j].row => i = j
    BY <2>1, QueryFacts
  <2> QED  BY <2>1, <2>2, <2>3 DEF Got
<1> QED  BY <1>1, <1>2

\* What has been copied remains a copy, whatever happens to the row.
LEMMA CopiedStays ==
    ASSUME TypeOK, PhaseInv, LockInv, LockTimeInv, NEW t \in Threads, Step(t),
           NEW r \in Rows, NEW n \in Nat, NEW img, NEW k \in 0..WordCnt,
           Copied(r, n, img, k)
    PROVE  Copied(r, n, img, k)'
<1>1. wts[r] \in Nat /\ wts'[r] \in Nat /\ wts[r] <= wts'[r]
  BY TimesGrow DEF TypeOK
<1>2. n <= wts[r] /\ n <= wts'[r]
  BY <1>1 DEF Copied
<1>3. CASE Still(r)
  BY <1>2, <1>3 DEF Still, NoNewInstall, Copied
<1>4. CASE Renewed(t, r)
  <2>1. \A u \in Threads : ~ Installing(u, r)'
    <3>1. \A u \in Threads : r \notin locks[u]
      BY <1>4 DEF LockInv, Renewed
    <3> QED  BY <1>4, <3>1, InstallLocked DEF Renewed, NoNewInstall
  <2>2. n = wts'[r] => n = wts[r]
    BY <1>1, <1>2
  <2>3. data'[r] = data[r]
    BY <1>4 DEF Renewed
  <2> QED  BY <1>2, <2>1, <2>2, <2>3 DEF Copied
<1>5. CASE Timed(t, r)
  <2>1. n < wts'[r]
    BY <1>1, <1>2, <1>5, TimesGrow
  <2> QED  BY <1>1, <1>2, <2>1 DEF Copied
<1>6. CASE Written(t, r)
  <2>1. Installing(t, r)
    BY <1>6 DEF Written, Install, Installing
  <2>2. n < wts[r] /\ wts'[r] = wts[r]
    BY <1>6, <2>1 DEF Copied, Written
  <2> QED  BY <1>1, <1>2, <2>2 DEF Copied
<1> QED  BY <1>3, <1>4, <1>5, <1>6, RowStep

\* A transaction that copies nothing now.
LEMMA HasCopiesFrame ==
    ASSUME TypeOK, PhaseInv, LockInv, LockTimeInv, CopyInv, NEW t \in Threads, Step(t),
           NEW u \in Threads, query'[u] = query[u], row_cnt'[u] = row_cnt[u],
           access_wts'[u] = access_wts[u], seen'[u] = seen[u],
           pc'[u] = "copy" => pc[u] = "copy" /\ v'[u] = v[u] /\ word'[u] = word[u]
    PROVE  HasCopies(u)'
<1>1. Got(u)' = Got(u) /\ NextReq(u)' = NextReq(u)
  BY DEF Got, NextReq
<1>2. WordCnt \in 0..WordCnt /\ word[u] \in 0..WordCnt /\ v[u].wts \in Nat
  BY BoundsAssumption DEF TypeOK
<1>3. HasCopies(u)
  BY DEF CopyInv
<1>4. ASSUME NEW r \in Got(u) PROVE Copied(r, access_wts[u][r], seen[u][r], WordCnt)'
  <2>1. r \in Rows
    BY GotFacts
  <2>2. access_wts[u][r] \in Nat
    BY <2>1 DEF TypeOK
  <2>3. PICK n \in Nat : n = access_wts[u][r]
    BY <2>2
  <2>4. PICK img : img = seen[u][r]
    OBVIOUS
  <2>5. Copied(r, n, img, WordCnt)'
    BY <1>2, <1>3, <2>1, <2>3, <2>4, CopiedStays DEF HasCopies
  <2>6. n = access_wts'[u][r] /\ img = seen'[u][r]
    BY <2>3, <2>4
  <2> QED  BY <2>5, <2>6 DEF Copied
<1>5. ASSUME pc'[u] = "copy"
      PROVE  Copied(NextReq(u).row, v[u].wts, seen[u][NextReq(u).row], word[u])'
  <2>1. pc[u] = "copy" /\ v'[u] = v[u] /\ word'[u] = word[u]
    BY <1>5
  <2>2. NextReq(u).row \in Rows
    BY <2>1, Running DEF Idle, Reads
  <2>3. PICK r \in Rows : r = NextReq(u).row
    BY <2>2
  <2>4. PICK n \in Nat, k \in 0..WordCnt : n = v[u].wts /\ k = word[u]
    BY <1>2
  <2>5. PICK img : img = seen[u][r]
    OBVIOUS
  <2>6. Copied(r, n, img, k)
    BY <1>3, <2>1, <2>3, <2>4, <2>5 DEF HasCopies
  <2>7. Copied(r, n, img, k)'
    BY <2>6, CopiedStays
  <2>8. /\ r = NextReq(u)'.row /\ n = v'[u].wts /\ img = seen'[u][NextReq(u)'.row]
        /\ k = word'[u]
    BY <1>1, <2>1, <2>3, <2>4, <2>5
  <2> QED  BY <2>7, <2>8 DEF Copied
<1> QED  BY <1>1, <1>4, <1>5 DEF HasCopies

\* Nobody writes a row that is not locked.
LEMMA FreeRow ==
    ASSUME TypeOK, PhaseInv, LockInv, NEW r \in Rows, ~ locked[r]
    PROVE  \A u \in Threads : ~ Installing(u, r) /\ r \notin ToInstall(u)
<1>1. \A u \in Threads : r \notin locks[u]
  BY DEF LockInv
<1> QED  BY <1>1, InstallLocked

LEMMA HasCopiesOwn ==
    ASSUME TypeOK, PhaseInv, LockInv, LockTimeInv, CopyInv, NEW t \in Threads, Step(t),
           TypeOK', PhaseInv'
    PROVE  HasCopies(t)'
<1> USE DEF rowVars, txnVars, histVars, Goto
<1>0. /\ pc \in [Threads -> Labels] /\ v \in [Threads -> [wts : Nat, delta : Nat]]
      /\ word \in [Threads -> 0..WordCnt] /\ row_cnt \in [Threads -> Nat]
      /\ query \in [Threads -> Queries \cup {<< >>}]
      /\ seen \in [Threads -> [Rows -> Images]]
      /\ access_wts \in [Threads -> [Rows -> Nat]]
  BY DEF TypeOK
<1>b. HasCopies(t)
  BY DEF CopyInv
<1>1. CASE Fetch(t)
  <2>1. pc'[t] = "read_word" /\ row_cnt'[t] = 0
    BY <1>0, <1>1 DEF Fetch, PhaseInv, Phase, Idle
  <2> QED  BY <2>1 DEF HasCopies, Got
<1>19. CASE Finish(t)
  <2>1. pc'[t] = "fetch" /\ row_cnt'[t] = 0
    BY <1>0, <1>19 DEF Finish
  <2> QED  BY <2>1 DEF HasCopies, Got
<1>2. CASE Stop(t)
  <2>1. /\ query' = query /\ row_cnt' = row_cnt /\ access_wts' = access_wts /\ seen' = seen
        /\ pc'[t] # "copy"
    BY <1>0, <1>2 DEF Stop
  <2> QED  BY <2>1, HasCopiesFrame
<1>6. CASE CommitTime(t)
  <2>1. /\ query' = query /\ row_cnt' = row_cnt /\ access_wts' = access_wts /\ seen' = seen
        /\ pc'[t] # "copy"
    BY <1>0, <1>6 DEF CommitTime
  <2> QED  BY <2>1, HasCopiesFrame
<1>7. CASE PreAbort(t)
  <2>1. /\ query' = query /\ row_cnt' = row_cnt /\ access_wts' = access_wts /\ seen' = seen
        /\ pc'[t] # "copy"
    BY <1>0, <1>7 DEF PreAbort
  <2> QED  BY <2>1, HasCopiesFrame
<1>8. CASE LockRow(t)
  <2>1. /\ query' = query /\ row_cnt' = row_cnt /\ access_wts' = access_wts /\ seen' = seen
        /\ pc'[t] # "copy"
    BY <1>0, <1>8 DEF LockRow
  <2> QED  BY <2>1, HasCopiesFrame
<1>9. CASE LockBusy(t)
  <2>1. /\ query' = query /\ row_cnt' = row_cnt /\ access_wts' = access_wts /\ seen' = seen
        /\ pc'[t] # "copy"
    BY <1>0, <1>9 DEF LockBusy
  <2> QED  BY <2>1, HasCopiesFrame
<1>10. CASE Unlock(t)
  <2>1. /\ query' = query /\ row_cnt' = row_cnt /\ access_wts' = access_wts /\ seen' = seen
        /\ pc'[t] # "copy"
    BY <1>0, <1>10 DEF Unlock
  <2> QED  BY <2>1, HasCopiesFrame
<1>11. CASE BackOff(t)
  <2>1. /\ query' = query /\ row_cnt' = row_cnt /\ access_wts' = access_wts /\ seen' = seen
        /\ pc'[t] # "copy"
    BY <1>0, <1>11 DEF BackOff
  <2> QED  BY <2>1, HasCopiesFrame
<1>12. CASE Locked(t)
  <2>1. /\ query' = query /\ row_cnt' = row_cnt /\ access_wts' = access_wts /\ seen' = seen
        /\ pc'[t] # "copy"
    BY <1>0, <1>12 DEF Locked
  <2> QED  BY <2>1, HasCopiesFrame
<1>13. CASE Validate(t)
  <2>1. /\ query' = query /\ row_cnt' = row_cnt /\ access_wts' = access_wts /\ seen' = seen
        /\ pc'[t] # "copy"
    BY <1>0, <1>13 DEF Validate, Passed, Failed
  <2> QED  BY <2>1, HasCopiesFrame
<1>14. CASE Renew(t)
  <2>1. /\ query' = query /\ row_cnt' = row_cnt /\ access_wts' = access_wts /\ seen' = seen
        /\ pc'[t] # "copy"
    BY <1>0, <1>14 DEF Renew, Passed, Failed
  <2> QED  BY <2>1, HasCopiesFrame
<1>15. CASE Commit(t)
  <2>1. /\ query' = query /\ row_cnt' = row_cnt /\ access_wts' = access_wts /\ seen' = seen
        /\ pc'[t] # "copy"
    BY <1>0, <1>15 DEF Commit
  <2> QED  BY <2>1, HasCopiesFrame
<1>16. CASE SetWts(t)
  <2>1. /\ query' = query /\ row_cnt' = row_cnt /\ access_wts' = access_wts /\ seen' = seen
        /\ pc'[t] # "copy"
    BY <1>0, <1>16 DEF SetWts
  <2> QED  BY <2>1, HasCopiesFrame
<1>17. CASE Install(t)
  <2>1. /\ query' = query /\ row_cnt' = row_cnt /\ access_wts' = access_wts /\ seen' = seen
        /\ pc'[t] # "copy"
    BY <1>0, <1>17 DEF Install
  <2> QED  BY <2>1, HasCopiesFrame
<1>18. CASE Release(t)
  <2>1. /\ query' = query /\ row_cnt' = row_cnt /\ access_wts' = access_wts /\ seen' = seen
        /\ pc'[t] # "copy"
    BY <1>0, <1>18 DEF Release
  <2> QED  BY <2>1, HasCopiesFrame
<1>3. CASE ReadWord(t)
  <2>1. PICK r \in Rows : r = NextReq(t).row /\ ~ locked[r]
    BY <1>3, Running DEF ReadWord, Idle, Reads
  <2>2. /\ pc'[t] = "copy" /\ v'[t].wts = wts[r] /\ word'[t] = 0 /\ wts' = wts
        /\ NextReq(t)' = NextReq(t)
    BY <1>0, <1>3, <2>1 DEF ReadWord, Word, NextReq, PhaseInv, Phase
  <2>3. Still(r)
    <3>1. delta' = delta /\ data' = data
      BY <1>3 DEF ReadWord
    <3> QED  BY <2>2, <3>1, StillNext
  <2>4. \A u \in Threads : ~ Installing(u, r)'
    BY <2>1, <2>3, FreeRow DEF Still, NoNewInstall
  <2>5. Copied(NextReq(t).row, v[t].wts, seen[t][NextReq(t).row], word[t])'
    <3>1. wts[r] \in Nat
      BY DEF TypeOK
    <3> QED  BY <2>1, <2>2, <2>4, <3>1 DEF Copied
  <2>6. Got(t)' = Got(t) /\ access_wts' = access_wts /\ seen' = seen
    BY <1>3 DEF ReadWord, Got
  <2>7. \A s \in Got(t) : Copied(s, access_wts[t][s], seen[t][s], WordCnt)'
    <3> TAKE s \in Got(t)
    <3>1. Copied(s, access_wts[t][s], seen[t][s], WordCnt) /\ s \in Rows
      BY <1>b, GotFacts DEF HasCopies
    <3>2. Still(s)
      BY <1>3, <2>2, StillNext DEF ReadWord
    <3> QED  BY <2>6, <3>1, <3>2 DEF Still, NoNewInstall, Copied
  <2> QED  BY <2>5, <2>6, <2>7 DEF HasCopies
<1>4. CASE Copy(t)
  <2>1. PICK r \in Rows : r = NextReq(t).row /\ r \notin Got(t)
    BY <1>4, Running, GotFacts DEF Copy, Idle, Reads
  <2>2. /\ pc[t] = "copy" /\ pc'[t] = "copy" /\ v' = v /\ wts' = wts /\ delta' = delta
        /\ data' = data /\ NextReq(t)' = NextReq(t) /\ Got(t)' = Got(t)
        /\ access_wts' = access_wts /\ word'[t] = word[t] + 1 /\ word[t] + 1 \in 1..WordCnt
        /\ seen' = [seen EXCEPT ![t][r][word[t] + 1] = data[r][word[t] + 1]]
    BY <1>0, <1>4, <2>1, BoundsAssumption DEF Copy, NextReq, Got
  <2>3. \A s \in Rows : Still(s)
    BY <2>2, StillNext
  <2>4. \A s \in Got(t) : Copied(s, access_wts[t][s], seen[t][s], WordCnt)'
    <3> TAKE s \in Got(t)
    <3>1. Copied(s, access_wts[t][s], seen[t][s], WordCnt) /\ s \in Rows
      BY <1>b, GotFacts DEF HasCopies
    <3>2. seen'[t][s] = seen[t][s]
      BY <1>0, <2>1, <2>2
    <3>3. Still(s)
      BY <2>3, <3>1
    <3> QED  BY <2>2, <3>1, <3>2, <3>3 DEF Still, NoNewInstall, Copied
  <2>5. Copied(NextReq(t).row, v[t].wts, seen[t][NextReq(t).row], word[t])'
    <3>1. Copied(r, v[t].wts, seen[t][r], word[t])
      BY <1>b, <2>1, <2>2 DEF HasCopies
    <3>2. seen'[t][r] = [seen[t][r] EXCEPT ![word[t] + 1] = data[r][word[t] + 1]]
      BY <1>0, <2>2
    <3>3. seen[t][r] \in Images
      BY <1>0
    <3>4. ASSUME \A w \in 1..word[t] : seen[t][r][w] = data[r][w]
          PROVE  \A w \in 1..(word[t] + 1) : seen'[t][r][w] = data[r][w]
      <4> TAKE w \in 1..(word[t] + 1)
      <4>1. w \in Words /\ word[t] \in Nat
        <5>1. word[t] \in 0..WordCnt /\ WordCnt \in Nat
          BY <1>0, BoundsAssumption
        <5> QED  BY <2>2, <5>1 DEF Words
      <4>2. CASE w = word[t] + 1
        BY <3>2, <3>3, <4>1, <4>2 DEF Images
      <4>3. CASE w # word[t] + 1
        BY <3>2, <3>3, <3>4, <4>1, <4>3 DEF Images
      <4> QED  BY <4>2, <4>3
    <3>5. Still(r)
      BY <2>3
    <3>6. Copied(r, v[t].wts, seen[t][r], word[t])'
      BY <2>2, <3>1, <3>4, <3>5 DEF Still, NoNewInstall, Copied
    <3> QED  BY <2>1, <2>2, <3>6 DEF Copied
  <2> QED  BY <2>2, <2>4, <2>5 DEF HasCopies
<1>5. CASE Recheck(t)
  <2>1. PICK r \in Rows : r = NextReq(t).row /\ r \notin Got(t)
    BY <1>5, Running, GotFacts DEF Recheck, Idle, Reads
  <2>2. /\ pc[t] = "copy" /\ pc'[t] # "copy" /\ wts' = wts /\ delta' = delta /\ data' = data
        /\ seen' = seen /\ query' = query /\ word[t] = WordCnt /\ pc'[t] # "install"
    BY <1>0, <1>5 DEF Recheck
  <2>3. \A s \in Rows : Still(s)
    BY <2>2, StillNext
  <2>4. CASE row_cnt' = row_cnt /\ access_wts' = access_wts
    BY <2>2, <2>4, HasCopiesFrame
  <2>5. CASE /\ wts[r] = v[t].wts /\ ~ locked[r]
             /\ access_wts' = [access_wts EXCEPT ![t][r] = v[t].wts]
             /\ row_cnt' = [row_cnt EXCEPT ![t] = @ + 1]
    <3>1. Got(t)' = Got(t) \cup {r}
      <4>1. row_cnt'[t] = row_cnt[t] + 1 /\ row_cnt[t] \in Nat
        BY <1>0, <2>5
      <4>2. 1..(row_cnt[t] + 1) = (1..row_cnt[t]) \cup {row_cnt[t] + 1}
        BY <4>1
      <4> QED  BY <2>1, <2>2, <4>1, <4>2 DEF Got, NextReq
    <3>2. access_wts'[t][r] = v[t].wts /\ \A s \in Got(t) : access_wts'[t][s] = access_wts[t][s]
      BY <1>0, <2>1, <2>5, GotFacts
    <3>3. \A s \in Got(t) : Copied(s, access_wts[t][s], seen[t][s], WordCnt)'
      <4> TAKE s \in Got(t)
      <4>1. Copied(s, access_wts[t][s], seen[t][s], WordCnt) /\ s \in Rows
        BY <1>b, GotFacts DEF HasCopies
      <4>2. Still(s) /\ access_wts'[t][s] = access_wts[t][s]
        BY <2>3, <3>2, <4>1
      <4> QED  BY <2>2, <4>1, <4>2 DEF Still, NoNewInstall, Copied
    <3>4. Copied(r, access_wts[t][r], seen[t][r], WordCnt)'
      <4>1. Copied(r, v[t].wts, seen[t][r], WordCnt)
        BY <1>b, <2>1, <2>2 DEF HasCopies
      <4>2. Still(r) /\ access_wts'[t][r] = v[t].wts
        BY <2>3, <3>2
      <4> QED  BY <2>2, <4>1, <4>2 DEF Still, NoNewInstall, Copied
    <3> QED  BY <2>2, <3>1, <3>3, <3>4 DEF HasCopies
  <2> QED  BY <1>5, <2>1, <2>4, <2>5 DEF Recheck
<1> QED  BY <1>1, <1>2, <1>3, <1>4, <1>5, <1>6, <1>7, <1>8, <1>9, <1>10, <1>11, <1>12, <1>13, <1>14, <1>15, <1>16, <1>17, <1>18, <1>19 DEF Step

LEMMA CopyNext ==
    ASSUME TypeOK, PhaseInv, LockInv, LockTimeInv, CopyInv, NEW t \in Threads, Step(t),
           TypeOK', PhaseInv'
    PROVE  CopyInv'
<1> SUFFICES ASSUME NEW u \in Threads PROVE HasCopies(u)'
  BY DEF CopyInv
<1>1. CASE u = t
  BY <1>1, HasCopiesOwn
<1>2. CASE u # t
  BY <1>2, Frame, HasCopiesFrame
<1> QED  BY <1>1, <1>2

----------------------------------------------------------------------------
(* Whole rows and whole copies.                                            *)

LEMMA EqualImages ==
    ASSUME NEW a \in Images, NEW b \in Images, \A w \in 1..WordCnt : a[w] = b[w]
    PROVE  a = b
<1>1. \A w \in Words : a[w] = b[w]
  BY DEF Words
<1> QED  BY <1>1 DEF Images

\* The step that ends an installation.
LEMMA InstallEnds ==
    ASSUME TypeOK, PhaseInv, NEW t \in Threads, Step(t), NEW u \in Threads, NEW r \in Rows,
           Installing(u, r), ~ Installing(u, r)'
    PROVE  u = t /\ Release(t) /\ word[t] = WordCnt
<1>1. u = t
  BY OtherInstalls
<1>2. pc[t] = "install" /\ r = NextRelease(t)
  BY <1>1 DEF Installing
<1>3. Install(t) \/ Release(t)
  BY <1>2 DEF Step, Fetch, Stop, ReadWord, Copy, Recheck, CommitTime, PreAbort, LockRow,
              LockBusy, Unlock, BackOff, Locked, Validate, Renew, Commit, SetWts, Finish
<1>4. ~ Install(t)
  <2> SUFFICES ASSUME Install(t) PROVE FALSE
    OBVIOUS
  <2>1. pc' = pc /\ locks' = locks
    BY DEF Install
  <2> QED  BY <1>1, <1>2, <2>1 DEF Installing, NextRelease
<1> QED  BY <1>1, <1>3, <1>4 DEF Release

LEMMA InstalledRow ==
    ASSUME TypeOK, PhaseInv, WholeRows, NEW t \in Threads, NEW r \in Rows,
           Installing(t, r), word[t] = WordCnt
    PROVE  data[r] = Image(id[t]) /\ id[t] \in Values
<1>1. id[t] \in 1..MaxTxn
  BY Running DEF Installing, Idle
<1>2. id[t] \in Values /\ Image(id[t]) \in Images /\ \A w \in 1..WordCnt : Image(id[t])[w] = id[t]
  BY <1>1, ImageFacts
<1>3. data[r] \in Images
  BY DEF TypeOK
<1>4. \A w \in 1..WordCnt : data[r][w] = id[t]
  BY DEF WholeRows
<1> QED  BY <1>2, <1>3, <1>4, EqualImages

LEMMA WholeRowsNext ==
    ASSUME TypeOK, PhaseInv, LockInv, LockTimeInv, WholeRows, NEW t \in Threads, Step(t)
    PROVE  WholeRows'
<1>1. ASSUME NEW r \in Rows, \A u \in Threads : ~ Installing(u, r)'
      PROVE  \E val \in Values : data'[r] = Image(val)
  <2>1. CASE \A u \in Threads : ~ Installing(u, r)
    <3>1. data'[r] = data[r]
      <4>1. ~ Written(t, r)
        BY <2>1 DEF Written, Install, Installing
      <4> QED  BY <4>1, RowStep DEF Still, Renewed, Timed
    <3>2. \E val \in Values : data[r] = Image(val)
      BY <2>1 DEF WholeRows
    <3> QED  BY <3>1, <3>2
  <2>2. ASSUME NEW u \in Threads, Installing(u, r)
        PROVE  \E val \in Values : data'[r] = Image(val)
    <3>1. u = t /\ Release(t) /\ word[t] = WordCnt
      BY <1>1, <2>2, InstallEnds
    <3>2. data[r] = Image(id[t]) /\ id[t] \in Values
      BY <2>2, <3>1, InstalledRow
    <3>3. data' = data
      BY <3>1 DEF Release
    <3> QED  BY <3>2, <3>3
  <2> QED  BY <2>1, <2>2
<1>2. ASSUME NEW u \in Threads, NEW r \in Rows, Installing(u, r)'
      PROVE  \A w \in 1..word'[u] : data'[r][w] = id'[u]
  <2>1. CASE u # t
    <3>1. Installing(u, r) /\ word'[u] = word[u] /\ id'[u] = id[u]
      BY <1>2, <2>1, OtherInstalls, Frame
    <3>2. data'[r] = data[r]
      BY <2>1, <3>1, InstallLocked, LockedStays
    <3> QED  BY <3>1, <3>2 DEF WholeRows
  <2>2. CASE u = t
    <3>1. pc'[t] = "install" /\ pc \in [Threads -> Labels]
      BY <1>2, <2>2 DEF Installing, TypeOK
    <3>2. SetWts(t) \/ Install(t)
      BY <3>1, RowStep DEF Step, Fetch, Stop, ReadWord, Copy, Recheck, CommitTime, PreAbort,
          LockRow, LockBusy, Unlock, BackOff, Locked, Validate, Renew, Passed, Failed, Commit,
          Release, Finish, Goto
    <3>3. CASE SetWts(t)
      <4>1. word'[t] = 0
        BY <3>3 DEF SetWts, PhaseInv, Phase
      <4> QED  BY <2>2, <4>1
    <3>4. CASE Install(t)
      <4>1. /\ word[t] \in Nat /\ word'[t] = word[t] + 1 /\ word[t] + 1 \in Words /\ id' = id
            /\ locks' = locks /\ pc[t] = "install"
        <5>1. word[t] \in 0..WordCnt /\ WordCnt \in Nat /\ word \in [Threads -> 0..WordCnt]
          BY BoundsAssumption DEF TypeOK
        <5> QED  BY <3>4, <5>1 DEF Install, Words, histVars
      <4>2. r = NextRelease(t) /\ Installing(t, r)
        BY <1>2, <2>2, <4>1 DEF Installing, NextRelease
      <4>3. data'[r] = [data[r] EXCEPT ![word[t] + 1] = id[t]]
        BY <3>4, <4>2 DEF Install, TypeOK
      <4>4. data[r] \in Images /\ \A w \in 1..word[t] : data[r][w] = id[t]
        BY <4>2 DEF TypeOK, WholeRows
      <4>5. \A w \in 1..(word[t] + 1) : data'[r][w] = id[t]
        <5> TAKE w \in 1..(word[t] + 1)
        <5>1. w \in Words
          BY <4>1, BoundsAssumption DEF Words
        <5>2. CASE w = word[t] + 1
          BY <4>3, <4>4, <5>1, <5>2 DEF Images
        <5>3. CASE w # word[t] + 1
          <6>1. w \in 1..word[t]
            BY <4>1, <5>3
          <6> QED  BY <4>3, <4>4, <5>1, <5>3, <6>1 DEF Images
        <5> QED  BY <5>2, <5>3
      <4> QED  BY <2>2, <4>1, <4>5
    <3> QED  BY <3>2, <3>3, <3>4
  <2> QED  BY <2>1, <2>2
<1> QED  BY <1>1, <1>2 DEF WholeRows

\* The copy that the second look at the word accepts is the row as it is.
LEMMA Accepted ==
    ASSUME TypeOK, PhaseInv, LockInv, CopyInv, NEW t \in Threads, Recheck(t),
           NEW r \in Rows, r = NextReq(t).row, wts[r] = v[t].wts, ~ locked[r]
    PROVE  seen[t][r] = data[r]
<1>1. pc[t] = "copy" /\ word[t] = WordCnt
  BY DEF Recheck
<1>2. Copied(r, v[t].wts, seen[t][r], WordCnt)
  BY <1>1 DEF CopyInv, HasCopies
<1>3. seen[t][r] \in Images /\ data[r] \in Images
  BY DEF TypeOK
<1>4. \A w \in 1..WordCnt : seen[t][r][w] = data[r][w]
  BY <1>2 DEF Copied
<1> QED  BY <1>3, <1>4, EqualImages

\* What a step adds to the copies of a transaction, and what it does to them.
LEMMA CopiesStep ==
    ASSUME TypeOK, PhaseInv, NEW t \in Threads, Step(t)
    PROVE  \/ /\ query'[t] = query[t] /\ row_cnt'[t] = row_cnt[t]
              /\ \A r \in Got(t) : seen'[t][r] = seen[t][r]
              /\ Got(t)' = Got(t)
           \/ row_cnt'[t] = 0 /\ Got(t)' = {} /\ (Fetch(t) \/ Finish(t))
           \/ /\ Recheck(t) /\ wts[NextReq(t).row] = v[t].wts /\ ~ locked[NextReq(t).row]
              /\ query'[t] = query[t] /\ row_cnt'[t] = row_cnt[t] + 1
              /\ seen'[t] = seen[t]
              /\ Got(t)' = Got(t) \cup {NextReq(t).row}
<1> USE DEF rowVars, txnVars, histVars
<1>0. /\ row_cnt \in [Threads -> Nat] /\ query \in [Threads -> Queries \cup {<< >>}]
      /\ seen \in [Threads -> [Rows -> Images]]
  BY DEF TypeOK
<1>1. CASE Fetch(t)
  <2>1. row_cnt'[t] = 0
    BY <1>1 DEF Fetch, PhaseInv, Phase, Idle
  <2> QED  BY <1>1, <2>1 DEF Got
<1>2. CASE Finish(t)
  <2>1. row_cnt'[t] = 0
    BY <1>0, <1>2 DEF Finish
  <2> QED  BY <1>2, <2>1 DEF Got
<1>3. CASE Copy(t)
  <2>1. PICK r \in Rows : r = NextReq(t).row /\ r \notin Got(t)
    BY <1>3, Running, GotFacts DEF Copy, Idle, Reads
  <2>2. /\ query' = query /\ row_cnt' = row_cnt
        /\ seen' = [seen EXCEPT ![t][r][word[t] + 1] = data[r][word[t] + 1]]
    BY <1>3, <2>1 DEF Copy
  <2>3. \A s \in Got(t) : seen'[t][s] = seen[t][s]
    BY <1>0, <2>1, <2>2, GotFacts
  <2> QED  BY <2>2, <2>3 DEF Got
<1>4. CASE Recheck(t)
  <2>1. query' = query /\ seen' = seen
    BY <1>4 DEF Recheck
  <2>2. CASE row_cnt' = row_cnt
    BY <2>1, <2>2 DEF Got
  <2>3. CASE row_cnt' # row_cnt
    <3>1. /\ wts[NextReq(t).row] = v[t].wts /\ ~ locked[NextReq(t).row]
          /\ row_cnt' = [row_cnt EXCEPT ![t] = @ + 1]
      BY <1>4, <2>3 DEF Recheck
    <3>2. row_cnt'[t] = row_cnt[t] + 1 /\ row_cnt[t] \in Nat
      BY <1>0, <3>1
    <3>3. 1..(row_cnt[t] + 1) = (1..row_cnt[t]) \cup {row_cnt[t] + 1}
      BY <3>2
    <3>4. Got(t)' = Got(t) \cup {NextReq(t).row}
      BY <2>1, <3>2, <3>3 DEF Got, NextReq
    <3> QED  BY <1>4, <2>1, <3>1, <3>2, <3>4
  <2> QED  BY <2>2, <2>3
<1>5. CASE ~ (Fetch(t) \/ Finish(t) \/ Copy(t) \/ Recheck(t))
  <2>1. query' = query /\ row_cnt' = row_cnt /\ seen' = seen
    BY <1>5 DEF Step, Stop, ReadWord, CommitTime, PreAbort, LockRow, LockBusy, Unlock, BackOff,
           Locked, Validate, Renew, Commit, SetWts, Install, Release
  <2> QED  BY <2>1 DEF Got
<1> QED  BY <1>1, <1>2, <1>3, <1>4, <1>5

LEMMA WholeCopiesNext ==
    ASSUME TypeOK, PhaseInv, LockInv, CopyInv, WholeRows, WholeCopies,
           NEW t \in Threads, Step(t)
    PROVE  WholeCopies'
<1> SUFFICES ASSUME NEW u \in Threads, NEW i \in 1..row_cnt'[u]
             PROVE  \E val \in Values : seen'[u][query'[u][i].row] = Image(val)
  BY DEF WholeCopies
<1>1. CASE u # t
  <2>1. row_cnt'[u] = row_cnt[u] /\ query'[u] = query[u] /\ seen'[u] = seen[u]
    BY <1>1, Frame
  <2> QED  BY <2>1 DEF WholeCopies
<1>2. CASE u = t
  <2>1. CASE /\ query'[t] = query[t] /\ row_cnt'[t] = row_cnt[t]
             /\ \A r \in Got(t) : seen'[t][r] = seen[t][r]
    <3>1. i \in 1..row_cnt[t] /\ query[t][i].row \in Got(t)
      BY <1>2, <2>1 DEF Got
    <3> QED  BY <1>2, <2>1, <3>1 DEF WholeCopies
  <2>2. CASE row_cnt'[t] = 0
    BY <1>2, <2>2
  <2>3. CASE /\ Recheck(t) /\ wts[NextReq(t).row] = v[t].wts /\ ~ locked[NextReq(t).row]
             /\ query'[t] = query[t] /\ row_cnt'[t] = row_cnt[t] + 1
             /\ seen'[t] = seen[t]
    <3>1. PICK r \in Rows : r = NextReq(t).row
      BY <2>3, Running DEF Recheck, Idle, Reads
    <3>2. seen[t][r] = data[r]
      BY <2>3, <3>1, Accepted
    <3>3. \E val \in Values : data[r] = Image(val)
      BY <2>3, <3>1, FreeRow DEF WholeRows
    <3>4. row_cnt[t] \in Nat
      BY DEF TypeOK
    <3>5. CASE i = row_cnt[t] + 1
      <4>1. query'[u][i].row = r /\ seen'[u][r] = seen[t][r]
        BY <1>2, <2>3, <3>1, <3>5 DEF NextReq
      <4> QED  BY <3>2, <3>3, <4>1
    <3>6. CASE i # row_cnt[t] + 1
      <4>1. i \in 1..row_cnt[t]
        BY <1>2, <2>3, <3>4, <3>6
      <4>2. \E val \in Values : seen[t][query[t][i].row] = Image(val)
        BY <4>1 DEF WholeCopies
      <4> QED  BY <1>2, <2>3, <4>2
    <3> QED  BY <3>5, <3>6
  <2> QED  BY <2>1, <2>2, <2>3, CopiesStep
<1> QED  BY <1>1, <1>2

LEMMA CInvInit == Init => CInv
<1> SUFFICES ASSUME Init PROVE CInv
  OBVIOUS
<1>1. TypeOK
  <2>1. settings \in [pre_abort : BOOLEAN, no_wait : BOOLEAN]
    BY SettingsAssumption DEF Init
  <2>2. Image(InitVal) \in Images /\ NoReads \in [Rows -> Images]
    BY ImageFacts DEF Values
  <2>3. 0 \in 0..MaxTxn /\ 0 \in 0..WordCnt /\ NoWord \in [wts : Nat, delta : Nat]
    BY BoundsAssumption DEF NoWord
  <2>4. << >> \in Seq(Entries)
    OBVIOUS
  <2> QED  BY <2>1, <2>2, <2>3, <2>4 DEF Init, TypeOK, Labels
<1>2. \A t \in Threads : /\ pc[t] = "fetch" /\ query[t] = << >> /\ row_cnt[t] = 0
                         /\ locks[t] = {} /\ checked[t] = 0 /\ word[t] = 0
  BY DEF Init
<1>3. PhaseInv
  BY <1>2 DEF PhaseInv, Phase, Idle, Reads
<1>4. LockInv
  BY <1>2 DEF LockInv, Init
<1>5. LockTimeInv
  BY <1>2 DEF LockTimeInv, LockTime, ToInstall, Installing
<1>6. CopyInv
  BY <1>2 DEF CopyInv, HasCopies, Got
<1>7. WholeRows
  <2>1. InitVal \in Values /\ \A r \in Rows : data[r] = Image(InitVal)
    BY DEF Init, Values
  <2> QED  BY <1>2, <2>1 DEF WholeRows, Installing
<1>8. WholeCopies
  BY <1>2 DEF WholeCopies
<1> QED  BY <1>1, <1>3, <1>4, <1>5, <1>6, <1>7, <1>8 DEF CInv

LEMMA CInvNext == CInv /\ [Next]_vars => CInv'
<1> SUFFICES ASSUME CInv, [Next]_vars PROVE CInv'
  OBVIOUS
<1>1. TypeOK /\ PhaseInv /\ LockInv /\ LockTimeInv /\ CopyInv /\ WholeRows /\ WholeCopies
  BY DEF CInv
<1>2. TypeOK' /\ PhaseInv'
  BY <1>1, TypeNext, PhaseNext
<1>3. ASSUME NEW t \in Threads, Step(t) PROVE CInv'
  <2>1. LockInv' /\ LockTimeInv'
    BY <1>1, <1>3, LockNext, LockTimeNext
  <2>2. CopyInv'
    BY <1>1, <1>2, <1>3, CopyNext
  <2>3. WholeRows' /\ WholeCopies'
    BY <1>1, <1>3, WholeRowsNext, WholeCopiesNext
  <2> QED  BY <1>2, <2>1, <2>2, <2>3 DEF CInv
<1>4. CASE UNCHANGED vars
  <2>1. /\ LockInv' /\ LockTimeInv'
    BY <1>1, <1>4 DEF vars, rowVars, txnVars, LockInv, LockTimeInv, LockTime, ToInstall, Installing,
                      NextRelease, rts
  <2>2. CopyInv'
    <3> SUFFICES ASSUME NEW u \in Threads PROVE HasCopies(u)'
      BY DEF CopyInv
    <3>1. HasCopies(u)
      BY <1>1 DEF CopyInv
    <3>2. \A x \in Threads : \A r : Installing(x, r)' = Installing(x, r)
      BY <1>4 DEF vars, rowVars, txnVars, Installing, NextRelease
    <3>3. Got(u)' = Got(u) /\ NextReq(u)' = NextReq(u)
      BY <1>4 DEF vars, txnVars, Got, NextReq
    <3>4. UNCHANGED <<pc, wts, data, v, word, seen, access_wts>>
      BY <1>4 DEF vars, rowVars, txnVars
    <3> QED  BY <3>1, <3>2, <3>3, <3>4 DEF HasCopies, Copied
  <2>3. WholeRows' /\ WholeCopies'
    BY <1>1, <1>4 DEF vars, rowVars, txnVars, histVars, Installing, NextRelease, WholeRows,
                      WholeCopies
  <2> QED  BY <1>2, <2>1, <2>2, <2>3 DEF CInv
<1> QED  BY <1>3, <1>4 DEF Next, Terminated

\* No transaction ever works on a torn copy of a row, for every number of threads,
\* rows and words: Row_tictoc::access accepts what it has copied only if no
\* write_data, which moves the time before it touches the data, has begun since.
THEOREM WholeCopiesTheorem == Spec => []WholeCopies
<1>1. CInv => WholeCopies
  BY DEF CInv
<1> QED  BY CInvInit, CInvNext, <1>1, PTL DEF Spec

LEMMA RtsNext ==
    ASSUME TypeOK', NEW r \in Rows
    PROVE  rts(r)' \in Nat
<1>1. wts'[r] \in Nat /\ delta'[r] \in Nat
  BY DEF TypeOK
<1> QED  BY <1>1 DEF rts

\* A step that shortens a lease is a swap of try_renew that came upon a lease longer
\* than it needs.
LEMMA CutByRenew ==
    ASSUME CInv, NEW t \in Threads, Step(t), NEW r \in Rows, ~ (rts(r)' >= rts(r))
    PROVE  pc[t] = "renew" /\ NextCheck(t).row = r /\ v[t].delta > NewDelta(t, r)
<1>0. TypeOK /\ PhaseInv /\ LockTimeInv
  BY DEF CInv
<1>1. wts[r] \in Nat /\ delta[r] \in Nat /\ commit_wts[t] \in Nat /\ access_wts[t][r] \in Nat
  BY <1>0 DEF TypeOK
<1>2. ~ Timed(t, r)
  BY <1>0, <1>1, TimesGrow DEF rts, Timed, SetWts
<1>3. ~ Still(r) /\ ~ Written(t, r)
  BY <1>1 DEF Still, Written, rts
<1>4. Renewed(t, r)
  BY <1>0, <1>2, <1>3, RowStep
<1>5. wts[r] = access_wts[t][r] /\ wts'[r] + delta'[r] = commit_wts[t]
  BY <1>0, <1>4, RenewFacts
<1>6. pc[t] = "renew" /\ NextCheck(t).row = r /\ v[t].delta = delta[r]
  BY <1>4 DEF Renewed, Word
<1> QED  BY <1>1, <1>5, <1>6 DEF rts, NewDelta

\* A lease is only ever shortened by a try_renew whose swap has failed and that goes
\* on with a lease longer than it needs: no writer, no first swap and no change of
\* base does, for every number of threads, rows and transactions and every width of
\* a lease.
THEOREM LeaseCutOnRetryTheorem == Spec => LeaseCutOnRetry
<1>1. CInv /\ [Next]_vars =>
          [\A r \in Rows : rts(r)' < rts(r) =>
              \E t \in Threads : /\ pc[t] = "renew" /\ NextCheck(t).row = r
                                /\ v[t].delta > NewDelta(t, r)]_vars
  <2> SUFFICES ASSUME CInv, Next, ~ UNCHANGED vars, NEW r \in Rows, rts(r)' < rts(r)
               PROVE  \E t \in Threads : /\ pc[t] = "renew" /\ NextCheck(t).row = r
                                        /\ v[t].delta > NewDelta(t, r)
    OBVIOUS
  <2>1. PICK t \in Threads : Step(t)
    BY DEF Next, Terminated
  <2>2. ~ (rts(r)' >= rts(r))
    <3>1. TypeOK'
      BY CInvNext DEF CInv
    <3> QED  BY <3>1, RtsFacts, RtsNext DEF CInv
  <2> QED  BY <2>1, <2>2, CutByRenew
<1> QED  BY CInvInit, CInvNext, <1>1, PTL DEF Spec, LeaseCutOnRetry

----------------------------------------------------------------------------
(* What the log says of a row.  Versions are told apart by the time of the *)
(* transaction that wrote them.                                            *)

\* The committed writers of r.
WritersOf(r) == {j \in DOMAIN log : r \in log[j].writes}

\* img is what r holds from time lo, or before, to time hi in the order of commit times.
Lasts(r, img, lo, hi) ==
    \/ img = Image(InitVal) /\ \A j \in WritersOf(r) : log[j].ts > hi
    \/ \E k \in WritersOf(r) :
          /\ img = Image(log[k].txn) /\ log[k].ts <= lo
          /\ \A j \in WritersOf(r) : j = k \/ log[j].ts < log[k].ts \/ log[j].ts > hi

\* A transaction that installs is in the log.
Logged(t) ==
    pc[t] \in {"write", "install"} =>
        \E k \in DOMAIN log : /\ log[k].txn = id[t] /\ log[k].ts = commit_wts[t]
                              /\ log[k].writes = WriteSet(t)

\* n is the time of a transaction that has still to write r.
Pending(n, r) == \E t \in Threads : r \in ToInstall(t) /\ n = commit_wts[t]

\* A row's time is that of its last writer, but for the one that has it to write yet.
RowTimes(r) ==
    /\ \A j \in WritersOf(r) : log[j].ts <= wts[r] \/ Pending(log[j].ts, r)
    /\ \A j, k \in WritersOf(r) : log[j].ts = log[k].ts => j = k

\* What a row holds lasts as long as its lease.
RowVersion(r) ==
    (\A u \in Threads : ~ Installing(u, r)) => Lasts(r, data[r], wts[r], rts(r))

HistoryInv ==
    /\ \A t \in Threads : Logged(t)
    /\ \A r \in Rows : RowTimes(r) /\ RowVersion(r)

\* What a transaction has copied lasts as long as the lease it has seen, and the
\* lease has not been shortened since.
Leased(t) ==
    /\ \A r \in Got(t) : /\ access_wts[t][r] <= access_rts[t][r]
                         /\ access_rts[t][r] <= rts(r)
                         /\ Lasts(r, seen[t][r], access_wts[t][r], access_rts[t][r])
    /\ pc[t] = "copy" => v[t].wts + v[t].delta <= rts(NextReq(t).row)

\* A transaction has looked at no other rows.
Seen(t) ==
    \A r \in Rows : seen[t][r] # NoImage =>
        r \in Got(t) \/ (Reads(t) /\ r = NextReq(t).row)

\* What t has read of r is what r holds at t's commit time.
Sure(t, r) ==
    /\ commit_wts[t] <= rts(r)
    /\ Lasts(r, seen[t][r], access_wts[t][r], commit_wts[t])

\* The leases renewed so far reach the commit time.
Validated(t) ==
    pc[t] \in {"validate", "renew"} =>
        \A i \in 1..checked[t] : query[t][i].type = "RD" => Sure(t, query[t][i].row)

LeaseInv == \A t \in Threads : Leased(t) /\ Seen(t) /\ Validated(t)

Accessed(i) == {r \in Rows : log[i].reads[r] # NoImage}

\* A committed transaction's leases reach its commit time.
LogLease ==
    \A i \in DOMAIN log : \A r \in Accessed(i) :
        log[i].ts <= rts(r) \/ Pending(log[i].ts, r)

\* img is what r holds before the transaction at place i, in the order of commit times.
Before(i, r, img) ==
    \/ img = Image(InitVal) /\ Writers(i, r) = {}
    \/ \E k \in Writers(i, r) :
          /\ img = Image(log[k].txn)
          /\ \A l \in Writers(i, r) : l = k \/ Precedes(l, k)

SerialInv == \A i \in DOMAIN log : \A r \in Accessed(i) : Before(i, r, log[i].reads[r])

SInv == CInv /\ HistoryInv /\ LeaseInv /\ LogLease /\ SerialInv

\* The step shortens no lease.
Kept == \A r \in Rows : rts(r)' >= rts(r)

LEMMA LogFacts ==
    ASSUME TypeOK
    PROVE  /\ DOMAIN log = 1..Len(log) /\ Len(log) \in Nat
           /\ \A j \in DOMAIN log : log[j].ts \in Nat /\ log[j].txn \in 1..MaxTxn
           /\ \A r : \A j \in WritersOf(r) : j \in DOMAIN log /\ log[j].ts \in Nat
<1>1. log \in Seq(Entries)
  BY DEF TypeOK
<1>2. DOMAIN log = 1..Len(log) /\ Len(log) \in Nat /\ \A j \in DOMAIN log : log[j] \in Entries
  BY <1>1
<1> QED  BY <1>2 DEF Entries, WritersOf

LEMMA LastsShorter ==
    ASSUME TypeOK, NEW r, NEW img, NEW lo \in Nat, NEW hi \in Nat, Lasts(r, img, lo, hi),
           NEW hi2 \in Nat, hi2 <= hi
    PROVE  Lasts(r, img, lo, hi2)
<1>1. \A j \in WritersOf(r) : log[j].ts > hi => log[j].ts > hi2
  BY LogFacts
<1> QED  BY <1>1 DEF Lasts

\* With no later writer a version lasts as long as one likes.
LEMMA LastsLonger ==
    ASSUME TypeOK, NEW r, NEW img, NEW lo \in Nat, NEW hi \in Nat, Lasts(r, img, lo, hi),
           \A j \in WritersOf(r) : log[j].ts <= hi,
           NEW lo2 \in Nat, lo <= lo2, NEW hi2 \in Nat
    PROVE  Lasts(r, img, lo2, hi2)
<1>1. \A j \in WritersOf(r) : ~ (log[j].ts > hi)
  BY LogFacts
<1>2. \A j \in WritersOf(r) : log[j].ts <= lo => log[j].ts <= lo2
  BY LogFacts
<1>3. CASE img = Image(InitVal) /\ \A j \in WritersOf(r) : log[j].ts > hi
  BY <1>1, <1>3 DEF Lasts
<1>4. ASSUME NEW k \in WritersOf(r), img = Image(log[k].txn), log[k].ts <= lo,
             \A j \in WritersOf(r) : j = k \/ log[j].ts < log[k].ts \/ log[j].ts > hi
      PROVE  Lasts(r, img, lo2, hi2)
  BY <1>1, <1>2, <1>4 DEF Lasts
<1> QED  BY <1>3, <1>4 DEF Lasts

LEMMA LogStep ==
    ASSUME NEW t \in Threads, Step(t)
    PROVE  log' = log \/ Commit(t)
BY DEF Step, Fetch, Stop, ReadWord, Copy, Recheck, CommitTime, PreAbort, LockRow, LockBusy,
       Unlock, BackOff, Locked, Validate, Renew, SetWts, Install, Release, Finish, histVars

\* A transaction commits with its write set locked, its time past the leases of
\* those rows, and every row it reads validated.
LEMMA CommitFacts ==
    ASSUME CInv, NEW t \in Threads, Commit(t)
    PROVE  /\ pc[t] = "validate" /\ checked[t] = Len(query[t])
           /\ wts' = wts /\ delta' = delta /\ data' = data
           /\ commit_wts' = commit_wts /\ commit_wts[t] \in Nat
           /\ locks[t] = WriteSet(t) /\ ToInstall(t)' = WriteSet(t)
           /\ \A r \in WriteSet(t) : /\ r \in Rows /\ rts(r) < commit_wts[t]
                                     /\ wts[r] = access_wts[t][r]
                                     /\ \A u \in Threads : r \notin ToInstall(u)
<1>0. TypeOK /\ PhaseInv /\ LockInv /\ LockTimeInv
  BY DEF CInv
<1>1. /\ pc[t] = "validate" /\ checked[t] = Len(query[t]) /\ pc'[t] = "write"
      /\ wts' = wts /\ delta' = delta /\ data' = data /\ commit_wts' = commit_wts
      /\ locks' = locks
  BY <1>0 DEF Commit, TypeOK, rowVars, Goto
<1>2. locks[t] = WriteSet(t) /\ commit_wts[t] \in Nat /\ WriteSet(t) \subseteq Rows
  BY <1>0, <1>1 DEF PhaseInv, Phase, TypeOK
<1>3. ToInstall(t)' = WriteSet(t)
  BY <1>1, <1>2 DEF ToInstall
<1>4. \A r \in WriteSet(t) : rts(r) < commit_wts[t] /\ wts[r] = access_wts[t][r]
  BY <1>0, <1>1, <1>2 DEF LockTimeInv, LockTime
<1>5. ASSUME NEW r \in WriteSet(t), NEW u \in Threads PROVE r \notin ToInstall(u)
  <2>1. CASE u = t
    BY <1>1, <2>1 DEF ToInstall
  <2>2. CASE u # t
    <3>1. r \notin locks[u]
      BY <1>0, <1>2, <1>5, <2>2 DEF LockInv
    <3> QED  BY <1>0, <3>1, InstallLocked
  <2> QED  BY <2>1, <2>2
<1> QED  BY <1>1, <1>2, <1>3, <1>4, <1>5

\* The entry that a commit adds to the log.
LEMMA CommitLog ==
    ASSUME CInv, NEW t \in Threads, Commit(t)
    PROVE  /\ DOMAIN log' = DOMAIN log \cup {Len(log) + 1}
           /\ Len(log) + 1 \notin DOMAIN log /\ \A j \in DOMAIN log : j < Len(log) + 1
           /\ \A j \in DOMAIN log : log'[j] = log[j]
           /\ log'[Len(log) + 1].txn = id[t] /\ log'[Len(log) + 1].ts = commit_wts[t]
           /\ log'[Len(log) + 1].reads = seen[t] /\ log'[Len(log) + 1].writes = WriteSet(t)
<1> DEFINE e == [txn |-> id[t], ts |-> commit_wts[t], reads |-> seen[t], writes |-> WriteSet(t)]
<1>1. log' = Append(log, e)
  BY DEF Commit
<1>2. log \in Seq(Entries) /\ Len(log) \in Nat /\ DOMAIN log = 1..Len(log)
  BY LogFacts DEF CInv, TypeOK
<1>3. e.txn = id[t] /\ e.ts = commit_wts[t] /\ e.reads = seen[t] /\ e.writes = WriteSet(t)
  OBVIOUS
<1> HIDE DEF e
<1>4. /\ DOMAIN log' = 1..(Len(log) + 1) /\ log'[Len(log) + 1] = e
      /\ \A j \in 1..Len(log) : log'[j] = log[j]
  BY <1>1, <1>2
<1>5. 1..(Len(log) + 1) = (1..Len(log)) \cup {Len(log) + 1}
  BY <1>2
<1>6. \A j \in 1..Len(log) : j < Len(log) + 1
  BY <1>2
<1> QED  BY <1>2, <1>3, <1>4, <1>5, <1>6

LEMMA LogGrows ==
    ASSUME CInv, NEW t \in Threads, Step(t)
    PROVE  \A j \in DOMAIN log : j \in DOMAIN log' /\ log'[j] = log[j]
BY LogStep, CommitLog

LEMMA CommitWriters ==
    ASSUME CInv, NEW t \in Threads, Commit(t), NEW r
    PROVE  /\ WritersOf(r)' = IF r \in WriteSet(t) THEN WritersOf(r) \cup {Len(log) + 1}
                              ELSE WritersOf(r)
           /\ \A j \in WritersOf(r) : log'[j] = log[j] /\ j # Len(log) + 1
BY CommitLog DEF WritersOf

\* Nobody writes below a lease.
LEMMA LastsStays ==
    ASSUME CInv, NEW t \in Threads, Step(t), NEW r \in Rows, NEW img, NEW lo \in Nat,
           NEW hi \in Nat, Lasts(r, img, lo, hi), hi <= rts(r)
    PROVE  Lasts(r, img, lo, hi)'
<1>0. TypeOK
  BY DEF CInv
<1>1. CASE log' = log
  BY <1>1 DEF Lasts, WritersOf
<1>2. CASE Commit(t)
  <2>1. /\ WritersOf(r)' = IF r \in WriteSet(t) THEN WritersOf(r) \cup {Len(log) + 1}
                           ELSE WritersOf(r)
        /\ \A j \in WritersOf(r) : log'[j] = log[j]
    BY <1>2, CommitWriters
  <2>2. r \in WriteSet(t) => log'[Len(log) + 1].ts > hi
    <3>1. rts(r) \in Nat /\ commit_wts[t] \in Nat
      BY <1>0, RtsFacts DEF TypeOK
    <3>2. r \in WriteSet(t) => rts(r) < commit_wts[t]
      BY <1>2, CommitFacts
    <3>3. log'[Len(log) + 1].ts = commit_wts[t]
      BY <1>2, CommitLog
    <3> QED  BY <3>1, <3>2, <3>3
  <2>3. CASE img = Image(InitVal) /\ \A j \in WritersOf(r) : log[j].ts > hi
    <3>1. \A j \in WritersOf(r)' : log'[j].ts > hi
      BY <2>1, <2>2, <2>3
    <3> QED  BY <2>3, <3>1 DEF Lasts
  <2>4. ASSUME NEW k \in WritersOf(r), img = Image(log[k].txn), log[k].ts <= lo,
               \A j \in WritersOf(r) : j = k \/ log[j].ts < log[k].ts \/ log[j].ts > hi
        PROVE  Lasts(r, img, lo, hi)'
    <3>1. k \in WritersOf(r)' /\ log'[k] = log[k]
      BY <2>1
    <3>2. \A j \in WritersOf(r)' : j = k \/ log'[j].ts < log'[k].ts \/ log'[j].ts > hi
      BY <2>1, <2>2, <2>4
    <3> QED  BY <2>4, <3>1, <3>2 DEF Lasts
  <2> QED  BY <2>3, <2>4 DEF Lasts
<1> QED  BY <1>1, <1>2, LogStep

\* The rows to write get fewer by being written.
LEMMA ToInstallStep ==
    ASSUME CInv, NEW t \in Threads, Step(t), NEW u \in Threads, NEW r \in ToInstall(u)
    PROVE  \/ r \in ToInstall(u)' /\ commit_wts'[u] = commit_wts[u]
           \/ u = t /\ Timed(t, r)
<1>0. TypeOK /\ PhaseInv
  BY DEF CInv
<1>1. CASE u # t
  BY <1>0, <1>1, OtherInstalls, Frame
<1>2. CASE u = t
  <2>1. pc[t] \in {"write", "install"} /\ r \in locks[t] /\ r \in Rows
    BY <1>0, <1>2, InstallLocked DEF ToInstall, TypeOK
  <2>2. SetWts(t) \/ Install(t) \/ Release(t)
    BY <2>1 DEF Step, Fetch, Stop, ReadWord, Copy, Recheck, CommitTime, PreAbort, LockRow,
                LockBusy, Unlock, BackOff, Locked, Validate, Renew, Commit, Finish
  <2>3. pc \in [Threads -> Labels] /\ locks \in [Threads -> SUBSET Rows]
    BY <1>0 DEF TypeOK
  <2>4. CASE SetWts(t)
    <3>1. /\ pc'[t] = "install" /\ locks'[t] = locks[t] /\ commit_wts' = commit_wts
          /\ NextRelease(t)' = NextRelease(t) /\ pc[t] = "write"
      BY <2>3, <2>4 DEF SetWts, Goto, NextRelease
    <3>2. CASE r = NextRelease(t)
      <4>1. Installing(t, r)' /\ ~ Installing(t, r)
        BY <3>1, <3>2 DEF Installing
      <4>2. ~ Still(r) /\ ~ Renewed(t, r) /\ ~ Written(t, r)
        BY <2>1, <3>1, <4>1 DEF Still, Renewed, NoNewInstall, Written, Install
      <4> QED  BY <1>0, <1>2, <2>1, <4>2, RowStep
    <3>3. CASE r # NextRelease(t)
      BY <1>2, <2>1, <3>1, <3>3 DEF ToInstall
    <3> QED  BY <3>2, <3>3
  <2>5. CASE Install(t)
    BY <1>2, <2>5 DEF Install, ToInstall, NextRelease
  <2>6. CASE Release(t)
    <3>1. /\ pc'[t] = "write" /\ pc[t] = "install" /\ commit_wts' = commit_wts
          /\ locks'[t] = locks[t] \ {NextRelease(t)}
      BY <2>3, <2>6 DEF Release, Goto
    <3> QED  BY <1>2, <3>1 DEF ToInstall
  <2> QED  BY <2>2, <2>4, <2>5, <2>6
<1> QED  BY <1>1, <1>2

\* A row's time, and its lease if none is shortened, stay past what they are past.
LEMMA PendingStep ==
    ASSUME CInv, NEW t \in Threads, Step(t), NEW r \in Rows, NEW n \in Nat
    PROVE  /\ n <= wts[r] \/ Pending(n, r) => n <= wts'[r] \/ Pending(n, r)'
           /\ Kept /\ (n <= rts(r) \/ Pending(n, r)) => n <= rts(r)' \/ Pending(n, r)'
<1>0. TypeOK /\ PhaseInv /\ LockTimeInv
  BY DEF CInv
<1>1. wts[r] \in Nat /\ wts'[r] \in Nat /\ wts[r] <= wts'[r] /\ rts(r) \in Nat
  BY <1>0, TimesGrow, RtsFacts
<1>2. delta'[r] \in Nat /\ rts(r)' = wts'[r] + delta'[r]
  <2>1. TypeOK'
    BY <1>0, TypeNext DEF Next
  <2> QED  BY <2>1 DEF TypeOK, rts
<1>3. ASSUME Pending(n, r) PROVE Pending(n, r)' \/ (n = wts'[r] /\ n <= rts(r)')
  <2>1. PICK u \in Threads : r \in ToInstall(u) /\ n = commit_wts[u]
    BY <1>3 DEF Pending
  <2>2. CASE r \in ToInstall(u)' /\ commit_wts'[u] = commit_wts[u]
    BY <2>1, <2>2 DEF Pending
  <2>3. CASE u = t /\ Timed(t, r)
    <3>1. n = wts'[r]
      BY <2>1, <2>3 DEF Timed
    <3> QED  BY <1>1, <1>2, <3>1
  <2> QED  BY <2>1, <2>2, <2>3, ToInstallStep
<1>4. ASSUME n <= wts[r] PROVE n <= wts'[r]
  BY <1>1, <1>4
<1>5. ASSUME n <= rts(r), Kept PROVE n <= rts(r)'
  <2>1. rts(r)' >= rts(r)
    BY <1>5 DEF Kept
  <2> QED  BY <1>1, <1>2, <1>5, <2>1
<1>6. n = wts'[r] => n <= wts'[r]
  BY <1>1
<1> QED  BY <1>3, <1>4, <1>5, <1>6

----------------------------------------------------------------------------
(* The rows and the log.                                                   *)

LEMMA LoggedNext ==
    ASSUME CInv, HistoryInv, NEW t \in Threads, Step(t), NEW u \in Threads
    PROVE  Logged(u)'
<1>0. TypeOK /\ PhaseInv
  BY DEF CInv
<1>1. ASSUME pc[u] \in {"write", "install"}, id'[u] = id[u], commit_wts'[u] = commit_wts[u],
             query'[u] = query[u]
      PROVE  Logged(u)'
  <2>1. PICK k \in DOMAIN log : /\ log[k].txn = id[u] /\ log[k].ts = commit_wts[u]
                                /\ log[k].writes = WriteSet(u)
    BY <1>1 DEF HistoryInv, Logged
  <2>2. k \in DOMAIN log' /\ log'[k] = log[k]
    BY LogGrows
  <2>3. WriteSet(u)' = WriteSet(u)
    BY <1>1, Same
  <2> QED  BY <1>1, <2>1, <2>2, <2>3 DEF Logged
<1>2. CASE u # t
  BY <1>0, <1>1, <1>2, Frame DEF Logged
<1>3. CASE u = t
  <2>1. pc \in [Threads -> Labels]
    BY <1>0 DEF TypeOK
  <2>2. CASE Commit(t)
    <3>1. query' = query /\ id' = id /\ commit_wts' = commit_wts
      BY <2>2 DEF Commit, txnVars
    <3>2. WriteSet(t)' = WriteSet(t)
      BY <3>1, Same
    <3>3. /\ Len(log) + 1 \in DOMAIN log' /\ log'[Len(log) + 1].txn = id[t]
          /\ log'[Len(log) + 1].ts = commit_wts[t]
          /\ log'[Len(log) + 1].writes = WriteSet(t)
      BY <2>2, CommitLog
    <3> QED  BY <1>3, <3>1, <3>2, <3>3 DEF Logged
  <2>3. CASE SetWts(t) \/ Install(t) \/ Release(t)
    <3>1. /\ query' = query /\ id' = id /\ commit_wts' = commit_wts
          /\ pc[t] \in {"write", "install"}
      BY <2>3 DEF SetWts, Install, Release, txnVars, histVars
    <3> QED  BY <1>1, <1>3, <3>1
  <2>4. CASE ~ (Commit(t) \/ SetWts(t) \/ Install(t) \/ Release(t))
    <3>1. pc'[t] \notin {"write", "install"}
      BY <2>1, <2>4 DEF Step, Fetch, Stop, ReadWord, Copy, Recheck, CommitTime, PreAbort,
          LockRow, LockBusy, Unlock, BackOff, Locked, Validate, Renew, Passed, Failed, Finish,
          Goto
    <3> QED  BY <1>3, <3>1 DEF Logged
  <2> QED  BY <2>2, <2>3, <2>4
<1> QED  BY <1>2, <1>3

\* n is the time of a transaction that has r to write after the step.
StillPending(n, r) == \E t \in Threads : r \in ToInstall(t)' /\ n = commit_wts'[t]

LEMMA RowTimesNext ==
    ASSUME CInv, HistoryInv, NEW t \in Threads, Step(t), NEW r \in Rows
    PROVE  RowTimes(r)'
<1>0. TypeOK /\ RowTimes(r) /\ \A j \in WritersOf(r) : log[j].ts \in Nat
  BY LogFacts DEF CInv, HistoryInv
<1>1. \A j \in WritersOf(r) : log[j].ts <= wts'[r] \/ StillPending(log[j].ts, r)
  <2> TAKE j \in WritersOf(r)
  <2>1. PICK n \in Nat : n = log[j].ts
    BY <1>0
  <2>2. n <= wts[r] \/ Pending(n, r)
    BY <1>0, <2>1 DEF RowTimes
  <2>3. n <= wts'[r] \/ Pending(n, r)'
    BY <2>2, PendingStep
  <2> QED  BY <2>1, <2>3 DEF Pending, StillPending
<1>2. CASE log' = log
  <2>1. WritersOf(r)' = WritersOf(r)
    BY <1>2 DEF WritersOf
  <2> QED  BY <1>0, <1>1, <1>2, <2>1 DEF RowTimes, Pending, StillPending
<1>3. CASE Commit(t)
  <2>1. /\ WritersOf(r)' = IF r \in WriteSet(t) THEN WritersOf(r) \cup {Len(log) + 1}
                           ELSE WritersOf(r)
        /\ \A j \in WritersOf(r) : log'[j] = log[j] /\ j # Len(log) + 1
    BY <1>3, CommitWriters
  <2>3. \A j \in WritersOf(r) : /\ log'[j].ts <= wts'[r] \/ StillPending(log'[j].ts, r)
                               /\ log'[j].ts = log[j].ts
    BY <1>1, <2>1
  <2>4. CASE r \notin WriteSet(t)
    BY <1>0, <2>1, <2>3, <2>4 DEF RowTimes, Pending, StillPending
  <2>5. CASE r \in WriteSet(t)
    <3>1. /\ log'[Len(log) + 1].ts = commit_wts[t] /\ commit_wts' = commit_wts
          /\ r \in ToInstall(t)' /\ rts(r) < commit_wts[t] /\ commit_wts[t] \in Nat
          /\ \A u \in Threads : r \notin ToInstall(u)
      BY <1>3, <2>5, CommitFacts, CommitLog
    <3>2. StillPending(log'[Len(log) + 1].ts, r)
      BY <3>1 DEF StillPending
    <3>3. \A j \in WritersOf(r) : log[j].ts < commit_wts[t]
      <4>1. \A j \in WritersOf(r) : log[j].ts <= wts[r]
        BY <1>0, <3>1 DEF RowTimes, Pending
      <4>2. wts[r] \in Nat /\ rts(r) \in Nat /\ wts[r] <= rts(r)
        BY <1>0, RtsFacts
      <4> QED  BY <1>0, <3>1, <4>1, <4>2
    <3>4. \A j \in WritersOf(r)' : log'[j].ts <= wts'[r] \/ StillPending(log'[j].ts, r)
      BY <2>1, <2>3, <2>5, <3>2
    <3>5. \A j \in WritersOf(r) : log'[j].ts < log'[Len(log) + 1].ts /\ log'[j].ts \in Nat
      BY <1>0, <2>3, <3>1, <3>3
    <3>6. \A j, k \in WritersOf(r)' : log'[j].ts = log'[k].ts => j = k
      <4>1. \A j, k \in WritersOf(r) : log'[j].ts = log'[k].ts => j = k
        BY <1>0, <2>3 DEF RowTimes
      <4>2. \A j \in WritersOf(r) : log'[j].ts # log'[Len(log) + 1].ts
        BY <3>1, <3>5
      <4> QED  BY <2>1, <2>5, <4>1, <4>2
    <3> QED  BY <3>4, <3>6 DEF RowTimes, Pending, StillPending
  <2> QED  BY <2>4, <2>5
<1> QED  BY <1>2, <1>3, LogStep

\* A row that nobody is to write any more holds its last version.
LEMMA LastWriter ==
    ASSUME CInv, HistoryInv, NEW r \in Rows, \A u \in Threads : r \notin ToInstall(u)
    PROVE  \A j \in WritersOf(r) : log[j].ts <= wts[r] /\ log[j].ts <= rts(r)
<1>1. \A j \in WritersOf(r) : log[j].ts <= wts[r]
  BY DEF HistoryInv, RowTimes, Pending
<1>2. wts[r] \in Nat /\ rts(r) \in Nat /\ wts[r] <= rts(r)
      /\ \A j \in WritersOf(r) : log[j].ts \in Nat
  BY RtsFacts, LogFacts DEF CInv
<1> QED  BY <1>1, <1>2

LEMMA RowVersionNext ==
    ASSUME CInv, HistoryInv, NEW t \in Threads, Step(t), NEW r \in Rows
    PROVE  RowVersion(r)'
<1>0. TypeOK /\ PhaseInv /\ LockInv /\ LockTimeInv /\ WholeRows
  BY DEF CInv
<1>a. TypeOK'
  BY <1>0, TypeNext DEF Next
<1> SUFFICES ASSUME \A u \in Threads : ~ Installing(u, r)'
             PROVE  Lasts(r, data[r], wts[r], rts(r))'
  BY DEF RowVersion
<1>1. wts[r] \in Nat /\ rts(r) \in Nat /\ wts[r] <= rts(r)
  BY <1>0, RtsFacts
<1>2. ASSUME NEW u \in Threads, Installing(u, r) PROVE Lasts(r, data[r], wts[r], rts(r))'
  <2>1. u = t /\ Release(t) /\ word[t] = WordCnt /\ Installing(t, r)
    BY <1>0, <1>2, InstallEnds
  <2>2. wts' = wts /\ delta' = delta /\ data' = data /\ log' = log /\ pc[t] = "install"
    BY <2>1 DEF Release, histVars
  <2>3. data[r] = Image(id[t]) /\ wts[r] = commit_wts[t]
    BY <1>0, <2>1, InstalledRow DEF LockTimeInv, LockTime
  <2>4. r \in locks[t] /\ r \in WriteSet(t)
    BY <1>0, <2>1, InstallLocked DEF PhaseInv, Phase
  <2>5. PICK k \in WritersOf(r) : log[k].txn = id[t] /\ log[k].ts = commit_wts[t]
    BY <2>2, <2>4 DEF HistoryInv, Logged, WritersOf
  <2>6. \A w \in Threads : r \notin ToInstall(w)
    <3> TAKE w \in Threads
    <3>1. CASE w = t
      BY <2>1, <3>1 DEF ToInstall, Installing
    <3>2. CASE w # t
      BY <1>0, <2>4, <3>2, InstallLocked DEF LockInv
    <3> QED  BY <3>1, <3>2
  <2>7. \A j \in WritersOf(r) : j = k \/ log[j].ts < log[k].ts
    <3> TAKE j \in WritersOf(r)
    <3>1. log[j].ts <= wts[r] /\ log[j].ts \in Nat
      BY <1>0, <2>6, LastWriter, LogFacts
    <3>2. log[j].ts = log[k].ts => j = k
      BY DEF HistoryInv, RowTimes
    <3> QED  BY <1>1, <2>3, <2>5, <3>1, <3>2
  <2>8. data[r] = Image(log[k].txn) /\ log[k].ts <= wts[r]
    BY <1>1, <2>3, <2>5
  <2>9. Lasts(r, data[r], wts[r], rts(r))
    BY <2>7, <2>8 DEF Lasts
  <2> QED  BY <2>2, <2>9 DEF Lasts, WritersOf, rts
<1>3. CASE \A u \in Threads : ~ Installing(u, r)
  <2>1. PICK img : img = data[r]
    OBVIOUS
  <2>2. Lasts(r, img, wts[r], rts(r))
    BY <1>3, <2>1 DEF HistoryInv, RowVersion
  <2>3. PICK lo \in Nat, hi \in Nat : lo = wts[r] /\ hi = rts(r)
    BY <1>1
  <2>4. Lasts(r, img, lo, hi)' /\ hi <= rts(r)
    <3>1. hi <= rts(r) /\ Lasts(r, img, lo, hi)
      BY <1>1, <2>2, <2>3
    <3> QED  BY <3>1, LastsStays
  <2>5. CASE Still(r)
    <3>1. img = data'[r] /\ lo = wts'[r] /\ hi = rts(r)'
      BY <2>1, <2>3, <2>5 DEF Still, rts
    <3> QED  BY <2>4, <3>1 DEF Lasts
  <2>6. CASE Renewed(t, r)
    <3>1. log' = log /\ data'[r] = img
      BY <2>1, <2>6 DEF Renewed, Renew, histVars
    <3>2. wts'[r] \in Nat /\ rts(r)' \in Nat /\ wts[r] <= wts'[r]
      <4>1. wts'[r] \in Nat /\ wts[r] <= wts'[r]
        BY <1>0, <2>6, RenewFacts
      <4> QED  BY <1>a, <4>1 DEF TypeOK, rts
    <3>3. \A j \in WritersOf(r) : log[j].ts <= hi
      BY <1>0, <2>3, <2>6, FreeRow, LastWriter DEF Renewed
    <3>4. Lasts(r, img, wts'[r], rts(r)')
      BY <1>0, <2>2, <2>3, <3>2, <3>3, LastsLonger
    <3> QED  BY <3>1, <3>4 DEF Lasts, WritersOf
  <2>7. ~ Timed(t, r)
    <3> SUFFICES ASSUME Timed(t, r) PROVE FALSE
      OBVIOUS
    <3>1. pc'[t] = "install" /\ locks' = locks /\ r = NextRelease(t)
      BY <1>0 DEF Timed, SetWts, Goto, TypeOK
    <3> QED  BY <3>1 DEF Installing, NextRelease
  <2>8. ~ Written(t, r)
    BY <1>3 DEF Written, Install, Installing
  <2> QED  BY <1>0, <2>5, <2>6, <2>7, <2>8, RowStep
<1> QED  BY <1>2, <1>3

LEMMA HistoryNext ==
    ASSUME CInv, HistoryInv, NEW t \in Threads, Step(t)
    PROVE  HistoryInv'
BY LoggedNext, RowTimesNext, RowVersionNext DEF HistoryInv

----------------------------------------------------------------------------
(* Leases, when none is shortened.                                         *)

LEMMA LeaseStays ==
    ASSUME CInv, NEW t \in Threads, Step(t), Kept, NEW r \in Rows, NEW img, NEW lo \in Nat,
           NEW hi \in Nat, Lasts(r, img, lo, hi), hi <= rts(r)
    PROVE  Lasts(r, img, lo, hi)' /\ hi <= rts(r)'
<1>0. TypeOK /\ TypeOK'
  BY TypeNext DEF CInv, Next
<1>1. rts(r) \in Nat /\ rts(r)' \in Nat
  BY <1>0, RtsFacts, RtsNext
<1>2. rts(r)' >= rts(r)
  BY DEF Kept
<1> QED  BY <1>1, <1>2, LastsStays

LEMMA LeasedRow ==
    ASSUME CInv, NEW t \in Threads, Step(t), Kept, NEW u \in Threads, NEW r \in Rows,
           access_wts[u][r] <= access_rts[u][r], access_rts[u][r] <= rts(r),
           Lasts(r, seen[u][r], access_wts[u][r], access_rts[u][r]),
           access_wts'[u][r] = access_wts[u][r], access_rts'[u][r] = access_rts[u][r],
           seen'[u][r] = seen[u][r]
    PROVE  /\ access_wts'[u][r] <= access_rts'[u][r] /\ access_rts'[u][r] <= rts(r)'
           /\ Lasts(r, seen[u][r], access_wts[u][r], access_rts[u][r])'
<1>0. access_wts[u][r] \in Nat /\ access_rts[u][r] \in Nat
  <2>1. access_wts \in [Threads -> [Rows -> Nat]] /\ access_rts \in [Threads -> [Rows -> Nat]]
    BY DEF CInv, TypeOK
  <2> QED  BY <2>1
<1>1. PICK lo \in Nat, hi \in Nat : lo = access_wts[u][r] /\ hi = access_rts[u][r]
  BY <1>0
<1>2. PICK img : img = seen[u][r]
  OBVIOUS
<1>3. Lasts(r, img, lo, hi)' /\ hi <= rts(r)'
  BY <1>1, <1>2, LeaseStays
<1>4. lo = access_wts'[u][r] /\ hi = access_rts'[u][r] /\ img = seen'[u][r]
  BY <1>1, <1>2
<1> QED  BY <1>1, <1>3, <1>4 DEF Lasts

LEMMA LeasedFrame ==
    ASSUME CInv, LeaseInv, NEW t \in Threads, Step(t), Kept, NEW u \in Threads,
           query'[u] = query[u], row_cnt'[u] = row_cnt[u], seen'[u] = seen[u],
           access_wts'[u] = access_wts[u], access_rts'[u] = access_rts[u],
           pc'[u] = "copy" => pc[u] = "copy" /\ v'[u] = v[u]
    PROVE  Leased(u)'
<1>0. TypeOK /\ PhaseInv /\ TypeOK'
  BY TypeNext DEF CInv, Next
<1>1. Got(u)' = Got(u) /\ NextReq(u)' = NextReq(u)
  BY DEF Got, NextReq
<1>2. Leased(u)
  BY DEF LeaseInv
<1>3. \A r \in Got(u) : /\ access_wts'[u][r] <= access_rts'[u][r]
                        /\ access_rts'[u][r] <= rts(r)'
                        /\ Lasts(r, seen[u][r], access_wts[u][r], access_rts[u][r])'
  <2> TAKE r \in Got(u)
  <2>1. r \in Rows
    BY <1>0, GotFacts
  <2>2. /\ access_wts[u][r] <= access_rts[u][r] /\ access_rts[u][r] <= rts(r)
        /\ Lasts(r, seen[u][r], access_wts[u][r], access_rts[u][r])
    BY <1>2 DEF Leased
  <2> QED  BY <2>1, <2>2, LeasedRow
<1>4. ASSUME pc'[u] = "copy" PROVE v'[u].wts + v'[u].delta <= rts(NextReq(u).row)'
  <2>1. PICK r \in Rows : r = NextReq(u).row
    BY <1>0, <1>4, Running DEF Idle, Reads
  <2>2. v[u].wts + v[u].delta \in Nat /\ v[u].wts + v[u].delta <= rts(r)
    <3>1. v[u] \in [wts : Nat, delta : Nat]
      BY <1>0 DEF TypeOK
    <3>2. v[u].wts + v[u].delta <= rts(r)
      BY <1>2, <1>4, <2>1 DEF Leased
    <3> QED  BY <3>1, <3>2
  <2>3. rts(r) \in Nat /\ rts(r)' \in Nat /\ rts(r)' >= rts(r)
    BY <1>0, RtsFacts, RtsNext DEF Kept
  <2>4. v[u].wts + v[u].delta <= rts(r)'
    BY <2>2, <2>3
  <2>5. rts(NextReq(u).row)' = rts(r)'
    BY <1>1, <2>1 DEF rts
  <2> QED  BY <1>4, <2>4, <2>5
<1> QED  BY <1>1, <1>3, <1>4 DEF Leased

\* A row that a transaction works on with a copy of its present version.
LEMMA CurrentCopy ==
    ASSUME CInv, HistoryInv, NEW t \in Threads, NEW r \in Got(t), wts[r] = access_wts[t][r]
    PROVE  /\ r \in Rows /\ \A u \in Threads : ~ Installing(u, r)
           /\ Lasts(r, seen[t][r], access_wts[t][r], rts(r))
<1>0. TypeOK /\ PhaseInv /\ CopyInv
  BY DEF CInv
<1>1. r \in Rows
  BY <1>0, GotFacts
<1>2. Copied(r, access_wts[t][r], seen[t][r], WordCnt) /\ wts[r] \in Nat
  BY <1>0, <1>1 DEF CopyInv, HasCopies, TypeOK
<1>3. \A u \in Threads : ~ Installing(u, r)
  BY <1>2 DEF Copied
<1>4. seen[t][r] = data[r]
  <2>1. seen[t][r] \in Images /\ data[r] \in Images
    BY <1>0, <1>1 DEF TypeOK
  <2>2. \A w \in 1..WordCnt : seen[t][r][w] = data[r][w]
    BY <1>2 DEF Copied
  <2> QED  BY <2>1, <2>2, EqualImages
<1>5. Lasts(r, data[r], wts[r], rts(r))
  BY <1>1, <1>3 DEF HistoryInv, RowVersion
<1> QED  BY <1>1, <1>3, <1>4, <1>5

LEMMA LeasedOwn ==
    ASSUME CInv, HistoryInv, LeaseInv, NEW t \in Threads, Step(t), Kept
    PROVE  Leased(t)'
<1> USE DEF rowVars, txnVars, histVars, Goto
<1>0. TypeOK /\ PhaseInv /\ LockInv /\ CopyInv /\ TypeOK'
  BY TypeNext DEF CInv, Next
<1>a. /\ pc \in [Threads -> Labels] /\ v \in [Threads -> [wts : Nat, delta : Nat]]
      /\ row_cnt \in [Threads -> Nat]
      /\ seen \in [Threads -> [Rows -> Images]]
      /\ access_wts \in [Threads -> [Rows -> Nat]]
      /\ access_rts \in [Threads -> [Rows -> Nat]]
  BY <1>0 DEF TypeOK
<1>b. Leased(t)
  BY DEF LeaseInv
<1>1. CASE Fetch(t) \/ Finish(t)
  <2>1. pc'[t] # "copy" /\ row_cnt'[t] = 0
    BY <1>0, <1>a, <1>1 DEF Fetch, Finish, PhaseInv, Phase, Idle
  <2> QED  BY <2>1 DEF Leased, Got
<1>2. CASE ReadWord(t)
  <2>1. PICK r \in Rows : r = NextReq(t).row
    BY <1>0, <1>2, Running DEF ReadWord, Idle, Reads
  <2>2. /\ v'[t] = Word(r) /\ wts' = wts /\ delta' = delta /\ NextReq(t)' = NextReq(t)
        /\ Got(t)' = Got(t) /\ seen' = seen /\ access_wts' = access_wts
        /\ access_rts' = access_rts
    BY <1>a, <1>2, <2>1 DEF ReadWord, NextReq, Got
  <2>3. v'[t].wts + v'[t].delta <= rts(NextReq(t).row)'
    <3>1. v'[t].wts + v'[t].delta = rts(r) /\ rts(r) \in Nat
      BY <1>0, <2>2, RtsFacts DEF Word
    <3>2. rts(NextReq(t).row)' = rts(r)
      BY <2>1, <2>2 DEF rts
    <3> QED  BY <3>1, <3>2
  <2>4. \A s \in Got(t) : /\ access_wts'[t][s] <= access_rts'[t][s]
                          /\ access_rts'[t][s] <= rts(s)'
                          /\ Lasts(s, seen[t][s], access_wts[t][s], access_rts[t][s])'
    <3> TAKE s \in Got(t)
    <3>1. s \in Rows
      BY <1>0, GotFacts
    <3>2. /\ access_wts[t][s] <= access_rts[t][s] /\ access_rts[t][s] <= rts(s)
          /\ Lasts(s, seen[t][s], access_wts[t][s], access_rts[t][s])
      BY <1>b DEF Leased
    <3> QED  BY <2>2, <3>1, <3>2, LeasedRow
  <2> QED  BY <2>2, <2>3, <2>4 DEF Leased
<1>3. CASE Copy(t)
  <2>1. PICK r \in Rows : r = NextReq(t).row /\ r \notin Got(t)
    BY <1>0, <1>3, Running, GotFacts DEF Copy, Idle, Reads
  <2>2. /\ pc[t] = "copy" /\ v' = v /\ wts' = wts /\ delta' = delta
        /\ NextReq(t)' = NextReq(t) /\ Got(t)' = Got(t)
        /\ access_wts' = access_wts /\ access_rts' = access_rts
        /\ seen' = [seen EXCEPT ![t][r][word[t] + 1] = data[r][word[t] + 1]]
    BY <1>a, <1>3, <2>1 DEF Copy, NextReq, Got
  <2>3. v'[t].wts + v'[t].delta <= rts(NextReq(t).row)'
    BY <1>b, <2>2 DEF Leased, rts
  <2>4. \A s \in Got(t) : /\ access_wts'[t][s] <= access_rts'[t][s]
                          /\ access_rts'[t][s] <= rts(s)'
                          /\ Lasts(s, seen[t][s], access_wts[t][s], access_rts[t][s])'
    <3> TAKE s \in Got(t)
    <3>1. s \in Rows
      BY <1>0, GotFacts
    <3>2. /\ access_wts[t][s] <= access_rts[t][s] /\ access_rts[t][s] <= rts(s)
          /\ Lasts(s, seen[t][s], access_wts[t][s], access_rts[t][s])
      BY <1>b DEF Leased
    <3>3. seen'[t][s] = seen[t][s]
      BY <1>a, <2>1, <2>2, <3>1
    <3> QED  BY <2>2, <3>1, <3>2, <3>3, LeasedRow
  <2> QED  BY <2>2, <2>3, <2>4 DEF Leased
<1>4. CASE Recheck(t)
  <2>1. PICK r \in Rows : r = NextReq(t).row /\ r \notin Got(t)
    BY <1>0, <1>4, Running, GotFacts DEF Recheck, Idle, Reads
  <2>2. /\ pc[t] = "copy" /\ pc'[t] # "copy" /\ wts' = wts /\ delta' = delta
        /\ seen' = seen /\ query' = query /\ log' = log
    BY <1>a, <1>4 DEF Recheck
  <2>3. CASE row_cnt' = row_cnt /\ access_wts' = access_wts /\ access_rts' = access_rts
    BY <2>2, <2>3, LeasedFrame
  <2>4. CASE /\ wts[r] = v[t].wts /\ ~ locked[r]
             /\ access_wts' = [access_wts EXCEPT ![t][r] = v[t].wts]
             /\ access_rts' = [access_rts EXCEPT ![t][r] = v[t].wts + v[t].delta]
             /\ row_cnt' = [row_cnt EXCEPT ![t] = @ + 1]
    <3>1. Got(t)' = Got(t) \cup {r}
      <4>1. row_cnt'[t] = row_cnt[t] + 1 /\ row_cnt[t] \in Nat
        BY <1>a, <2>4
      <4>2. 1..(row_cnt[t] + 1) = (1..row_cnt[t]) \cup {row_cnt[t] + 1}
        BY <4>1
      <4> QED  BY <2>1, <2>2, <4>1, <4>2 DEF Got, NextReq
    <3>2. /\ access_wts'[t][r] = v[t].wts /\ access_rts'[t][r] = v[t].wts + v[t].delta
          /\ \A s \in Got(t) : /\ access_wts'[t][s] = access_wts[t][s]
                               /\ access_rts'[t][s] = access_rts[t][s]
      BY <1>0, <1>a, <2>1, <2>4, GotFacts
    <3>3. \A s \in Got(t) : /\ access_wts'[t][s] <= access_rts'[t][s]
                            /\ access_rts'[t][s] <= rts(s)'
                            /\ Lasts(s, seen[t][s], access_wts[t][s], access_rts[t][s])'
      <4> TAKE s \in Got(t)
      <4>1. s \in Rows
        BY <1>0, GotFacts
      <4>2. /\ access_wts[t][s] <= access_rts[t][s] /\ access_rts[t][s] <= rts(s)
            /\ Lasts(s, seen[t][s], access_wts[t][s], access_rts[t][s])
        BY <1>b DEF Leased
      <4> QED  BY <2>2, <3>2, <4>1, <4>2, LeasedRow
    <3>4. /\ access_wts'[t][r] <= access_rts'[t][r] /\ access_rts'[t][r] <= rts(r)'
          /\ Lasts(r, seen[t][r], access_wts[t][r], access_rts[t][r])'
      <4>1. v[t].wts \in Nat /\ v[t].delta \in Nat /\ v[t].wts + v[t].delta <= rts(r)
        BY <1>a, <1>b, <2>1, <2>2 DEF Leased
      <4>2. rts(r)' = rts(r) /\ rts(r) \in Nat
        BY <1>0, <2>2, RtsFacts DEF rts
      <4>3. seen[t][r] = data[r]
        BY <1>0, <1>4, <2>1, <2>4, Accepted
      <4>4. Lasts(r, data[r], wts[r], rts(r))
        BY <1>0, <2>4, FreeRow DEF HistoryInv, RowVersion
      <4>5. Lasts(r, seen[t][r], v[t].wts, rts(r))
        BY <2>4, <4>3, <4>4
      <4>6. Lasts(r, seen[t][r], v[t].wts, v[t].wts + v[t].delta)
        BY <1>0, <4>1, <4>2, <4>5, LastsShorter
      <4> QED  BY <2>2, <3>2, <4>1, <4>2, <4>6 DEF Lasts, WritersOf
    <3> QED  BY <2>2, <3>1, <3>3, <3>4 DEF Leased
  <2> QED  BY <1>4, <2>1, <2>3, <2>4 DEF Recheck
<1>5. CASE ~ (Fetch(t) \/ Finish(t) \/ ReadWord(t) \/ Copy(t) \/ Recheck(t))
  <2>1. /\ query' = query /\ row_cnt' = row_cnt /\ seen' = seen
        /\ access_wts' = access_wts /\ access_rts' = access_rts
    BY <1>5 DEF Step, Stop, CommitTime, PreAbort, LockRow, LockBusy, Unlock, BackOff,
           Locked, Validate, Renew, Commit, SetWts, Install, Release
  <2>2. pc'[t] # "copy"
    BY <1>a, <1>5 DEF Step, Stop, CommitTime, PreAbort, LockRow, LockBusy, Unlock, BackOff,
           Locked, Validate, Renew, Passed, Failed, Commit, SetWts, Install, Release
  <2> QED  BY <2>1, <2>2, LeasedFrame
<1> QED  BY <1>1, <1>2, <1>3, <1>4, <1>5

LEMMA LeasedNext ==
    ASSUME CInv, HistoryInv, LeaseInv, NEW t \in Threads, Step(t), Kept, NEW u \in Threads
    PROVE  Leased(u)'
<1>1. CASE u = t
  BY <1>1, LeasedOwn
<1>2. CASE u # t
  BY <1>2, Frame, LeasedFrame DEF CInv
<1> QED  BY <1>1, <1>2

LEMMA SeenNext ==
    ASSUME CInv, LeaseInv, NEW t \in Threads, Step(t), NEW u \in Threads
    PROVE  Seen(u)'
<1>0. TypeOK /\ PhaseInv /\ Seen(u)
  BY DEF CInv, LeaseInv
<1>a. /\ pc \in [Threads -> Labels] /\ query \in [Threads -> Queries \cup {<< >>}]
      /\ row_cnt \in [Threads -> Nat] /\ seen \in [Threads -> [Rows -> Images]]
  BY <1>0 DEF TypeOK
<1>1. CASE u # t
  <2>1. /\ query'[u] = query[u] /\ row_cnt'[u] = row_cnt[u] /\ seen'[u] = seen[u]
        /\ pc'[u] = pc[u]
    BY <1>0, <1>1, Frame
  <2> QED  BY <1>0, <2>1 DEF Seen, Got, Reads, NextReq
<1>2. CASE u = t
  <2>1. CASE Fetch(t)
    <3>1. Got(t) = {} /\ ~ Reads(t)
      BY <1>0, <2>1 DEF Fetch, PhaseInv, Phase, Idle, Reads, Got
    <3> QED  BY <1>0, <1>2, <2>1, <3>1 DEF Seen, Fetch
  <2>2. CASE Finish(t)
    <3>1. \A r \in Rows : seen'[t][r] = NoImage
      BY <1>a, <2>2 DEF Finish, NoReads
    <3> QED  BY <1>2, <3>1 DEF Seen
  <2>3. CASE Copy(t)
    <3>1. PICK r \in Rows : r = NextReq(t).row
      BY <1>0, <2>3, Running DEF Copy, Idle, Reads
    <3>2. /\ pc' = pc /\ query' = query /\ row_cnt' = row_cnt /\ pc[t] = "copy"
          /\ seen' = [seen EXCEPT ![t][r][word[t] + 1] = data[r][word[t] + 1]]
      BY <2>3, <3>1 DEF Copy
    <3>3. \A s \in Rows : s # r => seen'[t][s] = seen[t][s]
      BY <1>a, <3>2
    <3> QED  BY <1>0, <1>2, <3>1, <3>2, <3>3 DEF Seen, Got, Reads, NextReq
  <2>4. CASE Recheck(t)
    <3>1. seen' = seen /\ query' = query /\ Reads(t) /\ pc[t] = "copy"
      BY <2>4 DEF Recheck, Reads
    <3>2. CASE row_cnt' = row_cnt
      <4>1. pc'[t] = "read_word"
        <5>1. row_cnt'[t] # row_cnt[t] + 1
          BY <1>a, <3>2
        <5> QED  BY <1>a, <2>4, <5>1 DEF Recheck, Goto
      <4> QED  BY <1>0, <1>2, <3>1, <3>2, <4>1 DEF Seen, Got, Reads, NextReq
    <3>3. CASE row_cnt' # row_cnt
      <4>1. Got(t)' = Got(t) \cup {NextReq(t).row}
        <5>1. row_cnt' = [row_cnt EXCEPT ![t] = @ + 1]
          BY <2>4, <3>3 DEF Recheck
        <5>2. row_cnt'[t] = row_cnt[t] + 1 /\ row_cnt[t] \in Nat
          BY <1>a, <5>1
        <5>3. 1..(row_cnt[t] + 1) = (1..row_cnt[t]) \cup {row_cnt[t] + 1}
          BY <5>2
        <5> QED  BY <3>1, <5>2, <5>3 DEF Got, NextReq
      <4> QED  BY <1>0, <1>2, <3>1, <4>1 DEF Seen
    <3> QED  BY <3>2, <3>3
  <2>5. CASE ReadWord(t)
    <3>1. seen' = seen /\ query' = query /\ row_cnt' = row_cnt /\ pc'[t] = "copy"
      BY <1>a, <2>5 DEF ReadWord, txnVars, Goto
    <3> QED  BY <1>0, <1>2, <2>5, <3>1 DEF Seen, Got, Reads, NextReq, ReadWord
  <2>6. CASE ~ (Fetch(t) \/ Finish(t) \/ ReadWord(t) \/ Copy(t) \/ Recheck(t))
    <3>1. query' = query /\ row_cnt' = row_cnt /\ seen' = seen /\ ~ Reads(t)
      BY <2>6 DEF Step, Stop, CommitTime, PreAbort, LockRow, LockBusy, Unlock, BackOff,
             Locked, Validate, Renew, Commit, SetWts, Install, Release, Reads, txnVars
    <3> QED  BY <1>0, <1>2, <3>1 DEF Seen, Got
  <2> QED  BY <2>1, <2>2, <2>3, <2>4, <2>5, <2>6
<1> QED  BY <1>1, <1>2

----------------------------------------------------------------------------
(* Validation.                                                             *)

LEMMA SureStays ==
    ASSUME CInv, NEW t \in Threads, Step(t), Kept, NEW u \in Threads, NEW r \in Rows,
           Sure(u, r), seen'[u] = seen[u], access_wts'[u] = access_wts[u],
           commit_wts'[u] = commit_wts[u]
    PROVE  Sure(u, r)'
<1>0. access_wts[u][r] \in Nat /\ commit_wts[u] \in Nat
  <2>1. access_wts \in [Threads -> [Rows -> Nat]] /\ commit_wts \in [Threads -> Nat]
    BY DEF CInv, TypeOK
  <2> QED  BY <2>1
<1>1. PICK lo \in Nat, hi \in Nat : lo = access_wts[u][r] /\ hi = commit_wts[u]
  BY <1>0
<1>2. PICK img : img = seen[u][r]
  OBVIOUS
<1>3. Lasts(r, img, lo, hi) /\ hi <= rts(r)
  BY <1>1, <1>2 DEF Sure
<1>4. Lasts(r, img, lo, hi)' /\ hi <= rts(r)'
  BY <1>3, LeaseStays
<1>5. lo = access_wts'[u][r] /\ hi = commit_wts'[u] /\ img = seen'[u][r]
  BY <1>1, <1>2
<1> QED  BY <1>4, <1>5 DEF Sure, Lasts

\* A transaction past its reads has all the rows of its query.
LEMMA AllGot ==
    ASSUME TypeOK, PhaseInv, NEW t \in Threads, ~ Idle(t), ~ Reads(t),
           NEW i \in 1..Len(query[t])
    PROVE  query[t][i].row \in Got(t)
<1>1. row_cnt[t] = Len(query[t])
  BY DEF PhaseInv, Phase
<1> QED  BY <1>1 DEF Got

\* The lease of a version that is still there is known to reach the commit time.
LEMMA SureNow ==
    ASSUME CInv, HistoryInv, NEW t \in Threads, NEW r \in Got(t),
           wts[r] = access_wts[t][r], commit_wts[t] <= rts(r)
    PROVE  Sure(t, r)
<1>1. r \in Rows /\ Lasts(r, seen[t][r], access_wts[t][r], rts(r))
  BY CurrentCopy
<1>2. rts(r) \in Nat /\ access_wts[t][r] \in Nat /\ commit_wts[t] \in Nat /\ TypeOK
  BY <1>1, RtsFacts DEF CInv, TypeOK
<1>3. Lasts(r, seen[t][r], access_wts[t][r], commit_wts[t])
  BY <1>1, <1>2, LastsShorter
<1> QED  BY <1>3 DEF Sure

\* The three ways in which try_renew, or the test before it, finds at its first look
\* that nothing is to be done.
LEMMA PassedFirst ==
    ASSUME CInv, HistoryInv, LeaseInv, NEW t \in Threads, Validate(t),
           NextCheck(t).type = "RD", checked'[t] = checked[t] + 1
    PROVE  Sure(t, NextCheck(t).row)
<1>0. TypeOK /\ PhaseInv
  BY DEF CInv
<1>1. /\ pc[t] = "validate" /\ checked[t] < Len(query[t]) /\ ~ Idle(t) /\ ~ Reads(t)
      /\ checked[t] \in Nat
  BY <1>0 DEF Validate, Idle, Reads, TypeOK
<1>2. PICK r \in Rows : r = NextCheck(t).row /\ r \in Got(t) /\ r \in ReadSet(t)
  <2>1. checked[t] + 1 \in 1..Len(query[t]) /\ NextCheck(t) = query[t][checked[t] + 1]
    BY <1>0, <1>1, CheckedRow
  <2> QED  BY <1>0, <1>1, <2>1, CheckedRow, AllGot
<1>3. /\ rts(r) \in Nat /\ access_wts[t][r] \in Nat /\ commit_wts[t] \in Nat
      /\ access_rts[t][r] \in Nat /\ wts[r] \in Nat /\ delta[r] \in Nat
  <2>1. rts(r) \in Nat /\ wts[r] \in Nat /\ delta[r] \in Nat
    BY <1>0, RtsFacts
  <2>2. access_wts[t][r] \in Nat /\ access_rts[t][r] \in Nat /\ commit_wts[t] \in Nat
    BY <1>0 DEF TypeOK
  <2> QED  BY <2>1, <2>2
<1>4. CASE access_rts[t][r] >= commit_wts[t]
  <2>1. /\ access_rts[t][r] <= rts(r)
        /\ Lasts(r, seen[t][r], access_wts[t][r], access_rts[t][r])
    BY <1>2 DEF LeaseInv, Leased
  <2>2. commit_wts[t] <= rts(r)
    BY <1>3, <1>4, <2>1
  <2>3. Lasts(r, seen[t][r], access_wts[t][r], commit_wts[t])
    BY <1>0, <1>3, <1>4, <2>1, LastsShorter
  <2> QED  BY <1>2, <2>2, <2>3 DEF Sure
<1>5. CASE wts[r] = access_wts[t][r] /\ delta[r] >= NewDelta(t, r)
  <2>1. commit_wts[t] <= rts(r)
    BY <1>3, <1>5 DEF NewDelta, rts
  <2> QED  BY <1>2, <1>5, <2>1, SureNow
<1>6. \/ access_rts[t][r] >= commit_wts[t]
      \/ wts[r] = access_wts[t][r] /\ delta[r] >= NewDelta(t, r)
  <2> SUFFICES ASSUME ~ (access_rts[t][r] >= commit_wts[t]),
                      ~ (wts[r] = access_wts[t][r] /\ delta[r] >= NewDelta(t, r))
               PROVE  FALSE
    OBVIOUS
  <2>1. checked'[t] = 0 \/ checked' = checked
    BY <1>0, <1>2 DEF Validate, Failed, TypeOK
  <2> QED  BY <1>1, <2>1
<1> QED  BY <1>4, <1>5, <1>6

\* The lease try_renew has swapped in, or finds to be long enough after all.
LEMMA PassedRenew ==
    ASSUME CInv, HistoryInv, LeaseInv, NEW t \in Threads, Step(t), Kept, Renew(t),
           checked'[t] = checked[t] + 1, NEW r \in Rows, r = NextCheck(t).row
    PROVE  Sure(t, r)'
<1>0. TypeOK /\ PhaseInv /\ LockInv /\ LockTimeInv
  BY DEF CInv
<1>1. /\ pc[t] = "renew" /\ checked[t] < Len(query[t]) /\ ~ Idle(t) /\ ~ Reads(t)
      /\ checked[t] \in Nat /\ NextCheck(t).type = "RD"
  BY <1>0 DEF Renew, Idle, Reads, TypeOK, PhaseInv, Phase
<1>2. r = NextCheck(t).row /\ r \in Got(t) /\ r \in ReadSet(t)
  <2>1. checked[t] + 1 \in 1..Len(query[t]) /\ NextCheck(t) = query[t][checked[t] + 1]
    BY <1>0, <1>1, CheckedRow
  <2> QED  BY <1>0, <1>1, <2>1, CheckedRow, AllGot
<1>3. /\ rts(r) \in Nat /\ access_wts[t][r] \in Nat /\ commit_wts[t] \in Nat
      /\ wts[r] \in Nat /\ delta[r] \in Nat /\ access_wts[t][r] <= commit_wts[t]
  <2>1. rts(r) \in Nat /\ wts[r] \in Nat /\ delta[r] \in Nat
    BY <1>0, RtsFacts
  <2>2. access_wts[t][r] \in Nat /\ commit_wts[t] \in Nat
    BY <1>0 DEF TypeOK
  <2>3. access_wts[t][r] <= commit_wts[t]
    BY <1>0, <1>1, <1>2 DEF PhaseInv, Phase
  <2> QED  BY <2>1, <2>2, <2>3
<1>4. /\ seen' = seen /\ access_wts' = access_wts /\ commit_wts' = commit_wts
      /\ log' = log /\ query' = query
  BY DEF Renew, txnVars, histVars
<1>5. CASE Renewed(t, r)
  <2>1. /\ wts[r] = access_wts[t][r] /\ ~ locked[r] /\ wts'[r] + delta'[r] = commit_wts[t]
    BY <1>0, <1>5, RenewFacts DEF Renewed
  <2>2. Lasts(r, seen[t][r], access_wts[t][r], rts(r))
    BY <1>2, <2>1, CurrentCopy
  <2>3. \A j \in WritersOf(r) : log[j].ts <= rts(r)
    BY <1>0, <2>1, FreeRow, LastWriter
  <2>4. Lasts(r, seen[t][r], access_wts[t][r], commit_wts[t])
    BY <1>0, <1>3, <2>2, <2>3, LastsLonger
  <2>5. rts(r)' = commit_wts[t]
    BY <2>1 DEF rts
  <2> QED  BY <1>3, <1>4, <2>4, <2>5 DEF Sure, Lasts, WritersOf
<1>6. CASE ~ Renewed(t, r)
  <2>1. ~ (Word(r) = v[t] /\ ~ locked[r])
    <3> SUFFICES ASSUME Word(r) = v[t], ~ locked[r] PROVE FALSE
      OBVIOUS
    <3>1. /\ wts' = [wts EXCEPT ![r] = NewWord(t, r).wts]
          /\ delta' = [delta EXCEPT ![r] = NewWord(t, r).delta]
          /\ data' = data /\ pc'[t] # "install"
      BY <1>0, <1>2 DEF Renew, Passed, Goto, TypeOK
    <3>2. wts'[r] = NewWord(t, r).wts /\ delta'[r] = NewWord(t, r).delta
      BY <1>0, <3>1 DEF TypeOK
    <3>3. NoNewInstall(r)
      BY <1>0, <3>1, NoInstall
    <3> QED  BY <1>1, <1>2, <1>6, <3>1, <3>2, <3>3 DEF Renewed
  <2>2. /\ wts' = wts /\ delta' = delta
        /\ ~ Rebase(t, r) /\ wts[r] = NewWord(t, r).wts /\ commit_wts[t] < delta[r]
    <3>1. ~ (checked'[t] = 0 \/ checked' = checked)
      BY <1>1
    <3>2. ~ Failed(t)
      BY <1>0, <3>1 DEF Failed, TypeOK
    <3> QED  BY <1>2, <2>1, <3>1, <3>2 DEF Renew
  <2>3. wts[r] = access_wts[t][r]
    BY <1>3, <2>2, NewWordFacts
  <2>4. commit_wts[t] <= rts(r)
    BY <1>3, <2>2 DEF rts
  <2>5. Sure(t, r)
    BY <1>2, <2>3, <2>4, SureNow
  <2> QED  BY <1>4, <2>5, SureStays
<1> QED  BY <1>5, <1>6

LEMMA ValidatedNext ==
    ASSUME CInv, HistoryInv, LeaseInv, NEW t \in Threads, Step(t), Kept, NEW u \in Threads
    PROVE  Validated(u)'
<1>0. TypeOK /\ PhaseInv /\ Validated(u)
  BY DEF CInv, LeaseInv
<1>1. ASSUME pc[u] \in {"validate", "renew"}, query'[u] = query[u], seen'[u] = seen[u],
             access_wts'[u] = access_wts[u], commit_wts'[u] = commit_wts[u],
             NEW i \in 1..checked[u], i <= Len(query[u]), query[u][i].type = "RD"
      PROVE  Sure(u, query[u][i].row)'
  <2>1. query[u][i].row \in Rows
    <3>1. Len(query[u]) \in Nat /\ checked[u] \in Nat
      BY <1>0, <1>1, Running DEF Idle, TypeOK
    <3>2. i \in 1..Len(query[u])
      BY <1>1, <3>1
    <3> QED  BY <1>0, <1>1, <3>2, Running DEF Idle
  <2>2. PICK r \in Rows : r = query[u][i].row
    BY <2>1
  <2>3. Sure(u, r)
    BY <1>0, <1>1, <2>2 DEF Validated
  <2>4. Sure(u, r)'
    BY <1>1, <2>3, SureStays
  <2>5. r = query'[u][i].row
    BY <1>1, <2>2
  <2> QED  BY <2>4, <2>5 DEF Sure, Lasts, WritersOf, rts
<1>a. ASSUME pc[u] \in {"validate", "renew"}
      PROVE  \A i \in 1..checked[u] : i <= Len(query[u])
  <2>1. Len(query[u]) \in Nat /\ checked[u] \in Nat /\ checked[u] <= Len(query[u])
    <3>1. Len(query[u]) \in Nat /\ checked[u] \in Nat
      BY <1>0, <1>a, Running DEF Idle, TypeOK
    <3>2. checked[u] <= Len(query[u]) \/ checked[u] < Len(query[u])
      BY <1>0, <1>a DEF PhaseInv, Phase
    <3> QED  BY <3>1, <3>2
  <2> QED  BY <2>1
<1>2. CASE u # t
  <2>1. /\ pc'[u] = pc[u] /\ query'[u] = query[u] /\ seen'[u] = seen[u]
        /\ access_wts'[u] = access_wts[u] /\ commit_wts'[u] = commit_wts[u]
        /\ checked'[u] = checked[u]
    BY <1>0, <1>2, Frame
  <2> QED  BY <1>1, <1>a, <2>1 DEF Validated
<1>3. CASE u = t
  <2>0. /\ pc \in [Threads -> Labels] /\ checked \in [Threads -> Nat]
        /\ commit_wts \in [Threads -> Nat]
    BY <1>0 DEF TypeOK
  <2>1. CASE Locked(t)
    <3>1. checked'[t] = 0
      BY <1>0, <2>1 DEF Locked, PhaseInv, Phase
    <3> QED  BY <1>3, <3>1 DEF Validated
  <2>2. CASE Validate(t) \/ Renew(t)
    <3>1. /\ pc[t] \in {"validate", "renew"} /\ query' = query /\ seen' = seen
          /\ access_wts' = access_wts /\ commit_wts' = commit_wts
          /\ checked[t] \in Nat
      BY <2>0, <2>2 DEF Validate, Renew, txnVars
    <3>2. \/ pc'[t] = "abort" \/ checked'[t] = checked[t]
          \/ checked'[t] = checked[t] + 1
      BY <2>0, <2>2 DEF Validate, Renew, Passed, Failed, Goto
    <3>3. CASE pc'[t] = "abort"
      BY <1>3, <3>3 DEF Validated
    <3>4. CASE checked'[t] = checked[t]
      BY <1>1, <1>a, <1>3, <3>1, <3>4 DEF Validated
    <3>5. CASE checked'[t] = checked[t] + 1
      <4>1. ASSUME NEW r \in Rows, r = NextCheck(t).row, NextCheck(t).type = "RD"
            PROVE  Sure(t, r)'
        <5>1. CASE Renew(t)
          BY <3>5, <4>1, <5>1, PassedRenew
        <5>2. CASE Validate(t)
          <6>1. Sure(t, r)
            BY <3>5, <4>1, <5>2, PassedFirst
          <6> QED  BY <3>1, <6>1, SureStays
        <5> QED  BY <2>2, <5>1, <5>2
      <4>2. ASSUME NEW i \in 1..checked'[t], query'[t][i].type = "RD"
            PROVE  Sure(t, query[t][i].row)'
        <5>1. CASE i = checked[t] + 1
          <6>1. NextCheck(t).type = "RD" /\ checked[t] < Len(query[t])
            BY <1>0, <2>2, <3>1, <4>2, <5>1 DEF NextCheck, Validate, Renew, PhaseInv, Phase
          <6>2. PICK r \in Rows : r = NextCheck(t).row
            BY <1>0, <3>1, <6>1, CheckedRow DEF Idle
          <6>3. Sure(t, r)'
            BY <4>1, <6>1, <6>2
          <6>4. r = query'[t][i].row
            BY <3>1, <5>1, <6>2 DEF NextCheck
          <6> QED  BY <6>3, <6>4 DEF Sure, Lasts, WritersOf, rts
        <5>2. CASE i # checked[t] + 1
          <6>1. i \in 1..checked[t]
            BY <3>1, <3>5, <5>2
          <6> QED  BY <1>1, <1>a, <1>3, <3>1, <4>2, <6>1
        <5> QED  BY <5>1, <5>2
      <4> QED  BY <1>3, <4>2 DEF Validated
    <3> QED  BY <3>2, <3>3, <3>4, <3>5
  <2>3. CASE ~ (Locked(t) \/ Validate(t) \/ Renew(t))
    <3>1. pc'[t] \notin {"validate", "renew"}
      BY <2>0, <2>3 DEF Step, Fetch, Stop, ReadWord, Copy, Recheck, CommitTime, PreAbort,
          LockRow, LockBusy, Unlock, BackOff, Commit, SetWts, Install, Release, Finish, Goto
    <3> QED  BY <1>3, <3>1 DEF Validated
  <2> QED  BY <2>1, <2>2, <2>3
<1> QED  BY <1>2, <1>3

LEMMA LeaseNext ==
    ASSUME CInv, HistoryInv, LeaseInv, NEW t \in Threads, Step(t), Kept
    PROVE  LeaseInv'
BY LeasedNext, SeenNext, ValidatedNext DEF LeaseInv

----------------------------------------------------------------------------
(* The committed transactions.                                             *)

\* The rows that a committing transaction has looked at are those of its query.
LEMMA CommitAccess ==
    ASSUME CInv, LeaseInv, NEW t \in Threads, Commit(t), NEW r \in Rows, seen[t][r] # NoImage
    PROVE  Sure(t, r) \/ r \in WriteSet(t)
<1>0. TypeOK /\ PhaseInv /\ Seen(t) /\ Validated(t)
  BY DEF CInv, LeaseInv
<1>1. pc[t] = "validate" /\ checked[t] = Len(query[t]) /\ ~ Idle(t) /\ ~ Reads(t)
  BY DEF Commit, Idle, Reads
<1>2. r \in Got(t)
  BY <1>0, <1>1 DEF Seen
<1>3. row_cnt[t] = Len(query[t]) /\ query[t] \in Queries
  BY <1>0, <1>1, Running DEF PhaseInv, Phase
<1>4. PICK i \in 1..Len(query[t]) : query[t][i].row = r
  BY <1>0, <1>2, <1>3, GotFacts
<1>5. query[t][i].type = "RD" \/ query[t][i].type = "WR"
  BY <1>0, <1>1, Running
<1>6. CASE query[t][i].type = "RD"
  BY <1>0, <1>1, <1>4, <1>6 DEF Validated
<1>7. CASE query[t][i].type = "WR"
  BY <1>3, <1>4, <1>7, Members
<1> QED  BY <1>5, <1>6, <1>7

LEMMA LogLeaseNext ==
    ASSUME CInv, HistoryInv, LeaseInv, LogLease, NEW t \in Threads, Step(t), Kept
    PROVE  LogLease'
<1>0. TypeOK /\ \A i \in DOMAIN log : log[i].ts \in Nat
  BY LogFacts DEF CInv
<1>1. ASSUME NEW i \in DOMAIN log, NEW r \in Accessed(i)
      PROVE  log[i].ts <= rts(r)' \/ StillPending(log[i].ts, r)
  <2>1. PICK n \in Nat : n = log[i].ts
    BY <1>0
  <2>2. r \in Rows /\ (n <= rts(r) \/ Pending(n, r))
    BY <1>1, <2>1 DEF LogLease, Accessed
  <2>3. n <= rts(r)' \/ Pending(n, r)'
    BY <2>2, PendingStep
  <2> QED  BY <2>1, <2>3 DEF Pending, StillPending
<1>2. CASE log' = log
  BY <1>1, <1>2 DEF LogLease, Accessed, Pending, StillPending
<1>3. CASE Commit(t)
  <2>1. /\ DOMAIN log' = DOMAIN log \cup {Len(log) + 1}
        /\ \A j \in DOMAIN log : log'[j] = log[j]
        /\ log'[Len(log) + 1].ts = commit_wts[t] /\ log'[Len(log) + 1].reads = seen[t]
    BY <1>3, CommitLog
  <2>2. ASSUME NEW r \in Rows, seen[t][r] # NoImage
        PROVE  commit_wts[t] <= rts(r)' \/ StillPending(commit_wts[t], r)
    <3>1. wts' = wts /\ delta' = delta /\ commit_wts' = commit_wts
          /\ ToInstall(t)' = WriteSet(t)
      BY <1>3, CommitFacts
    <3>2. CASE Sure(t, r)
      BY <3>1, <3>2 DEF Sure, rts
    <3>3. CASE r \in WriteSet(t)
      BY <3>1, <3>3 DEF StillPending
    <3> QED  BY <1>3, <2>2, <3>2, <3>3, CommitAccess
  <2>3. ASSUME NEW i \in DOMAIN log', NEW r \in Accessed(i)'
        PROVE  log'[i].ts <= rts(r)' \/ StillPending(log'[i].ts, r)
    <3>1. r \in Rows /\ log'[i].reads[r] # NoImage
      BY <2>3 DEF Accessed
    <3>2. CASE i = Len(log) + 1
      BY <2>1, <2>2, <3>1, <3>2
    <3>3. CASE i \in DOMAIN log
      <4>1. r \in Accessed(i) /\ log'[i] = log[i]
        BY <2>1, <3>1, <3>3 DEF Accessed
      <4> QED  BY <1>1, <3>3, <4>1
    <3> QED  BY <2>1, <3>2, <3>3
  <2> QED  BY <2>3 DEF LogLease, Pending, StillPending
<1> QED  BY <1>2, <1>3, LogStep

\* A committed transaction's reads are not disturbed by one that commits later.
LEMMA OldReads ==
    ASSUME CInv, LogLease, NEW t \in Threads, Commit(t), NEW i \in DOMAIN log,
           NEW r \in Accessed(i), NEW img, Before(i, r, img)
    PROVE  Before(i, r, img)'
<1>0. TypeOK /\ r \in Rows
  BY DEF CInv, Accessed
<1>m. PICK m \in Nat : m = Len(log) + 1
  BY <1>0, LogFacts
<1>1. /\ DOMAIN log' = DOMAIN log \cup {m} /\ m \notin DOMAIN log
      /\ \A j \in DOMAIN log : j < m /\ log'[j] = log[j]
      /\ log'[m].ts = commit_wts[t] /\ log'[m].writes = WriteSet(t)
  BY <1>m, CommitLog
<1>2. \A j, k \in DOMAIN log : Precedes(j, k)' <=> Precedes(j, k)
  BY <1>1 DEF Precedes
<1>3. ~ (Precedes(m, i)' /\ r \in WriteSet(t))
  <2> SUFFICES ASSUME r \in WriteSet(t) PROVE ~ Precedes(m, i)'
    OBVIOUS
  <2>1. rts(r) < commit_wts[t] /\ \A u \in Threads : r \notin ToInstall(u)
    BY CommitFacts
  <2>2. log[i].ts <= rts(r)
    BY <2>1 DEF LogLease, Pending
  <2>3. log[i].ts \in Nat /\ rts(r) \in Nat /\ commit_wts[t] \in Nat
    <3>1. log[i].ts \in Nat
      BY <1>0, LogFacts
    <3>2. rts(r) \in Nat /\ commit_wts[t] \in Nat
      BY <1>0, RtsFacts DEF TypeOK
    <3> QED  BY <3>1, <3>2
  <2>4. log[i].ts < commit_wts[t]
    BY <2>1, <2>2, <2>3
  <2> QED  BY <1>1, <2>3, <2>4 DEF Precedes
<1>4. Writers(i, r)' = Writers(i, r)
  <2>1. \A j \in DOMAIN log : (Precedes(j, i)' /\ r \in log'[j].writes)
                                 <=> (Precedes(j, i) /\ r \in log[j].writes)
    BY <1>1, <1>2
  <2>2. ~ (Precedes(m, i)' /\ r \in log'[m].writes)
    BY <1>1, <1>3
  <2> QED  BY <1>1, <2>1, <2>2 DEF Writers
<1>5. \A k \in Writers(i, r) : k \in DOMAIN log
  BY DEF Writers
<1> QED  BY <1>1, <1>2, <1>4, <1>5 DEF Before

\* What a transaction has read, as it commits, is what comes before it in the order
\* of commit times.
LEMMA NewReads ==
    ASSUME CInv, HistoryInv, LeaseInv, NEW t \in Threads, Commit(t), NEW r \in Rows,
           seen[t][r] # NoImage, NEW m, m = Len(log) + 1, NEW img, img = seen[t][r]
    PROVE  Before(m, r, img)'
<1>0. TypeOK /\ PhaseInv
  BY DEF CInv
<1>1. /\ DOMAIN log' = DOMAIN log \cup {m} /\ m \notin DOMAIN log
      /\ \A j \in DOMAIN log : j < m /\ log'[j] = log[j]
      /\ log'[m].ts = commit_wts[t]
  BY CommitLog
<1>2. /\ commit_wts[t] \in Nat /\ access_wts[t][r] \in Nat /\ m \in Nat
      /\ \A j \in DOMAIN log : log[j].ts \in Nat /\ j \in Nat
  <2>1. m \in Nat /\ \A j \in DOMAIN log : log[j].ts \in Nat /\ j \in Nat
    BY <1>0, LogFacts
  <2>2. commit_wts[t] \in Nat /\ access_wts[t][r] \in Nat
    BY <1>0 DEF TypeOK
  <2> QED  BY <2>1, <2>2
<1>3. /\ access_wts[t][r] <= commit_wts[t]
      /\ Lasts(r, img, access_wts[t][r], commit_wts[t])
  <2>1. CASE r \in WriteSet(t)
    <3>1. /\ rts(r) < commit_wts[t] /\ wts[r] = access_wts[t][r]
          /\ pc[t] = "validate" /\ \A u \in Threads : r \notin ToInstall(u)
      BY <2>1, CommitFacts
    <3>2. rts(r) \in Nat /\ wts[r] \in Nat /\ wts[r] <= rts(r)
      BY <1>0, RtsFacts
    <3>3. r \in Got(t)
      BY <3>1 DEF LeaseInv, Seen, Reads
    <3>4. Lasts(r, img, access_wts[t][r], rts(r))
      BY <3>1, <3>3, CurrentCopy
    <3>5. \A j \in WritersOf(r) : log[j].ts <= rts(r)
      BY <3>1, LastWriter
    <3>6. Lasts(r, img, access_wts[t][r], commit_wts[t])
      BY <1>0, <1>2, <3>2, <3>4, <3>5, LastsLonger
    <3> QED  BY <1>2, <3>1, <3>2, <3>6
  <2>2. CASE r \notin WriteSet(t)
    <3>1. Sure(t, r)
      BY <2>2, CommitAccess
    <3>2. r \in ReadSet(t) /\ pc[t] = "validate"
      <4>1. pc[t] = "validate" /\ ~ Idle(t) /\ ~ Reads(t)
        BY DEF Commit, Idle, Reads
      <4>2. r \in Got(t) /\ row_cnt[t] = Len(query[t]) /\ query[t] \in Queries
        BY <1>0, <4>1, Running DEF LeaseInv, Seen, PhaseInv, Phase
      <4>3. PICK i \in 1..Len(query[t]) : query[t][i].row = r
        BY <1>0, <4>2, GotFacts
      <4>4. query[t][i].type \in {"RD", "WR"}
        BY <1>0, <4>1, Running
      <4> QED  BY <2>2, <4>1, <4>2, <4>3, <4>4, Members
    <3>3. access_wts[t][r] <= commit_wts[t]
      BY <1>0, <3>2 DEF PhaseInv, Phase
    <3> QED  BY <3>1, <3>3 DEF Sure
  <2> QED  BY <2>1, <2>2
<1>4. \A j \in DOMAIN log : Precedes(j, m)' <=> log[j].ts <= commit_wts[t]
  BY <1>1, <1>2 DEF Precedes
<1>5. ~ Precedes(m, m)'
  BY <1>1, <1>2 DEF Precedes
<1>6. Writers(m, r)' = {j \in WritersOf(r) : log[j].ts <= commit_wts[t]}
  <2>1. \A j \in DOMAIN log : log'[j].writes = log[j].writes
    BY <1>1
  <2> QED  BY <1>1, <1>4, <1>5, <2>1 DEF Writers, WritersOf
<1>7. \A j \in WritersOf(r) : j \in DOMAIN log /\ log'[j] = log[j] /\ log[j].ts \in Nat
  BY <1>1, <1>2 DEF WritersOf
<1>8. CASE img = Image(InitVal) /\ \A j \in WritersOf(r) : log[j].ts > commit_wts[t]
  <2>1. Writers(m, r)' = {}
    BY <1>2, <1>6, <1>7, <1>8
  <2> QED  BY <1>8, <2>1 DEF Before
<1>9. ASSUME NEW k \in WritersOf(r), img = Image(log[k].txn), log[k].ts <= access_wts[t][r],
             \A j \in WritersOf(r) :
                j = k \/ log[j].ts < log[k].ts \/ log[j].ts > commit_wts[t]
      PROVE  Before(m, r, img)'
  <2>1. k \in Writers(m, r)'
    BY <1>2, <1>3, <1>6, <1>7, <1>9
  <2>2. \A j \in Writers(m, r)' : j = k \/ Precedes(j, k)'
    <3> TAKE j \in Writers(m, r)'
    <3>1. j \in WritersOf(r) /\ log[j].ts <= commit_wts[t]
      BY <1>6
    <3>2. j = k \/ log[j].ts < log[k].ts
      BY <1>2, <1>7, <1>9, <3>1
    <3>3. log'[j].ts = log[j].ts /\ log'[k].ts = log[k].ts
      BY <1>7, <3>1
    <3> QED  BY <3>2, <3>3 DEF Precedes
  <2>3. img = Image(log'[k].txn)
    BY <1>7, <1>9
  <2> QED  BY <2>1, <2>2, <2>3 DEF Before
<1> QED  BY <1>3, <1>8, <1>9 DEF Lasts

LEMMA SerialNext ==
    ASSUME CInv, HistoryInv, LeaseInv, LogLease, SerialInv, NEW t \in Threads, Step(t)
    PROVE  SerialInv'
<1>1. CASE log' = log
  BY <1>1 DEF SerialInv, Accessed, Before, Writers, Precedes
<1>2. CASE Commit(t)
  <2>m. PICK m : m = Len(log) + 1
    OBVIOUS
  <2>1. /\ DOMAIN log' = DOMAIN log \cup {m}
        /\ \A j \in DOMAIN log : log'[j] = log[j]
        /\ log'[m].reads = seen[t]
    BY <1>2, <2>m, CommitLog
  <2> SUFFICES ASSUME NEW i \in DOMAIN log', NEW r \in Accessed(i)'
               PROVE  Before(i, r, log[i].reads[r])'
    BY DEF SerialInv
  <2>2. PICK img : img = log'[i].reads[r]
    OBVIOUS
  <2>3. r \in Rows /\ img # NoImage
    BY <2>2 DEF Accessed
  <2>4. CASE i = m
    <3>1. img = seen[t][r]
      BY <2>1, <2>2, <2>4
    <3>2. Before(m, r, img)'
      BY <1>2, <2>m, <2>3, <3>1, NewReads
    <3> QED  BY <2>2, <2>4, <3>2 DEF Before
  <2>5. CASE i \in DOMAIN log
    <3>1. r \in Accessed(i) /\ img = log[i].reads[r]
      BY <2>1, <2>2, <2>3, <2>5 DEF Accessed
    <3>2. Before(i, r, img)
      BY <2>5, <3>1 DEF SerialInv
    <3>3. Before(i, r, img)'
      BY <1>2, <2>5, <3>1, <3>2, OldReads
    <3> QED  BY <2>2, <3>3 DEF Before
  <2> QED  BY <2>1, <2>4, <2>5
<1> QED  BY <1>1, <1>2, LogStep

LEMMA SInvInit == Init => SInv
<1> SUFFICES ASSUME Init PROVE SInv
  OBVIOUS
<1>1. CInv
  BY CInvInit
<1>2. /\ log = << >> /\ DOMAIN log = {}
      /\ \A t \in Threads : pc[t] = "fetch" /\ row_cnt[t] = 0 /\ seen[t] = NoReads
      /\ \A r \in Rows : data[r] = Image(InitVal)
  BY DEF Init
<1>3. HistoryInv
  BY <1>2 DEF HistoryInv, Logged, RowTimes, RowVersion, Lasts, WritersOf
<1>4. LeaseInv
  BY <1>2 DEF LeaseInv, Leased, Seen, Validated, Got, NoReads
<1>5. LogLease /\ SerialInv
  BY <1>2 DEF LogLease, SerialInv
<1> QED  BY <1>1, <1>3, <1>4, <1>5 DEF SInv

LEMMA SInvNext ==
    SInv /\ [Next]_vars /\ [\A r \in Rows : rts(r)' >= rts(r)]_vars => SInv'
<1> SUFFICES ASSUME SInv, [Next]_vars, [\A r \in Rows : rts(r)' >= rts(r)]_vars PROVE SInv'
  OBVIOUS
<1>1. CInv /\ HistoryInv /\ LeaseInv /\ LogLease /\ SerialInv
  BY DEF SInv
<1>2. CInv'
  BY <1>1, CInvNext
<1>3. ASSUME NEW t \in Threads, Step(t), Kept PROVE SInv'
  <2>1. HistoryInv' /\ LeaseInv'
    BY <1>1, <1>3, HistoryNext, LeaseNext
  <2>2. LogLease' /\ SerialInv'
    BY <1>1, <1>3, LogLeaseNext, SerialNext
  <2> QED  BY <1>2, <2>1, <2>2 DEF SInv
<1>4. CASE UNCHANGED vars
  <2> USE DEF vars, rowVars, txnVars, histVars
  <2>1. HistoryInv'
    BY <1>1, <1>4 DEF HistoryInv, Logged, RowTimes, RowVersion, Lasts, WritersOf, Pending,
                      ToInstall, Installing, NextRelease, WriteSet, RowsOf, rts
  <2>2. LeaseInv'
    BY <1>1, <1>4 DEF LeaseInv, Leased, Seen, Validated, Sure, Got, Lasts, WritersOf, Reads,
                      NextReq, rts
  <2>3. LogLease' /\ SerialInv'
    BY <1>1, <1>4 DEF LogLease, SerialInv, Accessed, Pending, ToInstall, NextRelease, rts,
                      Before, Writers, Precedes
  <2> QED  BY <1>2, <2>1, <2>2, <2>3 DEF SInv
<1> QED  BY <1>3, <1>4 DEF Next, Terminated, Kept

LEMMA SerialImplies == SInv => Serializable
<1> SUFFICES ASSUME SInv, NEW i \in DOMAIN log, NEW r \in Rows, log[i].reads[r] # NoImage
             PROVE  log[i].reads[r] = ImageBefore(i, r)
  BY DEF Serializable
<1>1. Before(i, r, log[i].reads[r]) /\ TypeOK
  BY DEF SInv, CInv, SerialInv, Accessed
<1>2. CASE Writers(i, r) = {}
  BY <1>1, <1>2 DEF Before, ImageBefore
<1>3. CASE Writers(i, r) # {}
  <2>1. PICK k \in Writers(i, r) :
           /\ log[i].reads[r] = Image(log[k].txn)
           /\ \A l \in Writers(i, r) : l = k \/ Precedes(l, k)
    BY <1>1, <1>3 DEF Before
  <2> DEFINE IsLast(n) == \A l \in Writers(i, r) : l = n \/ Precedes(l, n)
             j == CHOOSE n \in Writers(i, r) : IsLast(n)
  <2>2. j \in Writers(i, r) /\ IsLast(j)
    BY <2>1
  <2>3. j = k
    <3>1. \A n \in Writers(i, r) : n \in Nat /\ log[n].ts \in Nat
      BY <1>1, LogFacts DEF Writers
    <3>2. (j = k \/ Precedes(j, k)) /\ (k = j \/ Precedes(k, j))
      BY <2>1, <2>2
    <3> HIDE DEF j
    <3> QED  BY <2>2, <3>1, <3>2 DEF Precedes
  <2>4. ImageBefore(i, r) = Image(log[j].txn)
    BY <1>3 DEF ImageBefore
  <2> QED  BY <2>1, <2>3, <2>4
<1> QED  BY <1>2, <1>3

\* What the TICTOC build commits is serializable in the order of commit times, for
\* every number of threads, rows and transactions and every width of the lease field,
\* in every execution in which no try_renew shortens a lease.
THEOREM SerializableTheorem == Spec /\ LeasesKept => []Serializable
BY SInvInit, SInvNext, SerialImplies, PTL DEF Spec, LeasesKept
=============================================================================
