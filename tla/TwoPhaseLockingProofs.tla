----------------------- MODULE TwoPhaseLockingProofs -----------------------
(* The safety of two-phase locking, for every number of threads, rows and  *)
(* queries and for each of the three CC_ALGs: first of one row lock, then  *)
(* of the transactions, then what WAIT_DIE adds, and last that they refine *)
(* SerialStore.                                                            *)
EXTENDS TwoPhaseLocking, FiniteSetTheorems, SequenceTheorems, WellFoundedInduction, TLAPS

----------------------------------------------------------------------------
(***************************************************************************)
(* What lock_get and lock_release do to one row lock, for every number of  *)
(* transactions and every CC_ALG.                                          *)
(***************************************************************************)

\* The entries in the queue.
Queue(lk) == {lk.waiters[i] : i \in DOMAIN lk.waiters}

\* A consistent lock: nobody is entered twice, owners are compatible, and
\* lock_type describes them.
Consistent(lk) ==
    /\ lk \in RowLocks
    /\ \A e1, e2 \in lk.owners : e1.txn = e2.txn => e1 = e2
    /\ \A e1, e2 \in lk.owners :
          e1 # e2 => e1.type = "LOCK_SH" /\ e2.type = "LOCK_SH"
    /\ \A e \in lk.owners : e.type = lk.lock_type
    /\ lk.owners = {} <=> lk.lock_type = "LOCK_NONE"
    /\ \A i, j \in DOMAIN lk.waiters :
          lk.waiters[i].txn = lk.waiters[j].txn => i = j
    /\ \A i \in DOMAIN lk.waiters : \A e \in lk.owners : lk.waiters[i].txn # e.txn

\* The first waiter cannot join the owners.
HeadBlocked(lk) ==
    lk.waiters # << >> => conflict_lock(lk.lock_type, Head(lk.waiters).type)

----------------------------------------------------------------------------
(* Sequences.                                                              *)

\* A set of leading positions is 1..n for its cardinality n.
LEMMA PrefixCardinality ==
    ASSUME NEW L \in Nat, NEW P \in SUBSET (1..L),
           \A i \in P : \A j \in 1..i : j \in P
    PROVE  /\ Cardinality(P) \in 0..L
           /\ P = 1..Cardinality(P)
<1>1. IsFiniteSet(1..L) /\ Cardinality(1..L) = L
  BY FS_Interval
<1>2. IsFiniteSet(P) /\ Cardinality(P) \in Nat /\ Cardinality(P) <= L
  <2>1. IsFiniteSet(P) /\ Cardinality(P) <= Cardinality(1..L)
    BY <1>1, FS_Subset
  <2> QED  BY <1>1, <2>1, FS_CardinalityType
<1>3. ASSUME NEW i \in P PROVE i \in 1..Cardinality(P)
  <2>1. i \in 1..L /\ (1..i) \subseteq P
    OBVIOUS
  <2>2. Cardinality(1..i) = i
    BY <2>1, FS_Interval
  <2>3. Cardinality(1..i) <= Cardinality(P)
    BY <2>1, <1>2, FS_Subset
  <2> QED  BY <2>1, <2>2, <2>3, <1>2
<1>4. ASSUME NEW i \in 1..Cardinality(P) PROVE i \in P
  <2> SUFFICES ASSUME i \notin P PROVE FALSE
    OBVIOUS
  <2>1. i \in Nat /\ i >= 1
    BY <1>2
  <2>2. P \subseteq 1..(i - 1)
    <3> SUFFICES ASSUME NEW k \in P PROVE k \in 1..(i - 1)
      OBVIOUS
    <3>1. k \in 1..L
      OBVIOUS
    <3>2. ~ (i <= k)
      BY <3>1, <2>1
    <3> QED  BY <3>1, <3>2, <2>1
  <2>3. IsFiniteSet(1..(i - 1)) /\ Cardinality(1..(i - 1)) = i - 1
    BY <2>1, FS_Interval
  <2>4. Cardinality(P) <= Cardinality(1..(i - 1))
    BY <2>2, <2>3, FS_Subset
  <2> QED  BY <2>1, <2>3, <2>4, <1>2
<1>5. P = 1..Cardinality(P)
  BY <1>3, <1>4
<1> QED  BY <1>2, <1>5

\* v is s with e put in at place p.
Inserted(v, s, p, e) ==
    /\ v \in Seq(LockEntry)
    /\ Len(v) = Len(s) + 1
    /\ \A i \in 1..(Len(s) + 1) : v[i] = IF i < p THEN s[i] ELSE IF i = p THEN e ELSE s[i - 1]

LEMMA InsertAtProperties ==
    ASSUME NEW s \in Seq(LockEntry), NEW e \in LockEntry, NEW p \in 1..(Len(s) + 1)
    PROVE  Inserted(InsertAt(s, p, e), s, p, e)
<1> DEFINE a == SubSeq(s, 1, p - 1)
           b == SubSeq(s, p, Len(s))
<1>0. Len(s) \in Nat
  OBVIOUS
<1>1. a \in Seq(LockEntry) /\ Len(a) = p - 1 /\ \A i \in 1..(p - 1) : a[i] = s[i]
  BY <1>0
<1>2. b \in Seq(LockEntry) /\ Len(b) = Len(s) - p + 1
      /\ \A i \in 1..(Len(s) - p + 1) : b[i] = s[p + i - 1]
  BY <1>0
<1> HIDE DEF a, b
<1>3. /\ (a \o <<e>>) \in Seq(LockEntry)
      /\ Len(a \o <<e>>) = p
      /\ \A i \in 1..p : (a \o <<e>>)[i] = IF i < p THEN s[i] ELSE e
  BY <1>0, <1>1
<1>4. InsertAt(s, p, e) = (a \o <<e>>) \o b
  BY DEF InsertAt, a, b
<1> DEFINE c == a \o <<e>>
<1> HIDE DEF c
<1>5. c \in Seq(LockEntry) /\ Len(c) = p /\ \A i \in 1..p : c[i] = IF i < p THEN s[i] ELSE e
  BY <1>3 DEF c
<1>6. /\ c \o b \in Seq(LockEntry)
      /\ Len(c \o b) = Len(s) + 1
      /\ \A i \in 1..(Len(s) + 1) : (c \o b)[i] = IF i <= p THEN c[i] ELSE b[i - p]
  <2>1. /\ c \o b \in Seq(LockEntry)
        /\ Len(c \o b) = Len(c) + Len(b)
        /\ \A i \in 1..(Len(c) + Len(b)) :
             (c \o b)[i] = IF i <= Len(c) THEN c[i] ELSE b[i - Len(c)]
    BY <1>2, <1>5, ConcatProperties
  <2>2. Len(c) + Len(b) = Len(s) + 1
    BY <1>0, <1>2, <1>5
  <2> QED  BY <2>1, <2>2, <1>5
<1>7. ASSUME NEW i \in 1..(Len(s) + 1)
      PROVE (c \o b)[i] = IF i < p THEN s[i] ELSE IF i = p THEN e ELSE s[i - 1]
  <2>1. CASE i <= p
    BY <2>1, <1>0, <1>5, <1>6
  <2>2. CASE i > p
    <3>1. (c \o b)[i] = b[i - p]
      BY <2>2, <1>0, <1>6
    <3>2. b[i - p] = s[i - 1]
      BY <2>2, <1>0, <1>2
    <3> QED  BY <2>2, <3>1, <3>2
  <2>3. i <= p \/ i > p
    BY <1>0
  <2> QED  BY <2>1, <2>2, <2>3
<1> QED  BY <1>4, <1>6, <1>7 DEF c, Inserted

LEMMA RemoveAtProperties ==
    ASSUME NEW s \in Seq(LockEntry), NEW p \in 1..Len(s)
    PROVE  /\ RemoveAt(s, p) \in Seq(LockEntry)
           /\ Len(RemoveAt(s, p)) = Len(s) - 1
           /\ \A i \in 1..(Len(s) - 1) :
                RemoveAt(s, p)[i] = IF i < p THEN s[i] ELSE s[i + 1]
<1> DEFINE a == SubSeq(s, 1, p - 1)
           b == SubSeq(s, p + 1, Len(s))
<1>0. Len(s) \in Nat
  OBVIOUS
<1>1. a \in Seq(LockEntry) /\ Len(a) = p - 1 /\ \A i \in 1..(p - 1) : a[i] = s[i]
  BY <1>0
<1>2. b \in Seq(LockEntry) /\ Len(b) = Len(s) - p /\ \A i \in 1..(Len(s) - p) : b[i] = s[p + i]
  BY <1>0
<1> HIDE DEF a, b
<1>3. RemoveAt(s, p) = a \o b
  BY DEF RemoveAt, a, b
<1>4. /\ a \o b \in Seq(LockEntry)
      /\ Len(a \o b) = Len(s) - 1
      /\ \A i \in 1..(Len(s) - 1) :
           (a \o b)[i] = IF i <= p - 1 THEN a[i] ELSE b[i - (p - 1)]
  <2>1. /\ a \o b \in Seq(LockEntry)
        /\ Len(a \o b) = Len(a) + Len(b)
        /\ \A i \in 1..(Len(a) + Len(b)) :
             (a \o b)[i] = IF i <= Len(a) THEN a[i] ELSE b[i - Len(a)]
    BY <1>1, <1>2, ConcatProperties
  <2>2. Len(a) + Len(b) = Len(s) - 1
    BY <1>0, <1>1, <1>2
  <2> QED  BY <2>1, <2>2, <1>1
<1>5. ASSUME NEW i \in 1..(Len(s) - 1)
      PROVE (a \o b)[i] = IF i < p THEN s[i] ELSE s[i + 1]
  <2>1. CASE i < p
    BY <2>1, <1>0, <1>1, <1>4
  <2>2. CASE i >= p
    <3>1. (a \o b)[i] = b[i - (p - 1)]
      BY <2>2, <1>0, <1>4
    <3>2. b[i - (p - 1)] = s[i + 1]
      BY <2>2, <1>0, <1>2
    <3> QED  BY <2>2, <3>1, <3>2
  <2>3. i < p \/ i >= p
    BY <1>0
  <2> QED  BY <2>1, <2>2, <2>3
<1> QED  BY <1>3, <1>4, <1>5

LEMMA ConsistentEntries ==
    ASSUME NEW lk, Consistent(lk)
    PROVE  /\ \A e \in lk.owners : e \in LockEntry /\ e.txn \in Threads
           /\ \A e \in Queue(lk) : e \in LockEntry /\ e.txn \in Threads
           /\ WaitersOf(lk) = {e.txn : e \in Queue(lk)}
<1>1. lk.owners \in SUBSET LockEntry /\ lk.waiters \in Seq(LockEntry)
  BY DEF Consistent, RowLocks
<1>2. \A i \in DOMAIN lk.waiters : lk.waiters[i] \in LockEntry
  BY <1>1
<1>3. \A e \in LockEntry : e.txn \in Threads
  BY DEF LockEntry
<1>4. WaitersOf(lk) = {e.txn : e \in Queue(lk)}
  BY DEF WaitersOf, Queue
<1> QED  BY <1>1, <1>2, <1>3, <1>4 DEF Queue

----------------------------------------------------------------------------
(* lock_get.                                                               *)

LEMMA AddOwnerProperties ==
    ASSUME NEW lk, Consistent(lk), NEW e \in LockEntry,
           e.txn \notin OwnersOf(lk), e.txn \notin WaitersOf(lk),
           ~ conflict_lock(lk.lock_type, e.type)
    PROVE  /\ Consistent(AddOwner(lk, e))
           /\ HeadBlocked(lk) => HeadBlocked(AddOwner(lk, e))
           /\ AddOwner(lk, e).owners = lk.owners \cup {e}
           /\ AddOwner(lk, e).waiters = lk.waiters
<1> DEFINE new == AddOwner(lk, e)
<1>1. lk \in RowLocks
  BY DEF Consistent
<1>2. /\ new \in RowLocks
      /\ new.owners = lk.owners \cup {e}
      /\ new.waiters = lk.waiters
      /\ new.lock_type = e.type
  BY <1>1 DEF AddOwner, RowLocks, LockEntry
<1> HIDE DEF new
<1>3. \A o \in lk.owners : o.txn # e.txn
  BY DEF OwnersOf
<1>4. \A i \in DOMAIN lk.waiters : lk.waiters[i].txn # e.txn
  BY DEF WaitersOf
<1>5. lk.owners # {} => lk.lock_type = "LOCK_SH" /\ e.type = "LOCK_SH"
  BY <1>1 DEF Consistent, conflict_lock, RowLocks, LockEntry
<1>6. Consistent(new)
  BY <1>2, <1>3, <1>4, <1>5 DEF Consistent, LockEntry
<1>7. HeadBlocked(lk) => HeadBlocked(new)
  BY <1>1, <1>2, <1>5 DEF HeadBlocked, Consistent, conflict_lock, LockEntry
<1> QED  BY <1>2, <1>6, <1>7 DEF new

\* Where lock_get puts a waiter.
LEMMA WaitPosition ==
    ASSUME NEW w \in Seq(LockEntry), NEW t \in Threads, NEW tss \in [Threads -> Nat]
    PROVE  /\ Cardinality(Passed(w, t, tss)) \in 0..Len(w)
           /\ Passed(w, t, tss) = 1..Cardinality(Passed(w, t, tss))
<1>1. Len(w) \in Nat /\ DOMAIN w = 1..Len(w)
  OBVIOUS
<1>2. Passed(w, t, tss) \in SUBSET (1..Len(w))
  BY <1>1 DEF Passed
<1>3. \A i \in Passed(w, t, tss) : \A j \in 1..i : j \in Passed(w, t, tss)
  BY <1>1 DEF Passed
<1> QED  BY <1>1, <1>2, <1>3, PrefixCardinality

LEMMA AddWaiterProperties ==
    ASSUME NEW lk, Consistent(lk), NEW e \in LockEntry, NEW tss \in [Threads -> Nat],
           e.txn \notin OwnersOf(lk), e.txn \notin WaitersOf(lk),
           HeadBlocked(lk), MustNotJoin(lk, e.txn, e.type, tss)
    PROVE  /\ Consistent(AddWaiter(lk, e, tss))
           /\ HeadBlocked(AddWaiter(lk, e, tss))
           /\ AddWaiter(lk, e, tss).owners = lk.owners
           /\ Queue(AddWaiter(lk, e, tss)) = Queue(lk) \cup {e}
<1> DEFINE new == AddWaiter(lk, e, tss)
           w   == lk.waiters
           p   == IF CC_ALG = "WAIT_DIE" THEN Cardinality(Passed(w, e.txn, tss)) + 1
                  ELSE Len(w) + 1
<1>1. /\ lk \in RowLocks
      /\ w \in Seq(LockEntry)
      /\ e.txn \in Threads
  BY DEF Consistent, RowLocks, LockEntry
<1>2. Len(w) \in Nat /\ DOMAIN w = 1..Len(w)
  BY <1>1
<1>3. /\ Cardinality(Passed(w, e.txn, tss)) \in 0..Len(w)
      /\ Passed(w, e.txn, tss) = 1..Cardinality(Passed(w, e.txn, tss))
  BY <1>1, WaitPosition
<1>4. p \in 1..(Len(w) + 1)
  BY <1>2, <1>3
<1>5. new.owners = lk.owners /\ new.lock_type = lk.lock_type
      /\ new.waiters = InsertAt(w, p, e) /\ (InsertAt(w, p, e) \in Seq(LockEntry) => new \in RowLocks)
  BY <1>1 DEF AddWaiter, RowLocks
<1>6. p = 1 => w = << >> \/ conflict_lock(lk.lock_type, e.type)
  <2> SUFFICES ASSUME p = 1, w # << >> PROVE conflict_lock(lk.lock_type, e.type)
    OBVIOUS
  <2>1. CC_ALG = "WAIT_DIE" /\ 1 \notin Passed(w, e.txn, tss)
    BY <1>1, <1>2, <1>3
  <2>2. ~ (tss[e.txn] < tss[w[1].txn])
    BY <2>1, <1>1, <1>2 DEF Passed
  <2> QED  BY <2>1, <2>2, <1>1 DEF MustNotJoin
<1>7. w = << >> => conflict_lock(lk.lock_type, e.type)
  BY DEF MustNotJoin
<1>10. /\ \A i \in DOMAIN w : w[i].txn # e.txn
       /\ \A i, j \in DOMAIN w : w[i].txn = w[j].txn => i = j
       /\ \A i \in DOMAIN w : \A o \in lk.owners : w[i].txn # o.txn
       /\ \A o \in lk.owners : e.txn # o.txn
  BY DEF WaitersOf, OwnersOf, Consistent
<1>w. w = lk.waiters
  OBVIOUS
<1> HIDE DEF p, new, w
<1> DEFINE v == InsertAt(w, p, e)
<1>8. /\ v \in Seq(LockEntry)
      /\ Len(v) = Len(w) + 1
      /\ \A i \in 1..(Len(w) + 1) :
           v[i] = IF i < p THEN w[i] ELSE IF i = p THEN e ELSE w[i - 1]
  <2>1. w \in Seq(LockEntry) /\ e \in LockEntry /\ p \in 1..(Len(w) + 1)
    BY <1>1, <1>4
  <2>2. Inserted(InsertAt(w, p, e), w, p, e)
    BY <2>1, InsertAtProperties
  <2> QED  BY <2>2 DEF Inserted
<1> HIDE DEF v
<1>9. DOMAIN v = 1..(Len(w) + 1) /\ v # << >> /\ Head(v) = v[1]
  BY <1>2, <1>8
<1>p. p \in DOMAIN v /\ v[p] = e
  BY <1>2, <1>4, <1>8, <1>9
<1>11. \A i, j \in DOMAIN v : v[i].txn = v[j].txn => i = j
  <2> DEFINE k(i) == IF i < p THEN i ELSE i - 1
  <2>1. \A i \in DOMAIN v : i # p => k(i) \in DOMAIN w /\ v[i] = w[k(i)]
    BY <1>2, <1>4, <1>8, <1>9
  <2>2. \A i, j \in DOMAIN v : i # p /\ j # p /\ k(i) = k(j) => i = j
    BY <1>2, <1>4, <1>9
  <2> HIDE DEF k
  <2> QED  BY <2>1, <2>2, <1>p, <1>10
<1>12. \A i \in DOMAIN v : v[i] = e \/ \E j \in DOMAIN w : v[i] = w[j]
  <2> SUFFICES ASSUME NEW i \in DOMAIN v PROVE v[i] = e \/ \E j \in DOMAIN w : v[i] = w[j]
    OBVIOUS
  <2>1. CASE i < p
    BY <2>1, <1>2, <1>4, <1>8, <1>9
  <2>2. CASE i = p
    BY <2>2, <1>2, <1>4, <1>8, <1>9
  <2>3. CASE i > p
    <3>1. v[i] = w[i - 1] /\ i - 1 \in DOMAIN w
      BY <2>3, <1>2, <1>4, <1>8, <1>9
    <3> QED  BY <3>1
  <2>4. i < p \/ i = p \/ i > p
    BY <1>2, <1>4, <1>9
  <2> QED  BY <2>1, <2>2, <2>3, <2>4
<1>13. \A i \in DOMAIN v : \A o \in lk.owners : v[i].txn # o.txn
  BY <1>10, <1>12
<1>14. Consistent(new)
  BY <1>5, <1>8, <1>11, <1>13, <1>w DEF Consistent, v
<1>15. HeadBlocked(new)
  <2>1. CASE p = 1
    <3>1. v[1] = e
      BY <2>1, <1>2, <1>8
    <3> QED  BY <2>1, <3>1, <1>5, <1>6, <1>7, <1>9 DEF HeadBlocked, v
  <2>2. CASE p # 1
    <3>1. v[1] = w[1] /\ w # << >> /\ Head(w) = w[1]
      BY <2>2, <1>1, <1>2, <1>4, <1>8
    <3> QED  BY <3>1, <1>5, <1>9, <1>w DEF HeadBlocked, v
  <2> QED  BY <2>1, <2>2
<1>16. Queue(new) = Queue(lk) \cup {e}
  <2>1. \A i \in DOMAIN w : \E j \in DOMAIN v : v[j] = w[i]
    <3> SUFFICES ASSUME NEW i \in DOMAIN w PROVE \E j \in DOMAIN v : v[j] = w[i]
      OBVIOUS
    <3>1. CASE i < p
      BY <3>1, <1>2, <1>4, <1>8, <1>9
    <3>2. CASE i >= p
      <4>1. i + 1 \in DOMAIN v /\ v[i + 1] = w[i]
        BY <3>2, <1>2, <1>4, <1>8, <1>9
      <4> QED  BY <4>1
    <3>3. i < p \/ i >= p
      BY <1>2, <1>4
    <3> QED  BY <3>1, <3>2, <3>3
  <2>2. \E j \in DOMAIN v : v[j] = e
    BY <1>p
  <2>3. Queue(new) = {v[i] : i \in DOMAIN v}
    BY <1>5 DEF Queue, v
  <2>4. Queue(lk) = {w[i] : i \in DOMAIN w}
    BY <1>w DEF Queue
  <2>5. {v[i] : i \in DOMAIN v} = {w[i] : i \in DOMAIN w} \cup {e}
    BY <1>12, <2>1, <2>2
  <2> QED  BY <2>3, <2>4, <2>5
<1> QED  BY <1>5, <1>14, <1>15, <1>16 DEF new

----------------------------------------------------------------------------
(* lock_release.                                                           *)

LEMMA RemoveTxnProperties ==
    ASSUME NEW lk, Consistent(lk), NEW t \in Threads,
           t \in OwnersOf(lk) \cup WaitersOf(lk)
    PROVE  /\ Consistent(RemoveTxn(lk, t))
           /\ RemoveTxn(lk, t).owners = {e \in lk.owners : e.txn # t}
           /\ Queue(RemoveTxn(lk, t)) = {e \in Queue(lk) : e.txn # t}
<1> DEFINE new == RemoveTxn(lk, t)
           w   == lk.waiters
           rest == {e \in lk.owners : e.txn # t}
<1>1. /\ lk \in RowLocks
      /\ w \in Seq(LockEntry)
  BY DEF Consistent, RowLocks
<1>2. Len(w) \in Nat /\ DOMAIN w = 1..Len(w)
  BY <1>1
<1>3. CASE t \in OwnersOf(lk)
  <2>1. /\ new.owners = rest
        /\ new.waiters = w
        /\ new.lock_type = IF rest = {} THEN "LOCK_NONE" ELSE lk.lock_type
        /\ new \in RowLocks
    BY <1>1, <1>3 DEF RemoveTxn, RowLocks
  <2>2. \A i \in DOMAIN w : w[i].txn # t
    BY <1>3 DEF OwnersOf, Consistent
  <2> HIDE DEF new
  <2>3. Consistent(new)
    <3>1. \A e \in rest : e \in lk.owners
      OBVIOUS
    <3>2. \A e \in new.owners : e.type = new.lock_type
      BY <2>1 DEF Consistent
    <3>3. new.owners = {} <=> new.lock_type = "LOCK_NONE"
      BY <2>1 DEF Consistent
    <3> HIDE DEF rest
    <3> QED  BY <2>1, <3>1, <3>2, <3>3 DEF Consistent
  <2>4. Queue(new) = {e \in Queue(lk) : e.txn # t}
    BY <2>1, <2>2 DEF Queue
  <2> QED  BY <2>1, <2>3, <2>4 DEF new
<1>4. CASE t \notin OwnersOf(lk)
  <2> DEFINE p == CHOOSE j \in DOMAIN w : w[j].txn = t
  <2>1. \E j \in DOMAIN w : w[j].txn = t
    BY <1>4 DEF WaitersOf
  <2>2. p \in DOMAIN w /\ w[p].txn = t
    BY <2>1
  <2> HIDE DEF p
  <2>3. /\ RemoveAt(w, p) \in Seq(LockEntry)
        /\ Len(RemoveAt(w, p)) = Len(w) - 1
        /\ \A i \in 1..(Len(w) - 1) :
             RemoveAt(w, p)[i] = IF i < p THEN w[i] ELSE w[i + 1]
    BY <1>1, <1>2, <2>2, RemoveAtProperties
  <2> DEFINE v == RemoveAt(w, p)
  <2>4. /\ new.owners = lk.owners
        /\ new.lock_type = lk.lock_type
        /\ new.waiters = v
        /\ new \in RowLocks
    BY <1>1, <1>4, <2>3 DEF RemoveTxn, RowLocks, p
  <2>5. DOMAIN v = 1..(Len(w) - 1)
    BY <1>2, <2>2, <2>3
  <2>6. /\ \A i, j \in DOMAIN w : w[i].txn = w[j].txn => i = j
        /\ \A i \in DOMAIN w : \A o \in lk.owners : w[i].txn # o.txn
    BY DEF Consistent
  <2>w. w = lk.waiters
    OBVIOUS
  <2> DEFINE k(i) == IF i < p THEN i ELSE i + 1
  <2>7. \A i \in DOMAIN v : k(i) \in DOMAIN w /\ k(i) # p /\ v[i] = w[k(i)]
    BY <1>2, <2>2, <2>3, <2>5
  <2>8. \A i, j \in DOMAIN v : k(i) = k(j) => i = j
    BY <1>2, <2>2, <2>5
  <2>9. \A j \in DOMAIN w : j # p => \E i \in DOMAIN v : v[i] = w[j]
    <3> SUFFICES ASSUME NEW j \in DOMAIN w, j # p PROVE \E i \in DOMAIN v : v[i] = w[j]
      OBVIOUS
    <3>1. CASE j < p
      BY <3>1, <1>2, <2>2, <2>3, <2>5
    <3>2. CASE j > p
      <4>1. j - 1 \in DOMAIN v /\ v[j - 1] = w[j]
        BY <3>2, <1>2, <2>2, <2>3, <2>5
      <4> QED  BY <4>1
    <3>3. j < p \/ j > p
      BY <1>2, <2>2
    <3> QED  BY <3>1, <3>2, <3>3
  <2> HIDE DEF v, k, new, w
  <2>10. \A i, j \in DOMAIN v : v[i].txn = v[j].txn => i = j
    BY <2>6, <2>7, <2>8
  <2>11. \A i \in DOMAIN v : \A o \in lk.owners : v[i].txn # o.txn
    BY <2>6, <2>7
  <2>12. Consistent(new)
    BY <2>4, <2>10, <2>11 DEF Consistent
  <2>13. new.owners = rest
    BY <1>4, <2>4 DEF OwnersOf
  <2>14. Queue(new) = {e \in Queue(lk) : e.txn # t}
    <3>1. \A i \in DOMAIN v : v[i].txn # t
      BY <2>2, <2>6, <2>7
    <3>2. Queue(new) = {v[i] : i \in DOMAIN v} /\ Queue(lk) = {w[i] : i \in DOMAIN w}
      BY <2>4, <2>w DEF Queue
    <3> QED  BY <3>1, <3>2, <2>2, <2>7, <2>9
  <2> QED  BY <2>12, <2>13, <2>14 DEF new
<1> QED  BY <1>3, <1>4

\* The hand-over loop takes a prefix of the queue.
LEMMA GrantedPrefix ==
    ASSUME NEW lk \in RowLocks
    PROVE  /\ Cardinality(Granted(lk)) \in 0..Len(lk.waiters)
           /\ Granted(lk) = 1..Cardinality(Granted(lk))
<1>1. Len(lk.waiters) \in Nat /\ DOMAIN lk.waiters = 1..Len(lk.waiters)
  BY DEF RowLocks
<1>2. Granted(lk) \in SUBSET (1..Len(lk.waiters))
  BY <1>1 DEF Granted
<1>3. \A i \in Granted(lk) : \A j \in 1..i : j \in Granted(lk)
  BY <1>1 DEF Granted
<1> QED  BY <1>1, <1>2, <1>3, PrefixCardinality

\* Handing the row over keeps the lock consistent, loses no entry, and stops
\* at a waiter the owners block.
LEMMA GrantWaitersProperties ==
    ASSUME NEW lk, Consistent(lk)
    PROVE  /\ Consistent(GrantWaiters(lk))
           /\ HeadBlocked(GrantWaiters(lk))
           /\ GrantWaiters(lk).owners
                 = lk.owners \cup {lk.waiters[i] : i \in Granted(lk)}
           /\ Queue(GrantWaiters(lk)) \subseteq Queue(lk)
           /\ Queue(lk) \subseteq GrantWaiters(lk).owners \cup Queue(GrantWaiters(lk))
<1> DEFINE new == GrantWaiters(lk)
           w   == lk.waiters
           L   == Len(w)
           n   == Cardinality(Granted(lk))
           v   == SubSeq(w, n + 1, L)
<1>1. /\ lk \in RowLocks
      /\ w \in Seq(LockEntry)
      /\ L \in Nat
      /\ DOMAIN w = 1..L
  BY DEF Consistent, RowLocks
<1>2. n \in 0..L /\ Granted(lk) = 1..n
  BY <1>1, GrantedPrefix
<1>3. ASSUME NEW j \in 1..L
      PROVE  j \in 1..n <=>
               \A i \in 1..j : ~ conflict_lock(IF i = 1 THEN lk.lock_type ELSE w[i - 1].type,
                                             w[i].type)
  BY <1>1, <1>2, <1>3 DEF Granted
<1>w. w = lk.waiters
  OBVIOUS
<1>4. /\ \A i, j \in 1..L : w[i].txn = w[j].txn => i = j
      /\ \A i \in 1..L : \A o \in lk.owners : w[i].txn # o.txn
      /\ \A i \in 1..L : w[i] \in LockEntry /\ w[i].type \in {"LOCK_SH", "LOCK_EX"}
  <2>1. \A i \in 1..L : w[i] \in LockEntry
    BY <1>1
  <2>2. \A e \in LockEntry : e.type \in {"LOCK_SH", "LOCK_EX"}
    BY DEF LockEntry
  <2>3. /\ \A i, j \in 1..L : w[i].txn = w[j].txn => i = j
        /\ \A i \in 1..L : \A o \in lk.owners : w[i].txn # o.txn
    BY <1>1 DEF Consistent
  <2> QED  BY <2>1, <2>2, <2>3
<1>5. /\ new.lock_type = IF n = 0 THEN lk.lock_type ELSE w[n].type
      /\ new.owners = lk.owners \cup {w[i] : i \in 1..n}
      /\ new.waiters = v
      /\ new = [lock_type |-> new.lock_type, owners |-> new.owners,
                waiters |-> new.waiters]
  BY <1>2 DEF GrantWaiters
<1> HIDE DEF new, n, w
<1>6. /\ v \in Seq(LockEntry)
      /\ Len(v) = L - n
      /\ DOMAIN v = 1..(L - n)
      /\ \A i \in 1..(L - n) : v[i] = w[n + i]
  <2>1. L \in Nat /\ n \in Nat /\ n <= L
    BY <1>1, <1>2
  <2>2. \A i \in (n + 1)..L : w[i] \in LockEntry
    BY <2>1, <1>4
  <2> HIDE DEF L
  <2>3. /\ v \in Seq(LockEntry)
        /\ Len(v) = IF n + 1 <= L THEN L - (n + 1) + 1 ELSE 0
        /\ \A i \in 1..(L - (n + 1) + 1) : v[i] = w[(n + 1) + i - 1]
    BY <2>1, <2>2, SubSeqProperties
  <2>4. /\ Len(v) = L - n
        /\ L - (n + 1) + 1 = L - n
        /\ \A i \in 1..(L - n) : (n + 1) + i - 1 = n + i
    BY <2>1, <2>3
  <2>5. DOMAIN v = 1..(L - n)
    BY <2>3, <2>4
  <2> QED  BY <2>3, <2>4, <2>5
<1> HIDE DEF v, L
<1>7. new \in RowLocks
  <2>1. new.lock_type \in {"LOCK_NONE", "LOCK_SH", "LOCK_EX"}
    BY <1>1, <1>2, <1>4, <1>5 DEF RowLocks
  <2>2. new.owners \in SUBSET LockEntry
    BY <1>1, <1>2, <1>4, <1>5 DEF RowLocks
  <2> QED  BY <2>1, <2>2, <1>5, <1>6 DEF RowLocks
\* Compatible with its predecessor, a granted waiter shares the row with it.
<1>8. ASSUME NEW i \in 2..n
      PROVE  w[i].type = "LOCK_SH" /\ w[i - 1].type = "LOCK_SH"
  <2>1. i \in 1..L /\ i - 1 \in 1..L /\ i \in 1..n /\ i \in 1..i /\ i # 1
    BY <1>1, <1>2
  <2>2. ~ conflict_lock(w[i - 1].type, w[i].type)
    BY <2>1, <1>3
  <2> QED  BY <2>1, <2>2, <1>4 DEF conflict_lock
<1>9. n > 0 => ~ conflict_lock(lk.lock_type, w[1].type)
  <2> SUFFICES ASSUME n > 0 PROVE ~ conflict_lock(lk.lock_type, w[1].type)
    OBVIOUS
  <2>1. 1 \in 1..L /\ 1 \in 1..n /\ 1 \in 1..1
    BY <1>1, <1>2
  <2> QED  BY <2>1, <1>3
<1>10. n > 1 => \A i \in 1..n : w[i].type = "LOCK_SH"
  <2> SUFFICES ASSUME n > 1, NEW i \in 1..n PROVE w[i].type = "LOCK_SH"
    OBVIOUS
  <2>1. CASE i = 1
    <3>1. 2 \in 2..n /\ 2 - 1 = 1
      BY <1>2
    <3> QED  BY <2>1, <3>1, <1>8
  <2>2. CASE i # 1
    <3>1. i \in 2..n
      BY <2>2, <1>2
    <3> QED  BY <3>1, <1>8
  <2> QED  BY <2>1, <2>2
<1>11. n > 0 /\ lk.owners # {} => w[1].type = "LOCK_SH" /\ lk.lock_type = "LOCK_SH"
  <2> SUFFICES ASSUME n > 0, lk.owners # {}
               PROVE  w[1].type = "LOCK_SH" /\ lk.lock_type = "LOCK_SH"
    OBVIOUS
  <2>1. 1 \in 1..L
    BY <1>1, <1>2
  <2>2. lk.lock_type # "LOCK_NONE" /\ lk.lock_type \in {"LOCK_NONE", "LOCK_SH", "LOCK_EX"}
    BY <1>1 DEF Consistent, RowLocks
  <2> QED  BY <2>1, <2>2, <1>4, <1>9 DEF conflict_lock
\* So the granted waiters all take the type the lock ends up with.
<1>12. \A i \in 1..n : w[i].type = new.lock_type
  <2> SUFFICES ASSUME NEW i \in 1..n PROVE w[i].type = new.lock_type
    OBVIOUS
  <2>1. n \in 1..n /\ n # 0
    BY <1>1, <1>2
  <2>2. CASE n = 1
    <3>1. i = n
      BY <2>2, <1>2
    <3> QED  BY <3>1, <2>1, <1>5
  <2>3. CASE n > 1
    BY <2>1, <2>3, <1>5, <1>10
  <2>4. n = 1 \/ n > 1
    BY <2>1, <1>1, <1>2
  <2> QED  BY <2>2, <2>3, <2>4
<1>13. \A o \in lk.owners : o.type = new.lock_type
  <2> SUFFICES ASSUME NEW o \in lk.owners PROVE o.type = new.lock_type
    OBVIOUS
  <2>1. o.type = lk.lock_type
    BY DEF Consistent
  <2>2. CASE n = 0
    BY <2>1, <2>2, <1>5
  <2>3. CASE n > 0
    <3>1. 1 \in 1..n
      BY <2>3, <1>2, <1>1
    <3> QED  BY <2>1, <2>3, <3>1, <1>11, <1>12
  <2>4. n = 0 \/ n > 0
    BY <1>1, <1>2
  <2> QED  BY <2>2, <2>3, <2>4
<1>14. \A e \in new.owners : e.type = new.lock_type
  BY <1>5, <1>12, <1>13
<1>15. new.owners = {} <=> new.lock_type = "LOCK_NONE"
  <2>1. CASE n = 0
    <3>1. new.owners = lk.owners /\ new.lock_type = lk.lock_type
      BY <2>1, <1>5
    <3> QED  BY <3>1 DEF Consistent
  <2>2. CASE n > 0
    <3>1. n \in 1..n /\ n \in 1..L /\ n # 0
      BY <2>2, <1>1, <1>2
    <3> QED  BY <3>1, <1>4, <1>5
  <2>3. n = 0 \/ n > 0
    BY <1>1, <1>2
  <2> QED  BY <2>1, <2>2, <2>3
<1>16. \A e1, e2 \in new.owners : e1.txn = e2.txn => e1 = e2
  <2>1. \A i \in 1..n : i \in 1..L
    BY <1>1, <1>2
  <2> QED  BY <2>1, <1>4, <1>5 DEF Consistent
<1>17. \A e1, e2 \in new.owners : e1 # e2 => e1.type = "LOCK_SH" /\ e2.type = "LOCK_SH"
  <2> SUFFICES ASSUME NEW e1 \in new.owners, NEW e2 \in new.owners, e1 # e2
               PROVE  new.lock_type = "LOCK_SH"
    BY <1>14
  <2>1. CASE n = 0
    <3>1. new.owners = lk.owners
      BY <2>1, <1>5
    <3> QED  BY <3>1, <1>14 DEF Consistent
  <2>2. CASE n = 1
    <3>1. 1 \in 1..n /\ \A i \in 1..n : i = 1
      BY <2>2, <1>1, <1>2
    <3>2. lk.owners # {}
      BY <3>1, <1>5
    <3> QED  BY <2>2, <3>1, <3>2, <1>11, <1>12, <1>1
  <2>3. CASE n > 1
    <3>1. n \in 1..n
      BY <2>3, <1>1, <1>2
    <3> QED  BY <2>3, <3>1, <1>10, <1>12
  <2>4. n = 0 \/ n = 1 \/ n > 1
    BY <1>1, <1>2
  <2> QED  BY <2>1, <2>2, <2>3, <2>4
<1>18. \A i, j \in DOMAIN v : v[i].txn = v[j].txn => i = j
  <2>1. \A i \in DOMAIN v : n + i \in 1..L /\ v[i] = w[n + i]
    BY <1>1, <1>2, <1>6
  <2>2. \A i, j \in DOMAIN v : n + i = n + j => i = j
    BY <1>1, <1>2, <1>6
  <2> QED  BY <2>1, <2>2, <1>4
<1>19. \A i \in DOMAIN v : \A e \in new.owners : v[i].txn # e.txn
  <2>1. \A i \in DOMAIN v : n + i \in 1..L /\ n + i \notin 1..n /\ v[i] = w[n + i]
    BY <1>1, <1>2, <1>6
  <2>2. \A i \in 1..n : i \in 1..L
    BY <1>1, <1>2
  <2> QED  BY <2>1, <2>2, <1>4, <1>5
<1>20. Consistent(new)
  BY <1>5, <1>7, <1>14, <1>15, <1>16, <1>17, <1>18, <1>19 DEF Consistent
<1>21. HeadBlocked(new)
  <2> SUFFICES ASSUME v # << >> PROVE conflict_lock(new.lock_type, Head(v).type)
    BY <1>5 DEF HeadBlocked
  <2>1. /\ n + 1 \in 1..L
        /\ n + 1 \notin 1..n
        /\ Head(v) = w[n + 1]
    BY <1>1, <1>2, <1>6
  <2>2. PICK i \in 1..(n + 1) :
             conflict_lock(IF i = 1 THEN lk.lock_type ELSE w[i - 1].type, w[i].type)
    BY <2>1, <1>3
  <2>3. i \notin 1..n
    <3> SUFFICES ASSUME i \in 1..n PROVE FALSE
      OBVIOUS
    <3>1. i \in 1..L /\ i \in 1..i
      BY <1>1, <1>2
    <3> QED  BY <3>1, <2>2, <1>3
  <2>4. i = n + 1
    BY <2>3, <1>1, <1>2
  <2>5. CASE n = 0
    BY <2>1, <2>2, <2>4, <2>5, <1>5
  <2>6. CASE n # 0
    <3>1. i # 1 /\ i - 1 = n
      BY <2>4, <2>6, <1>1, <1>2
    <3> QED  BY <2>1, <2>2, <2>4, <2>6, <3>1, <1>5
  <2> QED  BY <2>5, <2>6
<1>22. Queue(new) = {v[i] : i \in DOMAIN v} /\ Queue(lk) = {w[i] : i \in 1..L}
  BY <1>1, <1>5, <1>w DEF Queue
<1>23. Queue(new) \subseteq Queue(lk)
  <2>1. \A i \in DOMAIN v : n + i \in 1..L /\ v[i] = w[n + i]
    BY <1>1, <1>2, <1>6
  <2> QED  BY <2>1, <1>22
<1>24. Queue(lk) \subseteq new.owners \cup Queue(new)
  <2> SUFFICES ASSUME NEW j \in 1..L PROVE w[j] \in new.owners \cup Queue(new)
    BY <1>22
  <2>1. CASE j \in 1..n
    BY <2>1, <1>5
  <2>2. CASE j \notin 1..n
    <3>1. j - n \in DOMAIN v /\ v[j - n] = w[j]
      BY <2>2, <1>1, <1>2, <1>6
    <3> QED  BY <3>1, <1>22
  <2> QED  BY <2>1, <2>2
<1> QED  BY <1>2, <1>5, <1>20, <1>21, <1>23, <1>24, <1>w DEF new

\* lock_release, in the terms TwoPhaseLockingProofs uses.
LEMMA LockReleaseProperties ==
    ASSUME NEW lk, Consistent(lk), NEW t \in Threads,
           t \in OwnersOf(lk) \cup WaitersOf(lk)
    PROVE  /\ Consistent(LockRelease(lk, t))
           /\ HeadBlocked(LockRelease(lk, t))
           /\ \A e \in lk.owners : e.txn # t => e \in LockRelease(lk, t).owners
           /\ \A e \in Queue(lk) :
                 e.txn # t => e \in LockRelease(lk, t).owners \cup Queue(LockRelease(lk, t))
           /\ \A e \in LockRelease(lk, t).owners :
                 e.txn # t /\ (e \in lk.owners \/ e \in Queue(lk))
           /\ \A e \in Queue(LockRelease(lk, t)) : e.txn # t /\ e \in Queue(lk)
           /\ WokenBy(lk, t) \subseteq OwnersOf(LockRelease(lk, t))
           /\ OwnersOf(LockRelease(lk, t)) \subseteq OwnersOf(lk) \cup WokenBy(lk, t)
           /\ \A u \in WokenBy(lk, t) : u # t /\ \E e \in Queue(lk) : e.txn = u
<1> DEFINE rem == RemoveTxn(lk, t)
           new == LockRelease(lk, t)
<1>1. /\ Consistent(rem)
      /\ rem.owners = {e \in lk.owners : e.txn # t}
      /\ Queue(rem) = {e \in Queue(lk) : e.txn # t}
  BY RemoveTxnProperties
<1>2. new = GrantWaiters(rem)
  BY DEF LockRelease
<1>3. WokenBy(lk, t) = {rem.waiters[i].txn : i \in Granted(rem)}
  BY DEF WokenBy
<1>4. \A i \in Granted(rem) : rem.waiters[i] \in Queue(rem)
  BY DEF Granted, Queue
<1> HIDE DEF rem, new
<1>5. /\ Consistent(new)
      /\ HeadBlocked(new)
      /\ new.owners = rem.owners \cup {rem.waiters[i] : i \in Granted(rem)}
      /\ Queue(new) \subseteq Queue(rem)
      /\ Queue(rem) \subseteq new.owners \cup Queue(new)
  BY <1>1, <1>2, GrantWaitersProperties
<1>6. \A e \in new.owners : e.txn # t /\ (e \in lk.owners \/ e \in Queue(lk))
  BY <1>1, <1>4, <1>5
<1>7. WokenBy(lk, t) \subseteq OwnersOf(new)
  BY <1>3, <1>5 DEF OwnersOf
<1>8. OwnersOf(new) \subseteq OwnersOf(lk) \cup WokenBy(lk, t)
  BY <1>1, <1>3, <1>5 DEF OwnersOf
<1>9. \A u \in WokenBy(lk, t) : u # t /\ \E e \in Queue(lk) : e.txn = u
  BY <1>1, <1>3, <1>4
<1> QED  BY <1>1, <1>5, <1>6, <1>7, <1>8, <1>9 DEF new

----------------------------------------------------------------------------
(***************************************************************************)
(* The transactions.                                                       *)
(***************************************************************************)

\* A thread between two queries holds nothing; a running one has a query and
\* never counts more accesses than requests.
QueryInv ==
    \A t \in Threads :
        /\ pc[t] \in {"fetch", "done"} => row_cnt[t] = 0
        /\ pc[t] \notin {"fetch", "done"} => query[t] \in Queries
        /\ row_cnt[t] <= Len(query[t])
        /\ Waiting(t) \/ pc[t] = "access" => row_cnt[t] < Len(query[t])
        /\ pc[t] = "compute" => row_cnt[t] > 0
        /\ pc[t] # "done" => txn_cnt[t] < MaxTxn

LockInv == \A r \in Rows : Consistent(lock[r]) /\ HeadBlocked(lock[r])

\* The lock table knows what the transactions know.
EntryOfReq(t, i) == [txn |-> t, type |-> LockType(query[t][i].type)]

OwnsAccessed ==
    \A t \in Threads : \A i \in 1..row_cnt[t] :
        EntryOfReq(t, i) \in lock[query[t][i].row].owners

OwnsGranted ==
    \A t \in Threads :
        pc[t] = "access" => EntryOf(t) \in lock[NextReq(t).row].owners

EnteredWaiting ==
    \A t \in Threads :
        Waiting(t) => /\ EntryOf(t) \in lock[NextReq(t).row].owners
                                          \cup Queue(lock[NextReq(t).row])
                      /\ lock_ready[t] <=> t \in OwnersOf(lock[NextReq(t).row])

\* ... and nothing else.
OwnersJustified ==
    \A r \in Rows : \A e \in lock[r].owners : Accessed(e.txn, r) \/ Pending(e.txn, r)

QueueJustified ==
    \A r \in Rows : \A e \in Queue(lock[r]) : Waiting(e.txn) /\ Pending(e.txn, r)

\* The image of a row being written has been saved.
OrigInv ==
    \A t \in Threads : \A i \in 1..row_cnt[t] :
        query[t][i].type = "WR" => orig_data[t][query[t][i].row] \in Values

EntryInv ==
    /\ OwnsAccessed /\ OwnsGranted /\ EnteredWaiting
    /\ OwnersJustified /\ QueueJustified

IInv == TypeOK /\ QueryInv /\ LockInv /\ EntryInv /\ OrigInv

----------------------------------------------------------------------------
(* Facts about queries.                                                    *)

LEMMA QueryFacts ==
    ASSUME NEW q \in Queries
    PROVE  /\ q \in Seq(Request) /\ q # << >>
           /\ Len(q) \in Nat
           /\ \A i \in 1..Len(q) : q[i] \in Request /\ q[i].row \in Rows
                                  /\ q[i].type \in {"RD", "WR"}
           /\ \A i, j \in 1..Len(q) : q[i].row = q[j].row => i = j
<1>1. q \in Seq(Request) /\ q # << >> /\ Len(q) \in Nat /\ DOMAIN q = 1..Len(q)
  BY QueriesAssumption
<1>2. \A i \in 1..Len(q) : q[i] \in Request
  BY <1>1
<1>3. \A x \in Request : x.row \in Rows /\ x.type \in {"RD", "WR"}
  BY DEF Request
<1>4. \A i, j \in 1..Len(q) : q[i].row = q[j].row => i = j
  BY <1>1, QueriesAssumption
<1> QED  BY <1>1, <1>2, <1>3, <1>4

\* The requests of a running thread.
LEMMA RequestFacts ==
    ASSUME TypeOK, QueryInv, NEW t \in Threads
    PROVE  /\ row_cnt[t] \in Nat
           /\ row_cnt[t] = 0 => (1..row_cnt[t]) = {}
           /\ row_cnt[t] > 0 => query[t] \in Queries
           /\ \A i \in 1..row_cnt[t] :
                 /\ i \in 1..Len(query[t])
                 /\ query[t] \in Queries
                 /\ query[t][i].row \in Rows
                 /\ query[t][i].type \in {"RD", "WR"}
<1>1. row_cnt[t] \in Nat /\ row_cnt[t] <= Len(query[t])
  BY DEF TypeOK, QueryInv
<1>2. row_cnt[t] > 0 => query[t] \in Queries
  BY <1>1 DEF QueryInv
<1>3. ASSUME NEW i \in 1..row_cnt[t]
      PROVE  /\ i \in 1..Len(query[t])
             /\ query[t] \in Queries
             /\ query[t][i].row \in Rows
             /\ query[t][i].type \in {"RD", "WR"}
  <2>1. query[t] \in Queries
    BY <1>1, <1>2
  <2>2. Len(query[t]) \in Nat
    BY <2>1, QueryFacts
  <2>3. i \in 1..Len(query[t])
    BY <2>2, <1>1
  <2> QED  BY <2>1, <2>3, QueryFacts
<1> QED  BY <1>1, <1>2, <1>3

LEMMA NextReqFacts ==
    ASSUME TypeOK, QueryInv, NEW t \in Threads, query[t] \in Queries,
           row_cnt[t] < Len(query[t])
    PROVE  /\ row_cnt[t] + 1 \in 1..Len(query[t])
           /\ NextReq(t).row \in Rows
           /\ NextReq(t).type \in {"RD", "WR"}
           /\ EntryOf(t) \in LockEntry
           /\ EntryOf(t).txn = t
           /\ \A i \in 1..row_cnt[t] : query[t][i].row # NextReq(t).row
<1>1. row_cnt[t] \in Nat /\ Len(query[t]) \in Nat
  BY QueryFacts DEF TypeOK
<1>2. row_cnt[t] + 1 \in 1..Len(query[t])
  BY <1>1
<1>3. NextReq(t).row \in Rows /\ NextReq(t).type \in {"RD", "WR"}
  BY <1>2, QueryFacts DEF NextReq
<1>4. EntryOf(t) \in LockEntry /\ EntryOf(t).txn = t
  BY <1>3 DEF EntryOf, LockEntry, LockType
<1>5. ASSUME NEW i \in 1..row_cnt[t] PROVE query[t][i].row # NextReq(t).row
  <2>1. i \in 1..Len(query[t]) /\ i # row_cnt[t] + 1
    BY <1>1
  <2> QED  BY <2>1, <1>2, QueryFacts DEF NextReq
<1> QED  BY <1>2, <1>3, <1>4, <1>5

----------------------------------------------------------------------------
LEMMA IInvInit == Init => IInv
<1> SUFFICES ASSUME Init PROVE IInv
  OBVIOUS
<1>1. FreeLock \in RowLocks /\ DOMAIN FreeLock.waiters = {} /\ FreeLock.owners = {}
      /\ FreeLock.lock_type = "LOCK_NONE" /\ FreeLock.waiters = << >>
  BY DEF FreeLock, RowLocks
<1>2. \A r \in Rows : lock[r] = FreeLock
  BY DEF Init
<1>3. Consistent(FreeLock) /\ HeadBlocked(FreeLock) /\ Queue(FreeLock) = {}
  BY <1>1 DEF Consistent, HeadBlocked, Queue
<1>4. TypeOK
  BY <1>1, BoundsAssumption DEF Init, TypeOK, NoQuery, NoReads, Values
<1>5. QueryInv
  BY BoundsAssumption DEF Init, QueryInv, Waiting, NoQuery
<1>6. LockInv
  BY <1>2, <1>3 DEF LockInv
<1>7. EntryInv
  <2>1. \A t \in Threads : row_cnt[t] = 0 /\ ~ Waiting(t) /\ pc[t] # "access"
    BY DEF Init, Waiting
  <2> QED  BY <2>1, <1>1, <1>2, <1>3 DEF EntryInv, OwnsAccessed, OwnsGranted,
         EnteredWaiting, OwnersJustified, QueueJustified
<1>8. OrigInv
  BY DEF Init, OrigInv
<1> QED  BY <1>4, <1>5, <1>6, <1>7, <1>8 DEF IInv

----------------------------------------------------------------------------
(* Steps that leave the locks alone.                                       *)

\* What a thread claims of the locks is the same before and after.
SameClaims(t) ==
    /\ row_cnt'[t] = row_cnt[t]
    /\ Waiting(t)' = Waiting(t)
    /\ (pc[t] = "access")' = (pc[t] = "access")
    /\ lock_ready'[t] = lock_ready[t]
    /\ \/ query'[t] = query[t]
       \/ row_cnt[t] = 0 /\ ~ Waiting(t) /\ pc[t] # "access"

LEMMA ClaimsStable ==
    ASSUME EntryInv, LockInv, lock' = lock, \A t \in Threads : SameClaims(t)
    PROVE  EntryInv' /\ LockInv'
<1>1. \A t \in Threads : \A r :
         /\ Waiting(t) \/ pc[t] = "access" => NextReq(t)' = NextReq(t) /\ EntryOf(t)' = EntryOf(t)
         /\ Accessed(t, r)' = Accessed(t, r)
         /\ Pending(t, r)' = Pending(t, r)
         /\ \A i \in 1..row_cnt[t] : query'[t] = query[t]
                                   /\ EntryOfReq(t, i)' = EntryOfReq(t, i)
  BY DEF SameClaims, NextReq, EntryOf, Accessed, Pending, EntryOfReq
<1>2. \A r \in Rows : \A e \in lock[r].owners \cup Queue(lock[r]) : e.txn \in Threads
  BY ConsistentEntries DEF LockInv
<1>3. OwnsAccessed'
  BY <1>1 DEF EntryInv, OwnsAccessed, SameClaims
<1>4. OwnsGranted'
  BY <1>1 DEF EntryInv, OwnsGranted, SameClaims
<1>5. EnteredWaiting'
  BY <1>1 DEF EntryInv, EnteredWaiting, SameClaims
<1>6. OwnersJustified'
  BY <1>1, <1>2 DEF EntryInv, OwnersJustified, SameClaims
<1>7. QueueJustified'
  BY <1>1, <1>2 DEF EntryInv, QueueJustified, SameClaims
<1>8. LockInv'
  BY DEF LockInv
<1> QED  BY <1>3, <1>4, <1>5, <1>6, <1>7, <1>8 DEF EntryInv

LEMMA StepFetchNew ==
    ASSUME IInv, NEW t \in Threads, FetchNew(t)
    PROVE  IInv'
<1> USE DEF FetchNew, Goto, txnVars, tsVars, loopVars, Start
<1>1. TypeOK'
  BY DEF IInv, TypeOK
<1>2. QueryInv'
  BY QueryFacts DEF IInv, TypeOK, QueryInv, Waiting
<1>3. \A u \in Threads : SameClaims(u)
  BY DEF IInv, TypeOK, QueryInv, SameClaims, Waiting
<1>4. EntryInv' /\ LockInv'
  BY <1>3, ClaimsStable DEF IInv
<1>5. OrigInv'
  BY DEF IInv, TypeOK, QueryInv, OrigInv
<1> QED  BY <1>1, <1>2, <1>4, <1>5 DEF IInv

LEMMA StepFetchRetry ==
    ASSUME IInv, NEW t \in Threads, FetchRetry(t)
    PROVE  IInv'
<1> USE DEF FetchRetry, Goto, txnVars, tsVars, loopVars, Start, NoQuery
<1>1. TypeOK'
  BY DEF IInv, TypeOK
<1>2. QueryInv'
  BY QueryFacts DEF IInv, TypeOK, QueryInv, Waiting
<1>3. \A u \in Threads : SameClaims(u)
  BY DEF IInv, TypeOK, QueryInv, SameClaims, Waiting
<1>4. EntryInv' /\ LockInv'
  BY <1>3, ClaimsStable DEF IInv
<1>5. OrigInv'
  BY DEF IInv, TypeOK, QueryInv, OrigInv
<1> QED  BY <1>1, <1>2, <1>4, <1>5 DEF IInv

LEMMA StepLockGetAbort ==
    ASSUME IInv, NEW t \in Threads, LockGetAbort(t)
    PROVE  IInv'
<1> USE DEF LockGetAbort, Goto, txnVars, tsVars, loopVars, Asks
<1>1. TypeOK'
  BY DEF IInv, TypeOK
<1>2. QueryInv'
  BY DEF IInv, TypeOK, QueryInv, Waiting
<1>3. \A u \in Threads : SameClaims(u)
  BY DEF IInv, TypeOK, QueryInv, SameClaims, Waiting
<1>4. EntryInv' /\ LockInv'
  BY <1>3, ClaimsStable DEF IInv
<1>5. OrigInv'
  BY DEF IInv, TypeOK, QueryInv, OrigInv
<1> QED  BY <1>1, <1>2, <1>4, <1>5 DEF IInv

LEMMA StepEnterWait ==
    ASSUME IInv, NEW t \in Threads, EnterWait(t)
    PROVE  IInv'
<1> USE DEF EnterWait, Goto, txnVars, tsVars, loopVars
<1>1. TypeOK'
  BY DEF IInv, TypeOK
<1>2. QueryInv'
  BY DEF IInv, TypeOK, QueryInv, Waiting
<1>3. \A u \in Threads : SameClaims(u)
  BY DEF IInv, TypeOK, QueryInv, SameClaims, Waiting
<1>4. EntryInv' /\ LockInv'
  BY <1>3, ClaimsStable DEF IInv
<1>5. OrigInv'
  BY DEF IInv, TypeOK, QueryInv, OrigInv
<1> QED  BY <1>1, <1>2, <1>4, <1>5 DEF IInv

LEMMA StepTimeout ==
    ASSUME IInv, NEW t \in Threads, Timeout(t)
    PROVE  IInv'
<1> USE DEF Timeout, Goto, txnVars, tsVars, loopVars
<1>1. TypeOK'
  BY DEF IInv, TypeOK
<1>2. QueryInv'
  BY DEF IInv, TypeOK, QueryInv, Waiting
<1>3. \A u \in Threads : SameClaims(u)
  BY DEF IInv, TypeOK, QueryInv, SameClaims, Waiting
<1>4. EntryInv' /\ LockInv'
  BY <1>3, ClaimsStable DEF IInv
<1>5. OrigInv'
  BY DEF IInv, TypeOK, QueryInv, OrigInv
<1> QED  BY <1>1, <1>2, <1>4, <1>5 DEF IInv

LEMMA StepDetectCycle ==
    ASSUME IInv, NEW t \in Threads, DetectCycle(t)
    PROVE  IInv'
<1> USE DEF DetectCycle, Goto, txnVars, tsVars, loopVars
<1>1. TypeOK'
  BY DEF IInv, TypeOK
<1>2. QueryInv'
  BY DEF IInv, TypeOK, QueryInv, Waiting
<1>3. \A u \in Threads : SameClaims(u)
  BY DEF IInv, TypeOK, QueryInv, SameClaims, Waiting
<1>4. EntryInv' /\ LockInv'
  BY <1>3, ClaimsStable DEF IInv
<1>5. OrigInv'
  BY DEF IInv, TypeOK, QueryInv, OrigInv
<1> QED  BY <1>1, <1>2, <1>4, <1>5 DEF IInv

LEMMA StepCommit ==
    ASSUME IInv, NEW t \in Threads, Commit(t)
    PROVE  IInv'
<1> USE DEF Commit, Goto, txnVars, tsVars, loopVars
<1>1. TypeOK'
  BY DEF IInv, TypeOK
<1>2. QueryInv'
  BY DEF IInv, TypeOK, QueryInv, Waiting
<1>3. \A u \in Threads : SameClaims(u)
  BY DEF IInv, TypeOK, QueryInv, SameClaims, Waiting
<1>4. EntryInv' /\ LockInv'
  BY <1>3, ClaimsStable DEF IInv
<1>5. OrigInv'
  BY DEF IInv, TypeOK, QueryInv, OrigInv
<1> QED  BY <1>1, <1>2, <1>4, <1>5 DEF IInv

LEMMA StepCompute ==
    ASSUME IInv, NEW t \in Threads, Compute(t)
    PROVE  IInv'
<1> USE DEF Compute, Goto, txnVars, tsVars, loopVars
<1>r. LastReq(t).row \in Rows /\ LastReq(t).type \in {"RD", "WR"}
  <2>1. TypeOK /\ QueryInv /\ row_cnt[t] \in Nat /\ row_cnt[t] > 0
    BY DEF IInv, TypeOK, QueryInv
  <2>2. row_cnt[t] \in 1..row_cnt[t]
    BY <2>1
  <2> QED  BY <2>1, <2>2, RequestFacts DEF LastReq
<1>w. Written(t) \in Values
  <2>1. txn_cnt[t] \in Nat /\ txn_cnt[t] < MaxTxn /\ MaxTxn \in Nat
    BY BoundsAssumption DEF IInv, TypeOK, QueryInv
  <2>2. txn_cnt[t] + 1 \in 1..MaxTxn
    BY <2>1
  <2> QED  BY <2>2 DEF Written, Values
<1>1. TypeOK'
  <2> USE DEF IInv, TypeOK
  <2>1. data' \in [Rows -> Values]
    BY <1>r, <1>w
  <2>2. seen' \in [Threads -> [Rows -> Values \cup {NoVal}]]
    <3>1. CASE LastReq(t).type = "RD"
      <4>1. seen' = [seen EXCEPT ![t][LastReq(t).row] = data[LastReq(t).row]]
        BY <3>1
      <4>2. data[LastReq(t).row] \in Values
        BY <1>r
      <4> HIDE DEF Compute
      <4> QED  BY <4>1, <4>2, <1>r
    <3>2. CASE LastReq(t).type # "RD"
      BY <3>2
    <3> QED  BY <3>1, <3>2
  <2>3. pc' \in [Threads -> {"fetch", "request", "enter_wait", "wait", "give_up",
                             "access", "compute", "cleanup", "done"}]
    OBVIOUS
  <2> QED  BY <2>1, <2>2, <2>3
<1>2. QueryInv'
  BY DEF IInv, TypeOK, QueryInv, Waiting
<1>3. \A u \in Threads : SameClaims(u)
  BY DEF IInv, TypeOK, QueryInv, SameClaims, Waiting
<1>4. EntryInv' /\ LockInv'
  BY <1>3, ClaimsStable DEF IInv
<1>5. OrigInv'
  BY DEF IInv, TypeOK, QueryInv, OrigInv
<1> QED  BY <1>1, <1>2, <1>4, <1>5 DEF IInv

LEMMA StepFinish ==
    ASSUME IInv, NEW t \in Threads, Finish(t)
    PROVE  IInv'
<1> USE DEF Finish, Goto, txnVars, tsVars, loopVars, NoQuery, NoReads
<1>d. /\ sim_done' \in BOOLEAN
      /\ pc' = [pc EXCEPT ![t] = IF sim_done' THEN "done" ELSE "fetch"]
      /\ pc'[t] \in {"done", "fetch"}
  BY DEF IInv, TypeOK
<1>c. /\ txn_cnt' \in [Threads -> Nat]
      /\ \A u \in Threads : u # t => txn_cnt'[u] = txn_cnt[u]
      /\ pc'[t] # "done" => txn_cnt'[t] < MaxTxn
  <2>1. txn_cnt' \in [Threads -> Nat] /\ \A u \in Threads : u # t => txn_cnt'[u] = txn_cnt[u]
    BY DEF IInv, TypeOK
  <2>2. pc'[t] # "done" => ~ (txn_cnt'[t] >= MaxTxn)
    BY DEF IInv, TypeOK
  <2>3. txn_cnt'[t] \in Nat /\ MaxTxn \in Nat
    BY <2>1, BoundsAssumption
  <2> QED  BY <2>1, <2>2, <2>3
<1>1. TypeOK'
  <2> USE DEF IInv, TypeOK
  <2>1. query[t] \in Queries
    BY DEF QueryInv
  <2>2. abort_buffer' \in [Threads -> [Slots -> Queries \cup {NoQuery}]]
    <3>1. CASE rc[t] = "Abort"
      <4>1. PICK s \in Slots : abort_buffer' = [abort_buffer EXCEPT ![t][s] = query[t]]
        BY <3>1
      <4> HIDE DEF Finish
      <4> QED  BY <4>1, <2>1
    <3>2. CASE rc[t] # "Abort"
      BY <3>2
    <3> QED  BY <3>1, <3>2
  <2>3. pc' \in [Threads -> {"fetch", "request", "enter_wait", "wait", "give_up",
                             "access", "compute", "cleanup", "done"}]
    BY <1>d
  <2>4. /\ orig_data' \in [Threads -> [Rows -> Values \cup {NoVal}]]
        /\ seen' \in [Threads -> [Rows -> Values \cup {NoVal}]]
        /\ query' \in [Threads -> Queries \cup {NoQuery}]
        /\ rc' \in [Threads -> {"RCOK", "Abort"}]
    OBVIOUS
  <2> QED  BY <2>2, <2>3, <2>4, <1>c, <1>d
<1>2. QueryInv'
  <2> USE DEF IInv, TypeOK, QueryInv, Waiting
  <2>1. ASSUME NEW u \in Threads, u # t
        PROVE  pc'[u] = pc[u] /\ query'[u] = query[u] /\ row_cnt'[u] = row_cnt[u]
               /\ txn_cnt'[u] = txn_cnt[u]
    BY <2>1, <1>c
  <2>2. pc'[t] \in {"done", "fetch"} /\ query'[t] = << >> /\ row_cnt'[t] = 0
    BY <1>d
  <2> HIDE DEF Finish
  <2> QED  BY <2>1, <2>2, <1>c
<1>3. \A u \in Threads : SameClaims(u)
  BY DEF IInv, TypeOK, QueryInv, SameClaims, Waiting
<1>4. EntryInv' /\ LockInv'
  BY <1>3, ClaimsStable DEF IInv
<1>5. OrigInv'
  BY DEF IInv, TypeOK, QueryInv, OrigInv
<1> QED  BY <1>1, <1>2, <1>4, <1>5 DEF IInv

----------------------------------------------------------------------------
(* Steps that turn a wait into a grant, and a grant into an access.        *)

LEMMA StepStopWaiting ==
    ASSUME IInv, NEW t \in Threads, StopWaiting(t)
    PROVE  IInv'
<1> USE DEF StopWaiting, Goto, txnVars, tsVars, loopVars
<1>1. TypeOK'
  BY DEF IInv, TypeOK
<1>2. QueryInv'
  BY DEF IInv, TypeOK, QueryInv, Waiting
<1>3. LockInv'
  BY DEF IInv, LockInv
<1>4. OrigInv'
  BY DEF IInv, OrigInv
<1>5. /\ \A u \in Threads : u # t => pc'[u] = pc[u]
      /\ \A u \in Threads : NextReq(u)' = NextReq(u) /\ EntryOf(u)' = EntryOf(u)
      /\ \A u \in Threads : \A r : Accessed(u, r)' = Accessed(u, r)
      /\ pc[t] = "wait" /\ pc'[t] \in {"access", "give_up"}
      /\ pc'[t] = "access" <=> lock_ready[t]
  BY DEF IInv, TypeOK, NextReq, EntryOf, Accessed
<1>6. \A u \in Threads : \A r : Pending(u, r)' = Pending(u, r)
  BY <1>5 DEF Pending, Waiting
<1>7. OwnsAccessed'
  BY DEF IInv, EntryInv, OwnsAccessed, EntryOfReq
\* Signalled, t is an owner; its entry cannot also be in the queue.
<1>8. lock_ready[t] => EntryOf(t) \in lock[NextReq(t).row].owners
  <2> SUFFICES ASSUME lock_ready[t] PROVE EntryOf(t) \in lock[NextReq(t).row].owners
    OBVIOUS
  <2> DEFINE lk == lock[NextReq(t).row]
  <2>1. /\ EntryOf(t) \in lk.owners \cup Queue(lk)
        /\ t \in OwnersOf(lk)
    BY <1>5 DEF IInv, EntryInv, EnteredWaiting, Waiting
  <2>2. NextReq(t).row \in Rows /\ EntryOf(t).txn = t
    BY <1>5, NextReqFacts DEF IInv, QueryInv, Waiting
  <2>3. Consistent(lk)
    BY <2>2 DEF IInv, LockInv
  <2> HIDE DEF lk
  <2>4. EntryOf(t) \notin Queue(lk)
    BY <2>1, <2>2, <2>3 DEF Consistent, Queue, OwnersOf
  <2> QED  BY <2>1, <2>4 DEF lk
<1>9. OwnsGranted'
  BY <1>5, <1>8 DEF IInv, EntryInv, OwnsGranted
<1>10. EnteredWaiting'
  BY <1>5 DEF IInv, EntryInv, EnteredWaiting, Waiting
<1>11. \A r \in Rows : \A e \in lock[r].owners \cup Queue(lock[r]) : e.txn \in Threads
  BY ConsistentEntries DEF IInv, LockInv
<1>12. OwnersJustified'
  BY <1>5, <1>6, <1>11 DEF IInv, EntryInv, OwnersJustified
<1>13. \A r \in Rows : \A e \in Queue(lock[r]) : e.txn = t => ~ lock_ready[t]
  <2> SUFFICES ASSUME NEW r \in Rows, NEW e \in Queue(lock[r]), e.txn = t, lock_ready[t]
               PROVE  FALSE
    OBVIOUS
  <2>1. NextReq(t).row = r
    BY DEF IInv, EntryInv, QueueJustified, Pending
  <2>2. t \in OwnersOf(lock[r])
    BY <2>1, <1>5 DEF IInv, EntryInv, EnteredWaiting, Waiting
  <2>3. Consistent(lock[r])
    BY DEF IInv, LockInv
  <2> QED  BY <2>2, <2>3 DEF Consistent, Queue, OwnersOf
<1>14. QueueJustified'
  BY <1>5, <1>6, <1>11, <1>13 DEF IInv, EntryInv, QueueJustified, Waiting
<1> QED  BY <1>1, <1>2, <1>3, <1>4, <1>7, <1>9, <1>10, <1>12, <1>14 DEF IInv, EntryInv

LEMMA StepAccess ==
    ASSUME IInv, NEW t \in Threads, Access(t)
    PROVE  IInv'
<1> USE DEF Access, Goto, txnVars, tsVars, loopVars
<1>0. /\ TypeOK /\ QueryInv
      /\ query[t] \in Queries
      /\ row_cnt[t] < Len(query[t])
      /\ row_cnt[t] \in Nat
      /\ pc[t] = "access"
      /\ Len(query[t]) \in Nat
  BY QueryFacts DEF IInv, TypeOK, QueryInv
<1>1. /\ row_cnt[t] + 1 \in 1..Len(query[t])
      /\ NextReq(t).row \in Rows
      /\ NextReq(t).type \in {"RD", "WR"}
      /\ \A i \in 1..row_cnt[t] : query[t][i].row # NextReq(t).row
  BY <1>0, NextReqFacts
<1>2. TypeOK'
  BY <1>0, <1>1 DEF TypeOK
<1>3. /\ \A u \in Threads : u # t => pc'[u] = pc[u] /\ row_cnt'[u] = row_cnt[u]
                                     /\ orig_data'[u] = orig_data[u]
      /\ row_cnt'[t] = row_cnt[t] + 1
      /\ pc'[t] = "compute"
      /\ query' = query
  BY <1>0 DEF TypeOK
<1>4. QueryInv'
  BY <1>0, <1>1, <1>3 DEF QueryInv, Waiting
<1>5. LockInv'
  BY DEF IInv, LockInv
<1>6. ASSUME NEW i \in 1..row_cnt'[t] PROVE i \in 1..row_cnt[t] \/ i = row_cnt[t] + 1
  BY <1>0, <1>3
<1>7. OrigInv'
  <2> SUFFICES ASSUME NEW u \in Threads, NEW i \in 1..row_cnt'[u], query[u][i].type = "WR"
               PROVE  orig_data'[u][query[u][i].row] \in Values
    BY <1>3 DEF OrigInv
  <2>1. CASE u # t
    BY <2>1, <1>3 DEF IInv, OrigInv
  <2>2. CASE u = t /\ i \in 1..row_cnt[t]
    <3>1. query[t][i].row # NextReq(t).row /\ query[t][i].row \in Rows
      BY <2>2, <1>0, <1>1, RequestFacts
    <3> QED  BY <2>2, <3>1, <1>0 DEF IInv, OrigInv, TypeOK
  <2>3. CASE u = t /\ i = row_cnt[t] + 1
    BY <2>3, <1>0, <1>1 DEF NextReq, TypeOK
  <2> QED  BY <2>1, <2>2, <2>3, <1>6
<1>8. OwnsAccessed'
  <2> SUFFICES ASSUME NEW u \in Threads, NEW i \in 1..row_cnt'[u]
               PROVE  EntryOfReq(u, i) \in lock[query[u][i].row].owners
    BY <1>3 DEF OwnsAccessed, EntryOfReq
  <2>1. CASE u # t
    BY <2>1, <1>3 DEF IInv, EntryInv, OwnsAccessed
  <2>2. CASE u = t /\ i \in 1..row_cnt[t]
    BY <2>2 DEF IInv, EntryInv, OwnsAccessed
  <2>3. CASE u = t /\ i = row_cnt[t] + 1
    BY <2>3, <1>0 DEF IInv, EntryInv, OwnsGranted, EntryOf, NextReq, EntryOfReq
  <2> QED  BY <2>1, <2>2, <2>3, <1>6
<1>9. /\ \A u \in Threads : u # t =>
             /\ NextReq(u)' = NextReq(u) /\ EntryOf(u)' = EntryOf(u)
             /\ Waiting(u)' = Waiting(u)
             /\ \A r : Accessed(u, r)' = Accessed(u, r) /\ Pending(u, r)' = Pending(u, r)
      /\ ~ Waiting(t) /\ ~ Waiting(t)'
  BY <1>0, <1>3 DEF NextReq, EntryOf, Accessed, Pending, Waiting
<1>10. OwnsGranted'
  BY <1>3, <1>9 DEF IInv, EntryInv, OwnsGranted
<1>11. EnteredWaiting'
  BY <1>3, <1>9 DEF IInv, EntryInv, EnteredWaiting
<1>12. \A r \in Rows : \A e \in lock[r].owners \cup Queue(lock[r]) : e.txn \in Threads
  BY ConsistentEntries DEF IInv, LockInv
<1>13. \A r \in Rows : Accessed(t, r) \/ Pending(t, r) => Accessed(t, r)'
  <2>1. \A i \in 1..row_cnt[t] : i \in 1..row_cnt'[t]
    BY <1>0, <1>3
  <2>2. row_cnt[t] + 1 \in 1..row_cnt'[t]
    BY <1>0, <1>3
  <2> QED  BY <2>1, <2>2, <1>3 DEF Accessed, Pending, NextReq
<1>14. OwnersJustified'
  BY <1>9, <1>12, <1>13 DEF IInv, EntryInv, OwnersJustified
<1>15. QueueJustified'
  BY <1>9, <1>12 DEF IInv, EntryInv, QueueJustified
<1> QED  BY <1>2, <1>4, <1>5, <1>7, <1>8, <1>10, <1>11, <1>14, <1>15 DEF IInv, EntryInv

----------------------------------------------------------------------------
(* Steps of lock_get that enter t in a lock.                               *)

\* The thread that asks for a row is not entered there yet.
LEMMA AskerFacts ==
    ASSUME IInv, NEW t \in Threads, Asks(t)
    PROVE  /\ TypeOK /\ QueryInv
           /\ pc[t] = "request"
           /\ query[t] \in Queries /\ row_cnt[t] < Len(query[t])
           /\ NextReq(t).row \in Rows
           /\ EntryOf(t) \in LockEntry /\ EntryOf(t).txn = t
           /\ EntryOf(t).type = LockType(NextReq(t).type)
           /\ Consistent(lock[NextReq(t).row]) /\ HeadBlocked(lock[NextReq(t).row])
           /\ t \notin OwnersOf(lock[NextReq(t).row])
           /\ t \notin WaitersOf(lock[NextReq(t).row])
<1>1. /\ TypeOK /\ QueryInv /\ pc[t] = "request"
      /\ query[t] \in Queries /\ row_cnt[t] < Len(query[t])
  BY DEF IInv, Asks, QueryInv
<1>2. /\ NextReq(t).row \in Rows
      /\ EntryOf(t) \in LockEntry /\ EntryOf(t).txn = t
      /\ \A i \in 1..row_cnt[t] : query[t][i].row # NextReq(t).row
  BY <1>1, NextReqFacts
<1>3. EntryOf(t).type = LockType(NextReq(t).type)
  BY DEF EntryOf
<1>4. Consistent(lock[NextReq(t).row]) /\ HeadBlocked(lock[NextReq(t).row])
  BY <1>2 DEF IInv, LockInv
<1>5. \A e \in lock[NextReq(t).row].owners : e.txn # t
  <2>1. ~ Accessed(t, NextReq(t).row) /\ ~ Pending(t, NextReq(t).row)
    BY <1>1, <1>2 DEF Accessed, Pending, Waiting
  <2> QED  BY <2>1, <1>2 DEF IInv, EntryInv, OwnersJustified
<1>6. \A e \in Queue(lock[NextReq(t).row]) : e.txn # t
  <2>1. ~ Waiting(t)
    BY <1>1 DEF Waiting
  <2> QED  BY <2>1, <1>2 DEF IInv, EntryInv, QueueJustified
<1>7. t \notin OwnersOf(lock[NextReq(t).row])
  BY <1>5 DEF OwnersOf
<1>8. t \notin WaitersOf(lock[NextReq(t).row])
  BY <1>4, <1>6, ConsistentEntries
<1> QED  BY <1>1, <1>2, <1>3, <1>4, <1>7, <1>8

LEMMA StepLockGetOK ==
    ASSUME IInv, NEW t \in Threads, LockGetOK(t)
    PROVE  IInv'
<1> DEFINE r == NextReq(t).row
           e == EntryOf(t)
<1> USE DEF LockGetOK, Goto, txnVars, tsVars, loopVars
<1>1. /\ TypeOK /\ QueryInv
      /\ pc[t] = "request"
      /\ query[t] \in Queries /\ row_cnt[t] < Len(query[t])
      /\ r \in Rows
      /\ e \in LockEntry /\ e.txn = t /\ e.type = LockType(NextReq(t).type)
      /\ Consistent(lock[r]) /\ HeadBlocked(lock[r])
      /\ t \notin OwnersOf(lock[r]) /\ t \notin WaitersOf(lock[r])
  BY AskerFacts
<1>2. ~ conflict_lock(lock[r].lock_type, e.type)
  BY <1>1 DEF Refused, MustNotJoin
<1> DEFINE new == AddOwner(lock[r], e)
<1>3. /\ Consistent(new) /\ HeadBlocked(new)
      /\ new.owners = lock[r].owners \cup {e}
      /\ new.waiters = lock[r].waiters
  BY <1>1, <1>2, AddOwnerProperties
<1>4. /\ lock' = [lock EXCEPT ![r] = new]
      /\ pc' = [pc EXCEPT ![t] = "access"]
      /\ query' = query /\ row_cnt' = row_cnt /\ lock_ready' = lock_ready
  OBVIOUS
<1>5. Queue(new) = Queue(lock[r])
  BY <1>3 DEF Queue
<1>6. /\ lock' \in [Rows -> RowLocks]
      /\ lock'[r] = new
      /\ \A s \in Rows : s # r => lock'[s] = lock[s]
  <2>1. new \in RowLocks /\ r \in Rows /\ lock \in [Rows -> RowLocks]
    BY <1>1, <1>3 DEF TypeOK, Consistent
  <2> HIDE DEF new
  <2> QED  BY <1>4, <2>1
<1>7. TypeOK'
  BY <1>1, <1>6 DEF TypeOK
<1>8. QueryInv'
  BY <1>1 DEF QueryInv, TypeOK, Waiting
<1>9. OrigInv'
  BY DEF IInv, OrigInv
<1>10. /\ pc'[t] = "access" /\ \A u \in Threads : u # t => pc'[u] = pc[u]
       /\ \A u \in Threads : NextReq(u)' = NextReq(u) /\ EntryOf(u)' = EntryOf(u)
       /\ \A u \in Threads : Waiting(u)' = Waiting(u)
       /\ \A u \in Threads : \A s : Accessed(u, s)' = Accessed(u, s)
       /\ \A u \in Threads : \A i : EntryOfReq(u, i)' = EntryOfReq(u, i)
  BY <1>1, <1>4 DEF TypeOK, NextReq, EntryOf, Waiting, Accessed, EntryOfReq
<1> HIDE DEF new, LockGetOK
<1>11. /\ \A u \in Threads : \A s : Pending(u, s) => Pending(u, s)'
       /\ \A s : s = r => Pending(t, s)'
  BY <1>1, <1>4, <1>10 DEF Pending, Waiting
<1> HIDE DEF r, e
<1>12. /\ \A s \in Rows : lock[s].owners \subseteq lock'[s].owners
       /\ \A s \in Rows : Queue(lock'[s]) = Queue(lock[s])
       /\ \A s \in Rows : \A o \in lock'[s].owners : o \in lock[s].owners \/ (o = e /\ s = r)
       /\ e \in lock'[r].owners
  BY <1>3, <1>5, <1>6
<1>13. LockInv'
  BY <1>3, <1>6 DEF IInv, LockInv
<1>14. OwnsAccessed'
  <2> SUFFICES ASSUME NEW u \in Threads, NEW i \in 1..row_cnt[u]
               PROVE  EntryOfReq(u, i) \in lock'[query[u][i].row].owners
    BY <1>4, <1>10 DEF OwnsAccessed
  <2>1. query[u][i].row \in Rows
    BY <1>1, RequestFacts
  <2> QED  BY <2>1, <1>12 DEF IInv, EntryInv, OwnsAccessed
<1>15. \A u \in Threads : Waiting(u) \/ pc[u] = "access" => NextReq(u).row \in Rows
  BY <1>1, NextReqFacts DEF QueryInv, Waiting
<1>16. OwnsGranted'
  <2> SUFFICES ASSUME NEW u \in Threads, pc'[u] = "access"
               PROVE  EntryOf(u) \in lock'[NextReq(u).row].owners
    BY <1>10 DEF OwnsGranted
  <2>1. CASE u = t
    BY <2>1, <1>12 DEF r, e
  <2>2. CASE u # t
    BY <2>2, <1>10, <1>12, <1>15 DEF IInv, EntryInv, OwnsGranted
  <2> QED  BY <2>1, <2>2
<1>17. EnteredWaiting'
  <2> SUFFICES ASSUME NEW u \in Threads, Waiting(u)
               PROVE  /\ EntryOf(u) \in lock'[NextReq(u).row].owners
                                           \cup Queue(lock'[NextReq(u).row])
                      /\ lock_ready[u] <=> u \in OwnersOf(lock'[NextReq(u).row])
    BY <1>4, <1>10 DEF EnteredWaiting
  <2>1. u # t /\ NextReq(u).row \in Rows
    BY <1>1, <1>15 DEF Waiting
  <2>2. /\ EntryOf(u) \in lock[NextReq(u).row].owners \cup Queue(lock[NextReq(u).row])
        /\ lock_ready[u] <=> u \in OwnersOf(lock[NextReq(u).row])
    BY DEF IInv, EntryInv, EnteredWaiting
  <2>3. u \in OwnersOf(lock'[NextReq(u).row]) <=> u \in OwnersOf(lock[NextReq(u).row])
    BY <2>1, <1>1, <1>12 DEF OwnersOf
  <2> QED  BY <2>1, <2>2, <2>3, <1>12
<1>18. \A s \in Rows : \A o \in lock[s].owners \cup Queue(lock[s]) : o.txn \in Threads
  BY ConsistentEntries DEF IInv, LockInv
<1>19. OwnersJustified'
  <2> SUFFICES ASSUME NEW s \in Rows, NEW o \in lock'[s].owners
               PROVE  Accessed(o.txn, s)' \/ Pending(o.txn, s)'
    BY DEF OwnersJustified
  <2>1. CASE o \in lock[s].owners
    <3>1. o.txn \in Threads /\ (Accessed(o.txn, s) \/ Pending(o.txn, s))
      BY <2>1, <1>18 DEF IInv, EntryInv, OwnersJustified
    <3> QED  BY <3>1, <1>10, <1>11
  <2>2. CASE o = e /\ s = r
    <3>1. o.txn = t
      BY <2>2, <1>1
    <3> QED  BY <3>1, <2>2, <1>11
  <2> QED  BY <2>1, <2>2, <1>12
<1>20. QueueJustified'
  BY <1>10, <1>11, <1>12, <1>18 DEF IInv, EntryInv, QueueJustified
<1> QED  BY <1>7, <1>8, <1>9, <1>13, <1>14, <1>16, <1>17, <1>19, <1>20 DEF IInv, EntryInv

LEMMA StepLockGetWait ==
    ASSUME IInv, NEW t \in Threads, LockGetWait(t)
    PROVE  IInv'
<1> DEFINE r == NextReq(t).row
           e == EntryOf(t)
<1> USE DEF LockGetWait, Goto, txnVars, tsVars, loopVars
<1>1. /\ TypeOK /\ QueryInv
      /\ pc[t] = "request"
      /\ query[t] \in Queries /\ row_cnt[t] < Len(query[t])
      /\ r \in Rows
      /\ e \in LockEntry /\ e.txn = t /\ e.type = LockType(NextReq(t).type)
      /\ Consistent(lock[r]) /\ HeadBlocked(lock[r])
      /\ t \notin OwnersOf(lock[r]) /\ t \notin WaitersOf(lock[r])
  BY AskerFacts
<1>2. MustNotJoin(lock[r], e.txn, e.type, ts) /\ ts \in [Threads -> Nat]
  BY <1>1 DEF Refused, TypeOK
<1> DEFINE new == AddWaiter(lock[r], e, ts)
<1>3. /\ Consistent(new) /\ HeadBlocked(new)
      /\ new.owners = lock[r].owners
      /\ Queue(new) = Queue(lock[r]) \cup {e}
  BY <1>1, <1>2, AddWaiterProperties
<1>4. /\ lock' = [lock EXCEPT ![r] = new]
      /\ pc' = [pc EXCEPT ![t] = "enter_wait"]
      /\ query' = query /\ row_cnt' = row_cnt
      /\ lock_ready' = [lock_ready EXCEPT ![t] = FALSE]
  OBVIOUS
<1>6. /\ lock' \in [Rows -> RowLocks]
      /\ lock'[r] = new
      /\ \A s \in Rows : s # r => lock'[s] = lock[s]
  <2>1. new \in RowLocks /\ r \in Rows /\ lock \in [Rows -> RowLocks]
    BY <1>1, <1>3 DEF TypeOK, Consistent
  <2> HIDE DEF new
  <2> QED  BY <1>4, <2>1
<1>7. TypeOK'
  BY <1>1, <1>6 DEF TypeOK
<1>8. QueryInv'
  BY <1>1 DEF QueryInv, TypeOK, Waiting
<1>9. OrigInv'
  BY DEF IInv, OrigInv
<1>10. /\ pc'[t] = "enter_wait"
       /\ lock_ready'[t] = FALSE
       /\ \A u \in Threads : u # t => /\ pc'[u] = pc[u]
                                      /\ lock_ready'[u] = lock_ready[u]
                                      /\ Waiting(u)' = Waiting(u)
       /\ \A u \in Threads : NextReq(u)' = NextReq(u) /\ EntryOf(u)' = EntryOf(u)
       /\ \A u \in Threads : \A s : Accessed(u, s)' = Accessed(u, s)
       /\ \A u \in Threads : \A i : EntryOfReq(u, i)' = EntryOfReq(u, i)
  BY <1>1, <1>4 DEF TypeOK, NextReq, EntryOf, Waiting, Accessed, EntryOfReq
<1> HIDE DEF new, LockGetWait
<1>11. /\ \A u \in Threads : \A s : Pending(u, s) => Pending(u, s)'
       /\ \A u \in Threads : Waiting(u) => Waiting(u)'
       /\ Waiting(t)' /\ \A s : s = r => Pending(t, s)'
  BY <1>1, <1>4, <1>10 DEF Pending, Waiting
<1> HIDE DEF r, e
<1>12. /\ \A s \in Rows : lock'[s].owners = lock[s].owners
       /\ \A s \in Rows : Queue(lock[s]) \subseteq Queue(lock'[s])
       /\ \A s \in Rows : \A o \in Queue(lock'[s]) : o \in Queue(lock[s]) \/ (o = e /\ s = r)
       /\ e \in Queue(lock'[r])
  BY <1>3, <1>6
<1>13. LockInv'
  BY <1>3, <1>6 DEF IInv, LockInv
<1>14. OwnsAccessed'
  <2> SUFFICES ASSUME NEW u \in Threads, NEW i \in 1..row_cnt[u]
               PROVE  EntryOfReq(u, i) \in lock'[query[u][i].row].owners
    BY <1>4, <1>10 DEF OwnsAccessed
  <2>1. query[u][i].row \in Rows
    BY <1>1, RequestFacts
  <2> QED  BY <2>1, <1>12 DEF IInv, EntryInv, OwnsAccessed
<1>15. \A u \in Threads : Waiting(u) \/ pc[u] = "access" => NextReq(u).row \in Rows
  BY <1>1, NextReqFacts DEF QueryInv, Waiting
<1>16. OwnsGranted'
  <2> SUFFICES ASSUME NEW u \in Threads, pc'[u] = "access"
               PROVE  EntryOf(u) \in lock'[NextReq(u).row].owners
    BY <1>10 DEF OwnsGranted
  <2>1. u # t
    BY <1>10
  <2> QED  BY <2>1, <1>10, <1>12, <1>15 DEF IInv, EntryInv, OwnsGranted
<1>17. EnteredWaiting'
  <2> SUFFICES ASSUME NEW u \in Threads, Waiting(u)'
               PROVE  /\ EntryOf(u) \in lock'[NextReq(u).row].owners
                                           \cup Queue(lock'[NextReq(u).row])
                      /\ lock_ready'[u] <=> u \in OwnersOf(lock'[NextReq(u).row])
    BY <1>10 DEF EnteredWaiting
  <2>1. CASE u = t
    <3>1. OwnersOf(lock'[r]) = OwnersOf(lock[r])
      BY <1>1, <1>12 DEF OwnersOf
    <3>2. u \notin OwnersOf(lock'[NextReq(u).row]) /\ ~ lock_ready'[u]
      BY <2>1, <3>1, <1>1, <1>10 DEF r
    <3>3. EntryOf(u) \in Queue(lock'[NextReq(u).row])
      BY <2>1, <1>12 DEF r, e
    <3> QED  BY <3>2, <3>3
  <2>2. CASE u # t
    <3>1. Waiting(u) /\ NextReq(u).row \in Rows
      BY <2>2, <1>10, <1>15
    <3>2. /\ EntryOf(u) \in lock[NextReq(u).row].owners \cup Queue(lock[NextReq(u).row])
          /\ lock_ready[u] <=> u \in OwnersOf(lock[NextReq(u).row])
      BY <3>1 DEF IInv, EntryInv, EnteredWaiting
    <3>3. u \in OwnersOf(lock'[NextReq(u).row]) <=> u \in OwnersOf(lock[NextReq(u).row])
      BY <3>1, <1>12 DEF OwnersOf
    <3>4. lock_ready'[u] = lock_ready[u]
      BY <2>2, <1>10
    <3>5. EntryOf(u) \in lock'[NextReq(u).row].owners \cup Queue(lock'[NextReq(u).row])
      BY <3>1, <3>2, <1>12
    <3> QED  BY <3>2, <3>3, <3>4, <3>5
  <2> QED  BY <2>1, <2>2
<1>18. \A s \in Rows : \A o \in lock[s].owners \cup Queue(lock[s]) : o.txn \in Threads
  BY ConsistentEntries DEF IInv, LockInv
<1>19. OwnersJustified'
  <2> SUFFICES ASSUME NEW s \in Rows, NEW o \in lock'[s].owners
               PROVE  Accessed(o.txn, s)' \/ Pending(o.txn, s)'
    BY DEF OwnersJustified
  <2>1. o.txn \in Threads /\ (Accessed(o.txn, s) \/ Pending(o.txn, s))
    BY <1>12, <1>18 DEF IInv, EntryInv, OwnersJustified
  <2> QED  BY <2>1, <1>10, <1>11
<1>20. QueueJustified'
  <2> SUFFICES ASSUME NEW s \in Rows, NEW o \in Queue(lock'[s])
               PROVE  Waiting(o.txn)' /\ Pending(o.txn, s)'
    BY DEF QueueJustified
  <2>1. CASE o \in Queue(lock[s])
    <3>1. o.txn \in Threads /\ Waiting(o.txn) /\ Pending(o.txn, s)
      BY <2>1, <1>18 DEF IInv, EntryInv, QueueJustified
    <3> QED  BY <3>1, <1>11
  <2>2. CASE o = e /\ s = r
    <3>1. o.txn = t
      BY <2>2, <1>1
    <3> QED  BY <3>1, <2>2, <1>11
  <2> QED  BY <2>1, <2>2, <1>12
<1> QED  BY <1>7, <1>8, <1>9, <1>13, <1>14, <1>16, <1>17, <1>19, <1>20 DEF IInv, EntryInv

----------------------------------------------------------------------------
(* Steps that release a lock.                                              *)

\* t gives row r back, and with it its claim on r and no other.
LEMMA ReleaseStep ==
    ASSUME IInv, NEW t \in Threads, NEW r \in Rows,
           t \in OwnersOf(lock[r]) \cup WaitersOf(lock[r]),
           lock' = [lock EXCEPT ![r] = LockRelease(@, t)],
           lock_ready' = [u \in Threads |-> lock_ready[u] \/ u \in WokenBy(lock[r], t)],
           query' = query,
           \A u \in Threads : u # t => pc'[u] = pc[u] /\ row_cnt'[u] = row_cnt[u],
           pc'[t] = "cleanup",
           \A i \in 1..row_cnt'[t] : i \in 1..row_cnt[t] /\ query[t][i].row # r,
           \A s \in Rows : s # r /\ (Accessed(t, s) \/ Pending(t, s)) => Accessed(t, s)'
    PROVE  /\ EntryInv' /\ LockInv'
           /\ lock' \in [Rows -> RowLocks]
           /\ lock_ready' \in [Threads -> BOOLEAN]
<1> DEFINE lk  == lock[r]
           new == LockRelease(lk, t)
<1>1. TypeOK /\ QueryInv /\ LockInv /\ Consistent(lk)
  BY DEF IInv, LockInv
<1>2. /\ Consistent(new) /\ HeadBlocked(new)
      /\ \A e \in lk.owners : e.txn # t => e \in new.owners
      /\ \A e \in Queue(lk) : e.txn # t => e \in new.owners \cup Queue(new)
      /\ \A e \in new.owners : e.txn # t /\ (e \in lk.owners \/ e \in Queue(lk))
      /\ \A e \in Queue(new) : e.txn # t /\ e \in Queue(lk)
      /\ WokenBy(lk, t) \subseteq OwnersOf(new)
      /\ OwnersOf(new) \subseteq OwnersOf(lk) \cup WokenBy(lk, t)
      /\ \A u \in WokenBy(lk, t) : u # t /\ \E e \in Queue(lk) : e.txn = u
  BY <1>1, LockReleaseProperties
<1>3. /\ lock' = [lock EXCEPT ![r] = new]
      /\ \A u \in Threads : lock_ready'[u] <=> (lock_ready[u] \/ u \in WokenBy(lk, t))
      /\ lock_ready' \in [Threads -> BOOLEAN]
  OBVIOUS
<1> HIDE DEF lk, new
<1>4. /\ lock' \in [Rows -> RowLocks]
      /\ lock'[r] = new
      /\ \A s \in Rows : s # r => lock'[s] = lock[s]
  BY <1>1, <1>2, <1>3 DEF TypeOK, Consistent
<1>5. LockInv'
  BY <1>1, <1>2, <1>4 DEF LockInv
<1>6. /\ \A u \in Threads : u # t =>
             /\ NextReq(u)' = NextReq(u) /\ EntryOf(u)' = EntryOf(u)
             /\ Waiting(u)' = Waiting(u)
             /\ \A s : Accessed(u, s)' = Accessed(u, s) /\ Pending(u, s)' = Pending(u, s)
      /\ \A u \in Threads : \A i : EntryOfReq(u, i)' = EntryOfReq(u, i)
      /\ ~ Waiting(t)'
  BY DEF NextReq, EntryOf, Accessed, Pending, Waiting, EntryOfReq
<1>7. \A u \in Threads : Waiting(u) \/ pc[u] = "access" => NextReq(u).row \in Rows
  BY <1>1, NextReqFacts DEF QueryInv, Waiting
<1>8. \A s \in Rows : \A o \in lock[s].owners \cup Queue(lock[s]) : o.txn \in Threads
  BY <1>1, ConsistentEntries DEF LockInv
\* Only t's own entry leaves the owners.
<1>9. \A s \in Rows : \A o \in lock[s].owners : o.txn # t \/ s # r => o \in lock'[s].owners
  BY <1>2, <1>4 DEF lk
<1>10. OwnsAccessed'
  <2> SUFFICES ASSUME NEW u \in Threads, NEW i \in 1..row_cnt'[u]
               PROVE  EntryOfReq(u, i) \in lock'[query[u][i].row].owners
    BY <1>6 DEF OwnsAccessed
  <2>1. i \in 1..row_cnt[u] /\ (u = t => query[u][i].row # r)
    OBVIOUS
  <2>2. query[u][i].row \in Rows
    BY <2>1, <1>1, RequestFacts
  <2>3. EntryOfReq(u, i) \in lock[query[u][i].row].owners
    BY <2>1 DEF IInv, EntryInv, OwnsAccessed
  <2>4. EntryOfReq(u, i).txn = u
    BY DEF EntryOfReq
  <2> QED  BY <2>1, <2>2, <2>3, <2>4, <1>9
<1>11. OwnsGranted'
  <2> SUFFICES ASSUME NEW u \in Threads, pc'[u] = "access"
               PROVE  EntryOf(u)' \in lock'[NextReq(u)'.row].owners
    BY DEF OwnsGranted
  <2>1. u # t /\ pc[u] = "access"
    OBVIOUS
  <2>2. EntryOf(u) \in lock[NextReq(u).row].owners /\ EntryOf(u).txn = u
    BY <2>1 DEF IInv, EntryInv, OwnsGranted, EntryOf
  <2>3. EntryOf(u) \in lock'[NextReq(u).row].owners
    BY <2>1, <2>2, <1>7, <1>9
  <2> QED  BY <2>1, <2>3, <1>6
<1>12. EnteredWaiting'
  <2> SUFFICES ASSUME NEW u \in Threads, Waiting(u)'
               PROVE  /\ EntryOf(u)' \in lock'[NextReq(u)'.row].owners
                                           \cup Queue(lock'[NextReq(u)'.row])
                      /\ lock_ready'[u] <=> u \in OwnersOf(lock'[NextReq(u)'.row])
    BY DEF EnteredWaiting
  <2>1. u # t /\ Waiting(u) /\ NextReq(u).row \in Rows
    BY <1>6, <1>7
  <2>2. /\ EntryOf(u) \in lock[NextReq(u).row].owners \cup Queue(lock[NextReq(u).row])
        /\ lock_ready[u] <=> u \in OwnersOf(lock[NextReq(u).row])
        /\ EntryOf(u).txn = u
    BY <2>1 DEF IInv, EntryInv, EnteredWaiting, EntryOf
  <2>3. EntryOf(u)' = EntryOf(u) /\ NextReq(u)' = NextReq(u)
    BY <2>1, <1>6
  <2>4. EntryOf(u) \in lock'[NextReq(u).row].owners \cup Queue(lock'[NextReq(u).row])
    BY <2>1, <2>2, <1>2, <1>4 DEF lk
  <2>5. lock_ready'[u] <=> u \in OwnersOf(lock'[NextReq(u).row])
    <3>1. CASE NextReq(u).row = r
      <4>1. u \in OwnersOf(lk) => u \in OwnersOf(new)
        BY <2>1, <1>2 DEF OwnersOf
      <4> QED  BY <3>1, <4>1, <2>2, <1>2, <1>3, <1>4 DEF lk
    <3>2. CASE NextReq(u).row # r
      <4>1. u \notin WokenBy(lk, t)
        <5> SUFFICES ASSUME u \in WokenBy(lk, t) PROVE FALSE
          OBVIOUS
        <5>1. PICK o \in Queue(lk) : o.txn = u
          BY <1>2
        <5>2. Pending(u, r)
          BY <5>1 DEF IInv, EntryInv, QueueJustified, lk
        <5> QED  BY <5>2, <3>2 DEF Pending
      <4> QED  BY <3>2, <4>1, <2>1, <2>2, <1>3, <1>4
    <3> QED  BY <3>1, <3>2
  <2> QED  BY <2>3, <2>4, <2>5
<1>13. OwnersJustified'
  <2> SUFFICES ASSUME NEW s \in Rows, NEW o \in lock'[s].owners
               PROVE  Accessed(o.txn, s)' \/ Pending(o.txn, s)'
    BY DEF OwnersJustified
  <2>1. o \in lock[s].owners \cup Queue(lock[s]) /\ (s = r => o.txn # t)
    BY <1>2, <1>4 DEF lk
  <2>2. o.txn \in Threads /\ (Accessed(o.txn, s) \/ Pending(o.txn, s))
    BY <2>1, <1>8 DEF IInv, EntryInv, OwnersJustified, QueueJustified
  <2>3. CASE o.txn = t
    <3>1. s # r /\ (Accessed(t, s) \/ Pending(t, s))
      BY <2>1, <2>2, <2>3
    <3>2. Accessed(t, s)'
      BY <3>1
    <3> QED  BY <2>3, <3>2
  <2>4. CASE o.txn # t
    BY <2>2, <2>4, <1>6
  <2> QED  BY <2>3, <2>4
<1>14. \A s \in Rows : \A o \in Queue(lock[s]) : o.txn = t => s = r
  <2> SUFFICES ASSUME NEW s \in Rows, NEW o \in Queue(lock[s]), o.txn = t, s # r
               PROVE  FALSE
    OBVIOUS
  <2>1. Waiting(t) /\ Pending(t, s)
    BY DEF IInv, EntryInv, QueueJustified
  <2>2. Accessed(t, s)'
    BY <2>1
  <2>3. PICK i \in 1..row_cnt[t] : query[t][i].row = s
    BY <2>2 DEF Accessed
  <2>4. NextReq(t).row = s
    BY <2>1 DEF Pending
  <2>5. query[t] \in Queries /\ row_cnt[t] < Len(query[t])
    BY <2>1, <1>1 DEF QueryInv, Waiting
  <2> QED  BY <2>3, <2>4, <2>5, <1>1, NextReqFacts
<1>15. QueueJustified'
  <2> SUFFICES ASSUME NEW s \in Rows, NEW o \in Queue(lock'[s])
               PROVE  Waiting(o.txn)' /\ Pending(o.txn, s)'
    BY DEF QueueJustified
  <2>1. o \in Queue(lock[s]) /\ o.txn # t
    BY <1>2, <1>4, <1>14 DEF lk
  <2>2. o.txn \in Threads /\ Waiting(o.txn) /\ Pending(o.txn, s)
    BY <2>1, <1>8 DEF IInv, EntryInv, QueueJustified
  <2> QED  BY <2>1, <2>2, <1>6
<1> QED  BY <1>3, <1>4, <1>5, <1>10, <1>11, <1>12, <1>13, <1>15 DEF EntryInv

LEMMA StepGiveUp ==
    ASSUME IInv, NEW t \in Threads, GiveUp(t)
    PROVE  IInv'
<1> USE DEF GiveUp, Goto, txnVars, tsVars, loopVars
<1>1. /\ TypeOK /\ QueryInv
      /\ query[t] \in Queries /\ row_cnt[t] < Len(query[t])
      /\ Waiting(t)
  BY DEF IInv, QueryInv, Waiting
<1>2. NextReq(t).row \in Rows /\ \A i \in 1..row_cnt[t] : query[t][i].row # NextReq(t).row
  BY <1>1, NextReqFacts
<1>3. PICK r \in Rows : r = NextReq(t).row
  BY <1>2
<1>4. t \in OwnersOf(lock[r]) \cup WaitersOf(lock[r])
  <2>1. EntryOf(t) \in lock[r].owners \cup Queue(lock[r]) /\ EntryOf(t).txn = t
    BY <1>1, <1>3 DEF IInv, EntryInv, EnteredWaiting, EntryOf
  <2>2. Consistent(lock[r])
    BY DEF IInv, LockInv
  <2> QED  BY <2>1, <2>2, ConsistentEntries DEF OwnersOf
<1>5. /\ lock' = [lock EXCEPT ![r] = LockRelease(@, t)]
      /\ lock_ready' = [u \in Threads |-> lock_ready[u] \/ u \in WokenBy(lock[r], t)]
      /\ query' = query /\ row_cnt' = row_cnt
      /\ \A u \in Threads : u # t => pc'[u] = pc[u] /\ row_cnt'[u] = row_cnt[u]
      /\ pc'[t] = "cleanup"
  BY <1>1, <1>3 DEF TypeOK
<1>6. /\ \A i \in 1..row_cnt'[t] : i \in 1..row_cnt[t] /\ query[t][i].row # r
      /\ \A s \in Rows : s # r /\ (Accessed(t, s) \/ Pending(t, s)) => Accessed(t, s)'
  BY <1>2, <1>3, <1>5 DEF Accessed, Pending
<1>7. /\ EntryInv' /\ LockInv'
      /\ lock' \in [Rows -> RowLocks]
      /\ lock_ready' \in [Threads -> BOOLEAN]
  <2> HIDE DEF GiveUp
  <2> QED  BY <1>4, <1>5, <1>6, ReleaseStep
<1>8. TypeOK'
  BY <1>1, <1>7 DEF TypeOK
<1>9. QueryInv'
  BY <1>1 DEF TypeOK, QueryInv, Waiting
<1>10. OrigInv'
  BY DEF IInv, OrigInv
<1> QED  BY <1>7, <1>8, <1>9, <1>10 DEF IInv

LEMMA StepCleanup ==
    ASSUME IInv, NEW t \in Threads, Cleanup(t)
    PROVE  IInv'
<1> USE DEF Cleanup, Goto, txnVars, tsVars, loopVars
<1>1. /\ TypeOK /\ QueryInv
      /\ query[t] \in Queries
      /\ row_cnt[t] \in Nat /\ row_cnt[t] > 0
      /\ row_cnt[t] \in 1..row_cnt[t]
      /\ pc[t] = "cleanup"
  BY RequestFacts DEF IInv, TypeOK
<1>2. /\ row_cnt[t] \in 1..Len(query[t])
      /\ LastReq(t).row \in Rows /\ LastReq(t).type \in {"RD", "WR"}
  BY <1>1, RequestFacts DEF LastReq
<1>3. PICK r \in Rows : r = LastReq(t).row
  BY <1>2
<1>4. t \in OwnersOf(lock[r])
  <2>1. EntryOfReq(t, row_cnt[t]) \in lock[r].owners /\ EntryOfReq(t, row_cnt[t]).txn = t
    BY <1>1, <1>3 DEF IInv, EntryInv, OwnsAccessed, EntryOfReq, LastReq
  <2> QED  BY <2>1 DEF OwnersOf
<1>5. /\ lock' = [lock EXCEPT ![r] = LockRelease(@, t)]
      /\ lock_ready' = [u \in Threads |-> lock_ready[u] \/ u \in WokenBy(lock[r], t)]
      /\ query' = query /\ pc' = pc /\ orig_data' = orig_data
      /\ \A u \in Threads : u # t => pc'[u] = pc[u] /\ row_cnt'[u] = row_cnt[u]
      /\ pc'[t] = "cleanup"
      /\ row_cnt'[t] = row_cnt[t] - 1
  BY <1>1, <1>3 DEF TypeOK
<1>6. \A i \in 1..row_cnt'[t] : i \in 1..row_cnt[t] /\ i # row_cnt[t]
  BY <1>1, <1>5
<1>7. \A i \in 1..row_cnt'[t] : i \in 1..row_cnt[t] /\ query[t][i].row # r
  <2> SUFFICES ASSUME NEW i \in 1..row_cnt'[t] PROVE query[t][i].row # r
    BY <1>6
  <2>1. i \in 1..Len(query[t]) /\ i # row_cnt[t]
    BY <1>1, <1>6, RequestFacts
  <2> QED  BY <2>1, <1>1, <1>2, <1>3, QueryFacts DEF LastReq
<1>8. \A s \in Rows : s # r /\ (Accessed(t, s) \/ Pending(t, s)) => Accessed(t, s)'
  <2> SUFFICES ASSUME NEW s \in Rows, s # r, Accessed(t, s) PROVE Accessed(t, s)'
    BY <1>1 DEF Pending, Waiting
  <2>1. PICK i \in 1..row_cnt[t] : query[t][i].row = s
    BY DEF Accessed
  <2>2. i # row_cnt[t]
    BY <2>1, <1>3 DEF LastReq
  <2>3. i \in 1..row_cnt'[t]
    BY <2>1, <2>2, <1>1, <1>5
  <2> QED  BY <2>1, <2>3, <1>5 DEF Accessed
<1>9. /\ EntryInv' /\ LockInv'
      /\ lock' \in [Rows -> RowLocks]
      /\ lock_ready' \in [Threads -> BOOLEAN]
  <2> HIDE DEF Cleanup
  <2> QED  BY <1>4, <1>5, <1>7, <1>8, ReleaseStep
<1>10. data' \in [Rows -> Values]
  <2>1. LastReq(t).type = "WR" => orig_data[t][LastReq(t).row] \in Values
    BY <1>1 DEF IInv, OrigInv, LastReq
  <2> QED  BY <2>1, <1>1, <1>2 DEF TypeOK
<1>11. TypeOK'
  BY <1>1, <1>9, <1>10 DEF TypeOK
<1>12. QueryInv'
  <2>1. Len(query[t]) \in Nat /\ row_cnt[t] <= Len(query[t])
    BY <1>1, QueryFacts DEF QueryInv
  <2>2. row_cnt'[t] <= Len(query[t]) /\ row_cnt'[t] \in Nat
    BY <1>1, <2>1, <1>5
  <2> QED  BY <1>1, <1>5, <2>2 DEF QueryInv, Waiting
<1>13. OrigInv'
  <2> SUFFICES ASSUME NEW u \in Threads, NEW i \in 1..row_cnt'[u], query[u][i].type = "WR"
               PROVE  orig_data[u][query[u][i].row] \in Values
    BY <1>5 DEF OrigInv
  <2>1. i \in 1..row_cnt[u]
    BY <1>5, <1>6
  <2> QED  BY <2>1 DEF IInv, OrigInv
<1> QED  BY <1>9, <1>11, <1>12, <1>13 DEF IInv

----------------------------------------------------------------------------
(* The invariant, and what follows from it.                                *)

LEMMA IInvStutter ==
    ASSUME IInv, UNCHANGED vars
    PROVE  IInv'
<1> USE DEF vars, txnVars, tsVars, loopVars
<1>1. TypeOK'
  BY DEF IInv, TypeOK
<1>2. QueryInv'
  BY DEF IInv, QueryInv, Waiting
<1>3. \A u \in Threads : SameClaims(u)
  BY DEF SameClaims, Waiting
<1>4. EntryInv' /\ LockInv'
  BY <1>3, ClaimsStable DEF IInv
<1>5. OrigInv'
  BY DEF IInv, OrigInv
<1> QED  BY <1>1, <1>2, <1>4, <1>5 DEF IInv

LEMMA IInvNext == IInv /\ [Next]_vars => IInv'
<1> SUFFICES ASSUME IInv, [Next]_vars PROVE IInv'
  OBVIOUS
<1>1. CASE UNCHANGED vars
  BY <1>1, IInvStutter
<1>2. CASE Terminated
  BY <1>2, IInvStutter DEF Terminated
<1>3. ASSUME NEW t \in Threads, Step(t) \/ Timeout(t) \/ DetectCycle(t)
      PROVE  IInv'
  BY <1>3, StepFetchNew, StepFetchRetry, StepLockGetOK, StepLockGetWait,
     StepLockGetAbort, StepEnterWait, StepTimeout, StepDetectCycle,
     StepStopWaiting, StepGiveUp, StepAccess, StepCompute, StepCommit,
     StepCleanup, StepFinish DEF Step
<1> QED  BY <1>1, <1>2, <1>3 DEF Next

\* The inductive invariant holds in every reachable state.
THEOREM Invariance == Spec => []IInv
  BY IInvInit, IInvNext, PTL DEF Spec

\* Every variable keeps its type through every worker's run: no request
\* index leaves its query, no restored image is an unsaved one.
THEOREM TypeCorrect == Spec => []TypeOK
<1>1. IInv => TypeOK
  BY DEF IInv
<1> QED  BY <1>1, Invariance, PTL

\* Row_lock never lets two transactions own a row unless both share it, for
\* any number of threads and under each of the three CC_ALGs.
THEOREM Exclusion == Spec => []LockExclusion
<1>1. IInv => LockExclusion
  BY DEF IInv, LockInv, Consistent, LockExclusion
<1> QED  BY <1>1, Invariance, PTL

\* Row_lock never loses a wake-up, whatever grants, timeouts and releases
\* race with the waiting thread.
THEOREM WakeupsKept == Spec => []NoLostWakeup
<1>1. IInv => NoLostWakeup
  BY DEF IInv, EntryInv, EnteredWaiting, LockInv, HeadBlocked, NoLostWakeup
<1> QED  BY <1>1, Invariance, PTL

\* The lock table and accesses[] of the transactions always agree: no lock
\* is leaked and lock_release always finds the entry it removes.
THEOREM LocksMatch == Spec => []LocksMatchAccesses
<1>1. ASSUME IInv, NEW r \in Rows, NEW t \in Threads
      PROVE  /\ t \in OwnersOf(lock[r]) \cup WaitersOf(lock[r])
                   <=> Accessed(t, r) \/ Pending(t, r)
             /\ t \in WaitersOf(lock[r]) => t \notin OwnersOf(lock[r]) /\ Waiting(t)
             /\ \A i, j \in DOMAIN lock[r].waiters :
                   lock[r].waiters[i].txn = lock[r].waiters[j].txn => i = j
             /\ \A i \in 1..row_cnt[t] :
                   query[t][i].row = r =>
                     [txn |-> t, type |-> LockType(query[t][i].type)] \in lock[r].owners
  <2>1. Consistent(lock[r])
    BY <1>1 DEF IInv, LockInv
  <2>2. WaitersOf(lock[r]) = {e.txn : e \in Queue(lock[r])}
    BY <2>1, ConsistentEntries
  <2>3. ASSUME t \in OwnersOf(lock[r]) \cup WaitersOf(lock[r])
        PROVE  Accessed(t, r) \/ Pending(t, r)
    BY <1>1, <2>2, <2>3 DEF IInv, EntryInv, OwnersJustified, QueueJustified, OwnersOf
  <2>4. \A i \in 1..row_cnt[t] : query[t][i].row = r =>
           [txn |-> t, type |-> LockType(query[t][i].type)] \in lock[r].owners
    BY <1>1 DEF IInv, EntryInv, OwnsAccessed, EntryOfReq
  <2>5. ASSUME Accessed(t, r) PROVE t \in OwnersOf(lock[r])
    <3>1. PICK i \in 1..row_cnt[t] : query[t][i].row = r
      BY <2>5 DEF Accessed
    <3>2. EntryOfReq(t, i) \in lock[r].owners /\ EntryOfReq(t, i).txn = t
      BY <3>1, <2>4 DEF EntryOfReq
    <3> QED  BY <3>2 DEF OwnersOf
  <2>6. ASSUME Pending(t, r) PROVE t \in OwnersOf(lock[r]) \cup WaitersOf(lock[r])
    <3>1. EntryOf(t) \in lock[r].owners \cup Queue(lock[r]) /\ EntryOf(t).txn = t
      BY <1>1, <2>6 DEF Pending, IInv, EntryInv, EnteredWaiting, OwnsGranted, EntryOf
    <3> QED  BY <3>1, <2>2 DEF OwnersOf
  <2>7. ASSUME t \in WaitersOf(lock[r])
        PROVE  t \notin OwnersOf(lock[r]) /\ Waiting(t)
    <3>1. Waiting(t)
      BY <1>1, <2>2, <2>7 DEF IInv, EntryInv, QueueJustified
    <3>2. t \notin OwnersOf(lock[r])
      BY <2>1, <2>7 DEF Consistent, WaitersOf, OwnersOf
    <3> QED  BY <3>1, <3>2
  <2>8. \A i, j \in DOMAIN lock[r].waiters :
           lock[r].waiters[i].txn = lock[r].waiters[j].txn => i = j
    BY <2>1 DEF Consistent
  <2> QED  BY <2>3, <2>4, <2>5, <2>6, <2>7, <2>8
<1>2. IInv => LocksMatchAccesses
  BY <1>1 DEF LocksMatchAccesses
<1> QED  BY <1>2, Invariance, PTL

\* The assertion of thread_t::run: a thread that runs a query has a slot left
\* to buffer it, since it has taken a new one only when there was room or has
\* freed the slot of the one it runs.
THEOREM BufferHasRoom == Spec => []AbortBufferHasRoom
<1>1. Init => AbortBufferHasRoom
  BY DEF Init, AbortBufferHasRoom
<1>2. ASSUME TypeOK, AbortBufferHasRoom, [Next]_vars PROVE AbortBufferHasRoom'
  <2>1. ASSUME NEW t \in Threads, FetchNew(t) PROVE AbortBufferHasRoom'
    BY <1>2, <2>1 DEF FetchNew, Start, Goto, AbortBufferHasRoom, TypeOK
  <2>2. ASSUME NEW t \in Threads, FetchRetry(t) PROVE AbortBufferHasRoom'
    <3>1. PICK s \in Slots : abort_buffer' = [abort_buffer EXCEPT ![t][s] = NoQuery]
      BY <2>2 DEF FetchRetry
    <3>2. pc' = [pc EXCEPT ![t] = "request"]
      BY <2>2 DEF FetchRetry, Start, Goto
    <3>3. abort_buffer'[t][s] = NoQuery
      BY <1>2, <3>1 DEF TypeOK
    <3>4. \A u \in Threads : u # t => abort_buffer'[u] = abort_buffer[u] /\ pc'[u] = pc[u]
      BY <1>2, <3>1, <3>2 DEF TypeOK
    <3> QED  BY <1>2, <3>3, <3>4 DEF AbortBufferHasRoom
  <2>3. ASSUME NEW t \in Threads, Finish(t) PROVE AbortBufferHasRoom'
    <3>1. pc'[t] \in {"fetch", "done"}
      BY <1>2, <2>3 DEF Finish, Goto, TypeOK
    <3>2. \A u \in Threads : u # t => abort_buffer'[u] = abort_buffer[u] /\ pc'[u] = pc[u]
      BY <1>2, <2>3 DEF Finish, Goto, TypeOK
    <3> QED  BY <1>2, <3>1, <3>2 DEF AbortBufferHasRoom
  <2>4. ASSUME NEW t \in Threads,
               \/ LockGetOK(t) \/ LockGetWait(t) \/ LockGetAbort(t)
               \/ EnterWait(t) \/ StopWaiting(t) \/ GiveUp(t)
               \/ Access(t) \/ Compute(t) \/ Commit(t)
               \/ Cleanup(t) \/ Timeout(t) \/ DetectCycle(t)
        PROVE  AbortBufferHasRoom'
    <3>1. abort_buffer' = abort_buffer
      BY <2>4 DEF LockGetOK, LockGetWait, LockGetAbort, EnterWait, StopWaiting, GiveUp,
                  Access, Compute, Commit, Cleanup, Timeout, DetectCycle, loopVars
    <3>2. pc' = pc \/ (pc[t] \notin {"fetch", "done"} /\ \E l : pc' = [pc EXCEPT ![t] = l])
      BY <2>4 DEF LockGetOK, LockGetWait, LockGetAbort, EnterWait, StopWaiting, GiveUp,
                  Access, Compute, Commit, Cleanup, Timeout, DetectCycle, Goto, Asks
    <3>3. \A u \in Threads :
             pc'[u] \notin {"fetch", "done"} => pc[u] \notin {"fetch", "done"}
      BY <1>2, <3>2 DEF TypeOK
    <3> QED  BY <1>2, <3>1, <3>3 DEF AbortBufferHasRoom
  <2>5. CASE UNCHANGED vars
    BY <1>2, <2>5 DEF AbortBufferHasRoom, vars, loopVars
  <2> QED  BY <1>2, <2>1, <2>2, <2>3, <2>4, <2>5 DEF Next, Step, Terminated
<1> QED  BY <1>1, <1>2, TypeCorrect, PTL DEF Spec

----------------------------------------------------------------------------
(***************************************************************************)
(* Why WAIT_DIE cannot deadlock, for every number of threads and rows: the *)
(* timestamps rise along every chain of waiting transactions.  With the    *)
(* abort buffer, that is: without it the timestamps are never assigned.    *)
(***************************************************************************)

\* Waiters are older than owners and stand youngest first.
Ordered(lk, tss) ==
    \A i \in DOMAIN lk.waiters :
        /\ \A e \in lk.owners : tss[lk.waiters[i].txn] < tss[e.txn]
        /\ \A j \in DOMAIN lk.waiters :
              i < j => tss[lk.waiters[j].txn] < tss[lk.waiters[i].txn]

OrderInv == \A r \in Rows : Ordered(lock[r], ts)

\* Timestamps come from the allocator, no two transactions share one, and a
\* query that is running or buffered has brought its thread one.
TsInv ==
    /\ next_ts > 0
    /\ \A t \in Threads : ts[t] < next_ts
    /\ \A t, u \in Threads : t # u /\ ts[t] = ts[u] => ts[t] = 0
    /\ \A t \in Threads : pc[t] \notin {"fetch", "done"} => ts[t] > 0
    /\ \A t \in Threads : \A s \in Slots : abort_buffer[t][s] # NoQuery => ts[t] > 0

----------------------------------------------------------------------------
(* The lock operations keep the order.                                     *)

LEMMA OrderedAddOwner ==
    ASSUME CC_ALG = "WAIT_DIE",
           NEW lk, Consistent(lk), NEW e \in LockEntry, NEW tss \in [Threads -> Nat],
           Ordered(lk, tss), ~ MustNotJoin(lk, e.txn, e.type, tss),
           \A i \in DOMAIN lk.waiters : tss[lk.waiters[i].txn] # tss[e.txn]
    PROVE  Ordered(AddOwner(lk, e), tss)
<1> DEFINE w == lk.waiters
           new == AddOwner(lk, e)
<1>1. lk \in RowLocks /\ w \in Seq(LockEntry) /\ e.txn \in Threads
  BY DEF Consistent, RowLocks, LockEntry
<1>2. new.owners = lk.owners \cup {e} /\ new.waiters = w
  BY <1>1 DEF AddOwner, RowLocks
<1>3. DOMAIN w = 1..Len(w) /\ Len(w) \in Nat /\ \A i \in 1..Len(w) : w[i] \in LockEntry
  BY <1>1
<1>4. \A i \in 1..Len(w) : w[i].txn \in Threads
  BY <1>3 DEF LockEntry
<1>5. ASSUME NEW i \in 1..Len(w) PROVE tss[w[i].txn] < tss[e.txn]
  <2>1. w # << >> /\ Head(w) = w[1] /\ 1 \in 1..Len(w)
    BY <1>1, <1>3
  <2>2. ~ (tss[e.txn] < tss[w[1].txn])
    BY <2>1 DEF MustNotJoin
  <2>3. tss[w[1].txn] \in Nat /\ tss[w[i].txn] \in Nat /\ tss[e.txn] \in Nat
    BY <2>1, <1>1, <1>4
  <2>4. tss[w[1].txn] # tss[e.txn]
    BY <2>1, <1>3
  <2>5. i # 1 => tss[w[i].txn] < tss[w[1].txn]
    BY <2>1, <1>3 DEF Ordered
  <2> QED  BY <2>2, <2>3, <2>4, <2>5
<1> HIDE DEF new
<1>6. \A i \in DOMAIN w : \A o \in new.owners : tss[w[i].txn] < tss[o.txn]
  BY <1>2, <1>3, <1>5 DEF Ordered
<1>7. \A i, j \in DOMAIN w : i < j => tss[w[j].txn] < tss[w[i].txn]
  BY DEF Ordered
<1> QED  BY <1>2, <1>6, <1>7 DEF Ordered, new

LEMMA OrderedAddWaiter ==
    ASSUME CC_ALG = "WAIT_DIE",
           NEW lk, Consistent(lk), NEW e \in LockEntry, NEW tss \in [Threads -> Nat],
           Ordered(lk, tss), CanWait(lk, e.txn, tss),
           \A o \in lk.owners : tss[o.txn] # tss[e.txn],
           \A i \in DOMAIN lk.waiters : tss[lk.waiters[i].txn] # tss[e.txn]
    PROVE  Ordered(AddWaiter(lk, e, tss), tss)
<1> DEFINE w == lk.waiters
           c == Cardinality(Passed(w, e.txn, tss))
           p == c + 1
           v == InsertAt(w, p, e)
           new == AddWaiter(lk, e, tss)
           T(x) == tss[x.txn]
<1>1. lk \in RowLocks /\ w \in Seq(LockEntry) /\ e.txn \in Threads
  BY DEF Consistent, RowLocks, LockEntry
<1>2. new.owners = lk.owners /\ new.waiters = v
  BY <1>1 DEF AddWaiter, RowLocks
<1>3. DOMAIN w = 1..Len(w) /\ Len(w) \in Nat /\ \A i \in 1..Len(w) : w[i] \in LockEntry
  BY <1>1
<1>4. /\ \A i \in 1..Len(w) : T(w[i]) \in Nat
      /\ T(e) \in Nat
      /\ \A o \in lk.owners : T(o) \in Nat
  <2>1. \A x \in LockEntry : T(x) \in Nat
    BY DEF LockEntry
  <2>2. \A o \in lk.owners : o \in LockEntry
    BY <1>1 DEF RowLocks
  <2> HIDE DEF T
  <2> QED  BY <2>1, <2>2, <1>3
<1>5. c \in 0..Len(w) /\ Passed(w, e.txn, tss) = 1..c
  BY <1>1, WaitPosition
<1>6. \A o \in lk.owners : T(e) < T(o)
  BY <1>4 DEF CanWait
<1>7. /\ \A i \in 1..Len(w) : \A o \in lk.owners : T(w[i]) < T(o)
      /\ \A i, j \in 1..Len(w) : i < j => T(w[j]) < T(w[i])
      /\ \A i \in 1..Len(w) : T(w[i]) # T(e)
  BY <1>3 DEF Ordered
\* Those t walks past are younger, the others older.
<1>8. \A i \in 1..c : T(e) < T(w[i])
  <2> SUFFICES ASSUME NEW i \in 1..c PROVE T(e) < T(w[i])
    OBVIOUS
  <2>1. i \in Passed(w, e.txn, tss) /\ i \in 1..i
    BY <1>5
  <2> QED  BY <2>1 DEF Passed
<1>9. \A i \in p..Len(w) : T(w[i]) < T(e)
  <2> SUFFICES ASSUME NEW i \in p..Len(w) PROVE T(w[i]) < T(e)
    OBVIOUS
  <2>1. p \in 1..Len(w) /\ i \in 1..Len(w) /\ p \notin 1..c
    BY <1>3, <1>5
  <2>2. PICK j \in 1..p : ~ (T(e) < T(w[j]))
    BY <2>1, <1>3, <1>5 DEF Passed
  <2>3. j = p
    BY <2>2, <2>1, <1>5, <1>8
  <2>4. T(w[p]) < T(e)
    BY <2>1, <2>2, <2>3, <1>4, <1>7
  <2>5. i = p \/ T(w[i]) < T(w[p])
    BY <2>1, <1>7
  <2> HIDE DEF T
  <2> QED  BY <2>1, <2>4, <2>5, <1>4
<1>10. p \in 1..(Len(w) + 1)
  BY <1>3, <1>5
<1> HIDE DEF w, T, p, c, new
<1>11. /\ v \in Seq(LockEntry)
       /\ Len(v) = Len(w) + 1
       /\ \A i \in 1..(Len(w) + 1) :
            v[i] = IF i < p THEN w[i] ELSE IF i = p THEN e ELSE w[i - 1]
  <2>1. w \in Seq(LockEntry) /\ e \in LockEntry /\ p \in 1..(Len(w) + 1)
    BY <1>1, <1>10
  <2>2. Inserted(InsertAt(w, p, e), w, p, e)
    BY <2>1, InsertAtProperties
  <2> QED  BY <2>2 DEF Inserted
<1> HIDE DEF v
<1>12. DOMAIN v = 1..(Len(w) + 1)
  BY <1>3, <1>11
<1>13. ASSUME NEW i \in DOMAIN v
       PROVE  \/ i < p /\ i \in 1..c /\ i \in 1..Len(w) /\ v[i] = w[i]
              \/ i = p /\ v[i] = e
              \/ i > p /\ i - 1 \in p..Len(w) /\ i - 1 \in 1..Len(w) /\ v[i] = w[i - 1]
  BY <1>3, <1>5, <1>10, <1>11, <1>12 DEF p
<1>14. \A i \in DOMAIN v : \A o \in lk.owners : T(v[i]) < T(o)
  BY <1>6, <1>7, <1>13
<1>15. ASSUME NEW i \in DOMAIN v, NEW j \in DOMAIN v, i < j
       PROVE  T(v[j]) < T(v[i])
  <2>1. i \in Int /\ j \in Int /\ p \in Int
    BY <1>3, <1>10, <1>12
  <2>2. CASE i < p /\ j < p
    BY <2>1, <2>2, <1>7, <1>13, <1>15
  <2>3. CASE i < p /\ j = p
    BY <2>1, <2>3, <1>8, <1>13
  <2>4. CASE i < p /\ j > p
    <3>1. i \in 1..Len(w) /\ j - 1 \in 1..Len(w) /\ v[i] = w[i] /\ v[j] = w[j - 1] /\ i < j - 1
      BY <2>1, <2>4, <1>13
    <3> QED  BY <3>1, <1>7
  <2>5. CASE i = p
    <3>1. v[i] = e /\ j - 1 \in p..Len(w) /\ v[j] = w[j - 1]
      BY <2>1, <2>5, <1>13, <1>15
    <3> QED  BY <3>1, <1>9
  <2>6. CASE i > p
    <3>1. i - 1 \in 1..Len(w) /\ j - 1 \in 1..Len(w) /\ v[i] = w[i - 1] /\ v[j] = w[j - 1]
          /\ i - 1 < j - 1
      BY <2>1, <2>6, <1>13, <1>15
    <3> QED  BY <3>1, <1>7
  <2>7. i < p \/ i = p \/ i > p
    BY <2>1
  <2>8. j < p \/ j = p \/ j > p
    BY <2>1
  <2> QED  BY <2>2, <2>3, <2>4, <2>5, <2>6, <2>7, <2>8
<1> QED  BY <1>2, <1>14, <1>15 DEF Ordered, T, new

LEMMA OrderedRemoveTxn ==
    ASSUME NEW lk, Consistent(lk), NEW t \in Threads, NEW tss \in [Threads -> Nat],
           t \in OwnersOf(lk) \cup WaitersOf(lk), Ordered(lk, tss)
    PROVE  Ordered(RemoveTxn(lk, t), tss)
<1> DEFINE w == lk.waiters
           new == RemoveTxn(lk, t)
<1>1. lk \in RowLocks /\ w \in Seq(LockEntry)
  BY DEF Consistent, RowLocks
<1>2. Len(w) \in Nat /\ DOMAIN w = 1..Len(w)
  BY <1>1
<1>3. CASE t \in OwnersOf(lk)
  <2>1. new.owners = {e \in lk.owners : e.txn # t} /\ new.waiters = w
    BY <1>1, <1>3 DEF RemoveTxn, RowLocks
  <2> HIDE DEF new
  <2> QED  BY <2>1 DEF Ordered, new
<1>4. CASE t \notin OwnersOf(lk)
  <2> DEFINE p == CHOOSE j \in DOMAIN w : w[j].txn = t
             v == RemoveAt(w, p)
  <2>1. \E j \in DOMAIN w : w[j].txn = t
    BY <1>4 DEF WaitersOf
  <2>2. p \in 1..Len(w)
    BY <2>1, <1>2
  <2>3. new.owners = lk.owners /\ new.waiters = v
    BY <1>1, <1>4 DEF RemoveTxn, RowLocks
  <2> HIDE DEF p, new
  <2>4. /\ v \in Seq(LockEntry)
        /\ Len(v) = Len(w) - 1
        /\ \A i \in 1..(Len(w) - 1) : v[i] = IF i < p THEN w[i] ELSE w[i + 1]
    BY <1>1, <2>2, RemoveAtProperties
  <2> DEFINE k(i) == IF i < p THEN i ELSE i + 1
  <2> HIDE DEF v
  <2>5. DOMAIN v = 1..(Len(w) - 1)
    BY <1>2, <2>2, <2>4
  <2>6. /\ \A i \in DOMAIN v : k(i) \in DOMAIN w /\ v[i] = w[k(i)]
        /\ \A i, j \in DOMAIN v : i < j => k(i) < k(j)
    <3>1. ASSUME NEW i \in DOMAIN v PROVE k(i) \in DOMAIN w /\ v[i] = w[k(i)]
      <4>1. i \in 1..(Len(w) - 1)
        BY <2>5
      <4>2. k(i) \in DOMAIN w
        BY <4>1, <1>2, <2>2
      <4> QED  BY <4>1, <4>2, <2>4
    <3>2. ASSUME NEW i \in DOMAIN v, NEW j \in DOMAIN v, i < j PROVE k(i) < k(j)
      BY <3>2, <1>2, <2>2, <2>5
    <3> QED  BY <3>1, <3>2
  <2>7. /\ \A i \in DOMAIN w : \A e \in lk.owners : tss[w[i].txn] < tss[e.txn]
        /\ \A i, j \in DOMAIN w : i < j => tss[w[j].txn] < tss[w[i].txn]
    BY DEF Ordered
  <2> HIDE DEF k, w
  <2>8. \A i \in DOMAIN v : \A e \in lk.owners : tss[v[i].txn] < tss[e.txn]
    BY <2>6, <2>7
  <2>9. \A i, j \in DOMAIN v : i < j => tss[v[j].txn] < tss[v[i].txn]
    BY <2>6, <2>7
  <2> QED  BY <2>3, <2>8, <2>9 DEF Ordered, new
<1> QED  BY <1>3, <1>4

LEMMA OrderedGrant ==
    ASSUME NEW lk, Consistent(lk), NEW tss \in [Threads -> Nat], Ordered(lk, tss)
    PROVE  Ordered(GrantWaiters(lk), tss)
<1> DEFINE w == lk.waiters
           n == Cardinality(Granted(lk))
           v == SubSeq(w, n + 1, Len(w))
           new == GrantWaiters(lk)
<1>1. lk \in RowLocks /\ w \in Seq(LockEntry)
  BY DEF Consistent, RowLocks
<1>2. Len(w) \in Nat /\ DOMAIN w = 1..Len(w) /\ \A i \in 1..Len(w) : w[i] \in LockEntry
  BY <1>1
<1>3. n \in 0..Len(w) /\ Granted(lk) = 1..n
  BY <1>1, GrantedPrefix
<1>4. new.owners = lk.owners \cup {w[i] : i \in 1..n} /\ new.waiters = v
  BY <1>3 DEF GrantWaiters
<1>5. /\ \A i \in 1..Len(w) : \A e \in lk.owners : tss[w[i].txn] < tss[e.txn]
      /\ \A i, j \in 1..Len(w) : i < j => tss[w[j].txn] < tss[w[i].txn]
  BY <1>2 DEF Ordered
<1> HIDE DEF n, new, w
<1>6. /\ v \in Seq(LockEntry)
      /\ Len(v) = Len(w) - n
      /\ \A i \in 1..(Len(w) - n) : v[i] = w[n + i]
  <2> DEFINE L == Len(w)
  <2>1. L \in Nat /\ n \in Nat /\ n <= L
    BY <1>2, <1>3
  <2>2. \A i \in (n + 1)..L : w[i] \in LockEntry
    BY <2>1, <1>2
  <2> HIDE DEF L
  <2>3. /\ SubSeq(w, n + 1, L) \in Seq(LockEntry)
        /\ Len(SubSeq(w, n + 1, L)) = IF n + 1 <= L THEN L - (n + 1) + 1 ELSE 0
        /\ \A i \in 1..(L - (n + 1) + 1) : SubSeq(w, n + 1, L)[i] = w[(n + 1) + i - 1]
    BY <2>1, <2>2, SubSeqProperties
  <2>4. /\ Len(SubSeq(w, n + 1, L)) = L - n
        /\ L - (n + 1) + 1 = L - n
        /\ \A i \in 1..(L - n) : (n + 1) + i - 1 = n + i
    BY <2>1, <2>3
  <2> QED  BY <2>3, <2>4 DEF L
<1> HIDE DEF v
<1>7. \A i \in DOMAIN v : i \in 1..(Len(w) - n) /\ n + i \in 1..Len(w) /\ v[i] = w[n + i]
  BY <1>2, <1>3, <1>6
<1>8. ASSUME NEW i \in DOMAIN v, NEW o \in new.owners PROVE tss[v[i].txn] < tss[o.txn]
  <2>1. CASE o \in lk.owners
    BY <2>1, <1>5, <1>7
  <2>2. ASSUME NEW j \in 1..n, o = w[j] PROVE tss[v[i].txn] < tss[o.txn]
    <3>1. j \in 1..Len(w) /\ j < n + i
      BY <1>2, <1>3, <1>7
    <3> QED  BY <3>1, <2>2, <1>5, <1>7
  <2> QED  BY <2>1, <2>2, <1>4
<1>9. ASSUME NEW i \in DOMAIN v, NEW j \in DOMAIN v, i < j
      PROVE  tss[v[j].txn] < tss[v[i].txn]
  <2>1. n + i < n + j
    BY <1>3, <1>7, <1>9
  <2> QED  BY <2>1, <1>5, <1>7
<1> QED  BY <1>4, <1>8, <1>9 DEF Ordered, new

LEMMA OrderedRelease ==
    ASSUME NEW lk, Consistent(lk), NEW t \in Threads, NEW tss \in [Threads -> Nat],
           t \in OwnersOf(lk) \cup WaitersOf(lk), Ordered(lk, tss)
    PROVE  Ordered(LockRelease(lk, t), tss)
  BY OrderedRemoveTxn, OrderedGrant, RemoveTxnProperties DEF LockRelease

----------------------------------------------------------------------------
(* Timestamps.                                                             *)

LEMMA TsInit == Init => TsInv
  BY DEF Init, TsInv

LEMMA TsNext ==
    ASSUME CC_ALG = "WAIT_DIE", AbortBufferEnable, IInv, TsInv, [Next]_vars
    PROVE  TsInv'
<1>0. TypeOK
  BY DEF IInv
<1> USE DEF Goto, txnVars, tsVars, loopVars, vars
<1>1. CASE UNCHANGED vars
  BY <1>1 DEF TsInv
<1>2. CASE Terminated
  BY <1>2 DEF TsInv, Terminated
<1>3. ASSUME NEW t \in Threads, FetchNew(t) PROVE TsInv'
  <2>1. /\ ts' = [ts EXCEPT ![t] = next_ts] /\ next_ts' = next_ts + 1
        /\ abort_buffer' = abort_buffer
        /\ pc' = [pc EXCEPT ![t] = "request"]
    BY <1>3 DEF FetchNew, Start
  <2>2. ts \in [Threads -> Nat] /\ next_ts \in Nat
    BY <1>0 DEF TypeOK
  <2>3. ts'[t] = next_ts /\ \A u \in Threads : u # t => ts'[u] = ts[u] /\ pc'[u] = pc[u]
    BY <2>1, <2>2, <1>0 DEF TypeOK
  <2>4. \A u \in Threads : ts[u] \in Nat /\ ts[u] < next_ts
    BY <2>2 DEF TsInv
  <2>5. \A u \in Threads : ts'[u] < next_ts'
    BY <2>1, <2>2, <2>3, <2>4
  <2>6. \A u, v \in Threads : u # v /\ ts'[u] = ts'[v] => ts'[u] = 0
    BY <2>2, <2>3, <2>4 DEF TsInv
  <2>7. ts'[t] > 0 /\ next_ts' > 0
    BY <2>1, <2>2, <2>3 DEF TsInv
  <2> QED  BY <2>1, <2>3, <2>5, <2>6, <2>7 DEF TsInv
<1>4. ASSUME NEW t \in Threads, FetchRetry(t) PROVE TsInv'
  <2>1. PICK s \in Slots : /\ abort_buffer[t][s] # NoQuery
                           /\ abort_buffer' = [abort_buffer EXCEPT ![t][s] = NoQuery]
                           /\ pc' = [pc EXCEPT ![t] = "request"]
                           /\ ts' = ts /\ next_ts' = next_ts
    BY <1>4 DEF FetchRetry, Start
  <2>2. ts[t] > 0
    BY <2>1 DEF TsInv
  <2>3. \A u \in Threads : \A x \in Slots : abort_buffer'[u][x] # NoQuery
                                            => abort_buffer[u][x] # NoQuery
    BY <2>1, <1>0 DEF TypeOK
  <2>4. \A u \in Threads : u # t => pc'[u] = pc[u]
    BY <2>1, <1>0 DEF TypeOK
  <2> QED  BY <2>1, <2>2, <2>3, <2>4 DEF TsInv
<1>5. ASSUME NEW t \in Threads, Finish(t) PROVE TsInv'
  <2>1. ts' = ts /\ next_ts' = next_ts /\ ts[t] > 0
    BY <1>5 DEF Finish, TsInv
  <2>2. \A u \in Threads : u # t => pc'[u] = pc[u]
    BY <1>5, <1>0 DEF Finish, TypeOK
  <2>3. \A u \in Threads : u # t => abort_buffer'[u] = abort_buffer[u]
    <3>1. CASE rc[t] = "Abort"
      <4>1. PICK s \in Slots : abort_buffer' = [abort_buffer EXCEPT ![t][s] = query[t]]
        BY <1>5, <3>1 DEF Finish
      <4> QED  BY <4>1, <1>0 DEF TypeOK
    <3>2. CASE rc[t] # "Abort"
      BY <1>5, <3>2 DEF Finish
    <3> QED  BY <3>1, <3>2
  <2> QED  BY <2>1, <2>2, <2>3 DEF TsInv
\* The other steps touch neither timestamps nor buffer, and start nothing.
<1>6. ASSUME ts' = ts, next_ts' = next_ts, abort_buffer' = abort_buffer,
             \A u \in Threads : pc[u] \in {"fetch", "done"} => pc'[u] = pc[u]
      PROVE  TsInv'
  BY <1>6 DEF TsInv
<1>7. ASSUME NEW t \in Threads,
             \/ LockGetOK(t) \/ LockGetWait(t) \/ LockGetAbort(t)
             \/ EnterWait(t) \/ StopWaiting(t) \/ GiveUp(t)
             \/ Access(t) \/ Compute(t) \/ Commit(t) \/ Cleanup(t)
             \/ Timeout(t) \/ DetectCycle(t)
      PROVE  TsInv'
  <2>1. ts' = ts /\ next_ts' = next_ts /\ abort_buffer' = abort_buffer
    BY <1>7 DEF LockGetOK, LockGetWait, LockGetAbort, EnterWait, StopWaiting, GiveUp,
       Access, Compute, Commit, Cleanup, Timeout, DetectCycle
  <2>2. pc' = pc \/ \E label : pc' = [pc EXCEPT ![t] = label] /\ pc[t] \notin {"fetch", "done"}
    BY <1>7 DEF LockGetOK, LockGetWait, LockGetAbort, EnterWait, StopWaiting, GiveUp,
       Access, Compute, Commit, Cleanup, Timeout, DetectCycle, Asks
  <2>3. \A u \in Threads : pc[u] \in {"fetch", "done"} => pc'[u] = pc[u]
    BY <2>2, <1>0 DEF TypeOK
  <2> QED  BY <2>1, <2>3, <1>6
<1> QED  BY <1>1, <1>2, <1>3, <1>4, <1>5, <1>7 DEF Next, Step

\* Transactions entered in locks are running, so their timestamps differ.
LEMMA EnteredTs ==
    ASSUME IInv, TsInv, NEW r \in Rows, NEW t \in Threads, pc[t] \notin {"fetch", "done"},
           NEW o \in lock[r].owners \cup Queue(lock[r]), o.txn # t
    PROVE  ts[o.txn] # ts[t]
<1>1. o.txn \in Threads
  BY ConsistentEntries DEF IInv, LockInv
<1>2. Accessed(o.txn, r) \/ Pending(o.txn, r)
  BY DEF IInv, EntryInv, OwnersJustified, QueueJustified
<1>3. pc[o.txn] \notin {"fetch", "done"}
  <2>1. CASE Pending(o.txn, r)
    BY <2>1 DEF Pending, Waiting
  <2>2. CASE Accessed(o.txn, r)
    <3>1. PICK i \in 1..row_cnt[o.txn] : TRUE
      BY <2>2 DEF Accessed
    <3>2. row_cnt[o.txn] # 0
      BY <3>1, <1>1 DEF IInv, TypeOK
    <3> QED  BY <3>2, <1>1 DEF IInv, QueryInv
  <2> QED  BY <1>2, <2>1, <2>2
<1>4. ts[t] > 0 /\ ts[t] \in Nat
  BY DEF TsInv, IInv, TypeOK
<1> QED  BY <1>1, <1>3, <1>4 DEF TsInv

----------------------------------------------------------------------------
(* The order.                                                              *)

LEMMA OrderInit == Init => OrderInv
<1>1. \A tss : Ordered(FreeLock, tss)
  BY DEF Ordered, FreeLock
<1> QED  BY <1>1 DEF Init, OrderInv

LEMMA OrderLockGetOK ==
    ASSUME CC_ALG = "WAIT_DIE", IInv, TsInv, OrderInv, NEW t \in Threads, LockGetOK(t)
    PROVE  OrderInv'
<1> DEFINE r == NextReq(t).row
           e == EntryOf(t)
           new == AddOwner(lock[r], e)
<1>1. /\ TypeOK
      /\ pc[t] = "request"
      /\ r \in Rows
      /\ e \in LockEntry /\ e.txn = t /\ e.type = LockType(NextReq(t).type)
      /\ Consistent(lock[r])
      /\ t \notin WaitersOf(lock[r])
  BY AskerFacts DEF LockGetOK
<1>2. ~ MustNotJoin(lock[r], e.txn, e.type, ts) /\ ts \in [Threads -> Nat]
  BY <1>1 DEF Refused, TypeOK, LockGetOK
<1>3. lock' = [lock EXCEPT ![r] = new] /\ ts' = ts
  BY DEF LockGetOK, tsVars
<1> HIDE DEF r, e
<1>4. \A i \in DOMAIN lock[r].waiters : ts[lock[r].waiters[i].txn] # ts[e.txn]
  <2> SUFFICES ASSUME NEW i \in DOMAIN lock[r].waiters
               PROVE  ts[lock[r].waiters[i].txn] # ts[t]
    BY <1>1
  <2>1. lock[r].waiters[i] \in Queue(lock[r]) /\ lock[r].waiters[i].txn # t
    BY <1>1 DEF Queue, WaitersOf
  <2> QED  BY <2>1, <1>1, EnteredTs
<1>5. Ordered(lock[r], ts)
  BY <1>1 DEF OrderInv
<1>6. Ordered(new, ts)
  BY <1>1, <1>2, <1>4, <1>5, OrderedAddOwner
<1> HIDE DEF new
<1>7. \A s \in Rows : lock'[s] = new \/ lock'[s] = lock[s]
  BY <1>1, <1>3 DEF TypeOK
<1> QED  BY <1>3, <1>6, <1>7 DEF OrderInv

LEMMA OrderLockGetWait ==
    ASSUME CC_ALG = "WAIT_DIE", IInv, TsInv, OrderInv, NEW t \in Threads, LockGetWait(t)
    PROVE  OrderInv'
<1> DEFINE r == NextReq(t).row
           e == EntryOf(t)
           new == AddWaiter(lock[r], e, ts)
<1>1. /\ TypeOK
      /\ pc[t] = "request"
      /\ r \in Rows
      /\ e \in LockEntry /\ e.txn = t
      /\ Consistent(lock[r])
      /\ t \notin OwnersOf(lock[r])
      /\ t \notin WaitersOf(lock[r])
  BY AskerFacts DEF LockGetWait
<1>2. CanWait(lock[r], e.txn, ts) /\ ts \in [Threads -> Nat]
  BY <1>1 DEF TypeOK, LockGetWait
<1>3. lock' = [lock EXCEPT ![r] = new] /\ ts' = ts
  BY DEF LockGetWait, tsVars
<1> HIDE DEF r, e
<1>4. \A i \in DOMAIN lock[r].waiters : ts[lock[r].waiters[i].txn] # ts[e.txn]
  <2> SUFFICES ASSUME NEW i \in DOMAIN lock[r].waiters
               PROVE  ts[lock[r].waiters[i].txn] # ts[t]
    BY <1>1
  <2>1. lock[r].waiters[i] \in Queue(lock[r]) /\ lock[r].waiters[i].txn # t
    BY <1>1 DEF Queue, WaitersOf
  <2> QED  BY <2>1, <1>1, EnteredTs
<1>5. \A o \in lock[r].owners : ts[o.txn] # ts[e.txn]
  <2> SUFFICES ASSUME NEW o \in lock[r].owners PROVE ts[o.txn] # ts[t]
    BY <1>1
  <2>1. o.txn # t
    BY <1>1 DEF OwnersOf
  <2> QED  BY <2>1, <1>1, EnteredTs
<1>6. Ordered(lock[r], ts)
  BY <1>1 DEF OrderInv
<1>7. Ordered(new, ts)
  BY <1>1, <1>2, <1>4, <1>5, <1>6, OrderedAddWaiter
<1> HIDE DEF new
<1>8. \A s \in Rows : lock'[s] = new \/ lock'[s] = lock[s]
  BY <1>1, <1>3 DEF TypeOK
<1> QED  BY <1>3, <1>7, <1>8 DEF OrderInv

LEMMA OrderReleaseStep ==
    ASSUME IInv, OrderInv, NEW t \in Threads, NEW r \in Rows,
           t \in OwnersOf(lock[r]) \cup WaitersOf(lock[r]),
           lock' = [lock EXCEPT ![r] = LockRelease(@, t)], ts' = ts
    PROVE  OrderInv'
<1>1. TypeOK /\ Consistent(lock[r]) /\ Ordered(lock[r], ts) /\ ts \in [Threads -> Nat]
  BY DEF IInv, LockInv, OrderInv, TypeOK
<1>2. Ordered(LockRelease(lock[r], t), ts)
  BY <1>1, OrderedRelease
<1>3. \A s \in Rows : lock'[s] = LockRelease(lock[r], t) \/ lock'[s] = lock[s]
  BY <1>1 DEF TypeOK
<1> QED  BY <1>2, <1>3 DEF OrderInv

LEMMA OrderGiveUp ==
    ASSUME IInv, OrderInv, NEW t \in Threads, GiveUp(t)
    PROVE  OrderInv'
<1>1. TypeOK /\ QueryInv /\ query[t] \in Queries /\ row_cnt[t] < Len(query[t]) /\ Waiting(t)
  BY DEF IInv, QueryInv, Waiting, GiveUp
<1>2. PICK r \in Rows : r = NextReq(t).row
  BY <1>1, NextReqFacts
<1>3. t \in OwnersOf(lock[r]) \cup WaitersOf(lock[r])
  <2>1. EntryOf(t) \in lock[r].owners \cup Queue(lock[r]) /\ EntryOf(t).txn = t
    BY <1>1, <1>2 DEF IInv, EntryInv, EnteredWaiting, EntryOf
  <2>2. Consistent(lock[r])
    BY DEF IInv, LockInv
  <2> QED  BY <2>1, <2>2, ConsistentEntries DEF OwnersOf
<1>4. lock' = [lock EXCEPT ![r] = LockRelease(@, t)] /\ ts' = ts
  BY <1>2 DEF GiveUp, tsVars
<1> QED  BY <1>3, <1>4, OrderReleaseStep

LEMMA OrderCleanup ==
    ASSUME IInv, OrderInv, NEW t \in Threads, Cleanup(t)
    PROVE  OrderInv'
<1>1. TypeOK /\ QueryInv /\ row_cnt[t] \in 1..row_cnt[t]
  BY DEF IInv, TypeOK, Cleanup
<1>2. PICK r \in Rows : r = LastReq(t).row
  BY <1>1, RequestFacts DEF LastReq
<1>3. t \in OwnersOf(lock[r])
  <2>1. EntryOfReq(t, row_cnt[t]) \in lock[r].owners /\ EntryOfReq(t, row_cnt[t]).txn = t
    BY <1>1, <1>2 DEF IInv, EntryInv, OwnsAccessed, EntryOfReq, LastReq
  <2> QED  BY <2>1 DEF OwnersOf
<1>4. lock' = [lock EXCEPT ![r] = LockRelease(@, t)] /\ ts' = ts
  BY <1>2 DEF Cleanup, tsVars
<1> QED  BY <1>3, <1>4, OrderReleaseStep

\* A new timestamp goes to a transaction that is entered nowhere.
LEMMA OrderFetchNew ==
    ASSUME IInv, OrderInv, NEW t \in Threads, FetchNew(t)
    PROVE  OrderInv'
<1>1. /\ lock' = lock
      /\ \A u \in Threads : u # t => ts'[u] = ts[u]
      /\ pc[t] = "fetch"
  BY DEF FetchNew, Start, tsVars, IInv, TypeOK
<1>2. ASSUME NEW r \in Rows, NEW o \in lock[r].owners \cup Queue(lock[r])
      PROVE  ts'[o.txn] = ts[o.txn]
  <2>1. o.txn \in Threads
    BY ConsistentEntries DEF IInv, LockInv
  <2>2. Accessed(o.txn, r) \/ Pending(o.txn, r)
    BY DEF IInv, EntryInv, OwnersJustified, QueueJustified
  <2>3. o.txn # t
    <3>1. row_cnt[t] = 0
      BY <1>1 DEF IInv, QueryInv
    <3> QED  BY <1>1, <2>2, <3>1 DEF Accessed, Pending, Waiting
  <2> QED  BY <2>1, <2>3, <1>1
<1>3. \A r \in Rows : \A i \in DOMAIN lock[r].waiters : lock[r].waiters[i] \in Queue(lock[r])
  BY DEF Queue
<1>4. ASSUME NEW r \in Rows PROVE Ordered(lock[r], ts')
  <2>1. Ordered(lock[r], ts)
    BY DEF OrderInv
  <2> QED  BY <2>1, <1>2, <1>3 DEF Ordered
<1> QED  BY <1>1, <1>4 DEF OrderInv

LEMMA OrderNext ==
    ASSUME CC_ALG = "WAIT_DIE", IInv, TsInv, OrderInv, [Next]_vars
    PROVE  OrderInv'
<1>1. ASSUME lock' = lock, ts' = ts PROVE OrderInv'
  BY <1>1 DEF OrderInv
<1>2. ASSUME NEW t \in Threads,
             \/ FetchRetry(t) \/ LockGetAbort(t) \/ EnterWait(t) \/ StopWaiting(t)
             \/ Access(t) \/ Compute(t) \/ Commit(t) \/ Finish(t)
             \/ Timeout(t) \/ DetectCycle(t)
      PROVE  lock' = lock /\ ts' = ts
  BY <1>2 DEF FetchRetry, Start, LockGetAbort, EnterWait, StopWaiting, Access,
     Compute, Commit, Finish, Timeout, DetectCycle, tsVars
<1>3. CASE UNCHANGED vars \/ Terminated
  BY <1>1, <1>3 DEF vars, tsVars, Terminated
<1>4. ASSUME NEW t \in Threads, Step(t) \/ Timeout(t) \/ DetectCycle(t)
      PROVE  OrderInv'
  BY <1>1, <1>2, <1>4, OrderLockGetOK, OrderLockGetWait, OrderGiveUp, OrderCleanup,
     OrderFetchNew DEF Step
<1> QED  BY <1>3, <1>4 DEF Next

----------------------------------------------------------------------------
(* The theorems.                                                           *)

\* With the abort buffer, under WAIT_DIE, Row_lock's waiters are older than
\* its owners and queue youngest first: what lock_get's comments promise
\* and lock_release asserts.
THEOREM WaitDieOrdered ==
    ASSUME AbortBufferEnable PROVE Spec => []WaitDieOrder
<1> DEFINE J == CC_ALG = "WAIT_DIE" => TsInv /\ OrderInv
<1>1. Init => J
  BY TsInit, OrderInit
<1>2. IInv /\ J /\ [Next]_vars => J'
  BY TsNext, OrderNext
<1>3. J => WaitDieOrder
  BY DEF OrderInv, Ordered, WaitDieOrder
<1> HIDE DEF J
<1> QED  BY <1>1, <1>2, <1>3, Invariance, PTL DEF Spec

LEMMA NatMin ==
    ASSUME NEW T \in SUBSET Nat, T # {}
    PROVE  \E x \in T : \A y \in T : x <= y
<1> DEFINE R == OpToRel(<, Nat)
<1>1. IsWellFoundedOn(R, Nat)
  BY NatLessThanWellFounded
<1>2. \A a, b \in Nat : a < b => <<a, b>> \in R
  BY DEF OpToRel
<1> HIDE DEF R
<1>3. PICK x \in T : \A y \in T : ~ (<<y, x>> \in R)
  BY <1>1, WFMin
<1>4. ASSUME NEW y \in T PROVE x <= y
  <2>1. x \in Nat /\ y \in Nat
    OBVIOUS
  <2>2. ~ (y < x)
    BY <2>1, <1>2, <1>3, Zenon
  <2> QED  BY <2>1, <2>2
<1> QED  BY <1>4

\* Whoever t waits for is younger.
LEMMA WaitsForYounger ==
    ASSUME CC_ALG = "WAIT_DIE", TypeOK, WaitDieOrder, NEW t, NEW u, WaitsFor(t, u)
    PROVE  ts[t] < ts[u]
<1>0. PICK r \in Rows : \E i \in DOMAIN lock[r].waiters :
         /\ lock[r].waiters[i].txn = t
         /\ u \in OwnersOf(lock[r]) \cup {lock[r].waiters[j].txn : j \in 1..(i - 1)}
  BY DEF WaitsFor
<1>1. PICK i \in DOMAIN lock[r].waiters :
         /\ lock[r].waiters[i].txn = t
         /\ u \in OwnersOf(lock[r]) \cup {lock[r].waiters[j].txn : j \in 1..(i - 1)}
  BY <1>0
<1>2. CASE u \in OwnersOf(lock[r])
  BY <1>1, <1>2 DEF OwnersOf, WaitDieOrder
<1>3. ASSUME NEW j \in 1..(i - 1), u = lock[r].waiters[j].txn
      PROVE  ts[t] < ts[u]
  <2>1. lock[r].waiters \in Seq(LockEntry)
    BY DEF TypeOK, RowLocks
  <2>2. j \in DOMAIN lock[r].waiters /\ j < i
    BY <2>1
  <2> QED  BY <2>2, <1>1, <1>3 DEF WaitDieOrder
<1> QED  BY <1>1, <1>2, <1>3

\* No set of WAIT_DIE transactions waits within itself: the youngest of a
\* set waits for none of the set.
THEOREM WaitDieDeadlockFree ==
    ASSUME AbortBufferEnable PROVE Spec => []NoDeadlock
<1> DEFINE J == CC_ALG = "WAIT_DIE" => TsInv /\ OrderInv
<1>1. Init => J
  BY TsInit, OrderInit
<1>2. IInv /\ J /\ [Next]_vars => J'
  BY TsNext, OrderNext
<1>3. IInv /\ J => NoDeadlock
  <2> SUFFICES ASSUME IInv, J, CC_ALG = "WAIT_DIE", NEW S \in SUBSET Threads, S # {}
               PROVE  \E t \in S : \A u \in S : ~ WaitsFor(t, u)
    BY DEF NoDeadlock
  <2>1. WaitDieOrder /\ TsInv
    BY DEF OrderInv, Ordered, WaitDieOrder
  <2>2. \A t \in S : ts[t] \in Nat /\ ts[t] < next_ts /\ next_ts \in Nat
    BY <2>1 DEF TsInv, IInv, TypeOK
  <2> DEFINE age == {next_ts - ts[t] : t \in S}
  <2>3. age \in SUBSET Nat /\ age # {}
    BY <2>2
  <2>4. PICK x \in age : \A y \in age : x <= y
    <3> HIDE DEF age
    <3> QED  BY <2>3, NatMin
  <2>5. PICK t \in S : x = next_ts - ts[t]
    OBVIOUS
  <2>6. ASSUME NEW u \in S PROVE ~ WaitsFor(t, u)
    <3>1. next_ts - ts[t] <= next_ts - ts[u]
      BY <2>4, <2>5
    <3>2. ~ (ts[t] < ts[u])
      BY <3>1, <2>2
    <3> QED  BY <3>2, <2>1, WaitsForYounger DEF IInv
  <2> QED  BY <2>6
<1> HIDE DEF J
<1> QED  BY <1>1, <1>2, <1>3, Invariance, PTL DEF Spec

----------------------------------------------------------------------------
(***************************************************************************)
(* Two-phase locking implements SerialStore.                               *)
(***************************************************************************)

\* The accesses of t that the computation has dealt with.
Computed(t) == {i \in 1..row_cnt[t] : pc[t] = "compute" => i < row_cnt[t]}

HasRead(t, r) == \E i \in Computed(t) : query[t][i] = [row |-> r, type |-> "RD"]

HasWritten(t, r) == \E i \in Computed(t) : query[t][i] = [row |-> r, type |-> "WR"]

\* Only cleanup of an aborted transaction runs with rc = Abort.
RcInv == \A t \in Threads : pc[t] # "cleanup" => rc[t] = "RCOK"

\* Until a transaction ends, what it has read is what the rows hold ...
SeenInv ==
    \A t \in Threads, r \in Rows :
        pc[t] # "cleanup" =>
            /\ HasRead(t, r) => seen[t][r] = data[r]
            /\ ~ HasRead(t, r) => seen[t][r] = NoVal

\* ... and the rows hold what it has written.
WrittenInv ==
    \A t \in Threads, r \in Rows :
        pc[t] # "cleanup" /\ HasWritten(t, r) => data[r] = Written(t)

DInv == RcInv /\ SeenInv /\ WrittenInv

----------------------------------------------------------------------------
(* Who holds what.                                                         *)

\* t has accessed r for the given type.
Holds(t, r, type) == \E i \in 1..row_cnt[t] : query[t][i] = [row |-> r, type |-> type]

\* A row accessed for writing is accessed by nobody else.
LEMMA WriterAlone ==
    ASSUME IInv, NEW r \in Rows, NEW t \in Threads, NEW u \in Threads,
           NEW type \in {"RD", "WR"}, Holds(t, r, "WR"), Holds(u, r, type)
    PROVE  t = u
<1>1. PICK i \in 1..row_cnt[t] : query[t][i] = [row |-> r, type |-> "WR"]
  BY DEF Holds
<1>2. PICK j \in 1..row_cnt[u] : query[u][j] = [row |-> r, type |-> type]
  BY DEF Holds
<1>3. EntryOfReq(t, i) \in lock[r].owners /\ EntryOfReq(t, i) = [txn |-> t, type |-> "LOCK_EX"]
  BY <1>1 DEF IInv, EntryInv, OwnsAccessed, EntryOfReq, LockType
<1>4. EntryOfReq(u, j) \in lock[r].owners /\ EntryOfReq(u, j).txn = u
  BY <1>2 DEF IInv, EntryInv, OwnsAccessed, EntryOfReq
<1>5. Consistent(lock[r])
  BY DEF IInv, LockInv
<1> QED  BY <1>3, <1>4, <1>5 DEF Consistent

\* Nor is a row just granted for writing.
LEMMA GrantedWriterAlone ==
    ASSUME IInv, NEW r \in Rows, NEW t \in Threads, NEW u \in Threads,
           NEW type \in {"RD", "WR"}, pc[t] = "access",
           NextReq(t) = [row |-> r, type |-> "WR"], Holds(u, r, type)
    PROVE  t = u
<1>1. EntryOf(t) \in lock[r].owners /\ EntryOf(t) = [txn |-> t, type |-> "LOCK_EX"]
  BY DEF IInv, EntryInv, OwnsGranted, EntryOf, LockType
<1>2. PICK j \in 1..row_cnt[u] : query[u][j] = [row |-> r, type |-> type]
  BY DEF Holds
<1>3. EntryOfReq(u, j) \in lock[r].owners /\ EntryOfReq(u, j).txn = u
  BY <1>2 DEF IInv, EntryInv, OwnsAccessed, EntryOfReq
<1>4. Consistent(lock[r])
  BY DEF IInv, LockInv
<1> QED  BY <1>1, <1>3, <1>4 DEF Consistent

LEMMA DirtyHolds ==
    ASSUME NEW t, NEW r
    PROVE  /\ Dirty(t, r) <=> ~ HasCommitted(t) /\ Holds(t, r, "WR")
           /\ HasRead(t, r) => Holds(t, r, "RD")
           /\ HasWritten(t, r) => Holds(t, r, "WR")
  BY DEF Dirty, Holds, HasRead, HasWritten, Computed

----------------------------------------------------------------------------
(* The committed contents of a row.                                        *)

CommittedFacts ==
    \A r \in Rows :
        /\ \A t \in Threads : Dirty(t, r) => CommittedData[r] = orig_data[t][r]
        /\ (\A t \in Threads : ~ Dirty(t, r)) => CommittedData[r] = data[r]

LEMMA CommittedAt == IInv => CommittedFacts
<1> SUFFICES ASSUME IInv, NEW r \in Rows
             PROVE  /\ \A t \in Threads : Dirty(t, r) => CommittedData[r] = orig_data[t][r]
                    /\ (\A t \in Threads : ~ Dirty(t, r)) => CommittedData[r] = data[r]
  BY DEF CommittedFacts
<1>1. ASSUME NEW t \in Threads, Dirty(t, r) PROVE CommittedData[r] = orig_data[t][r]
  <2> DEFINE u == CHOOSE v \in Threads : Dirty(v, r)
  <2>1. u \in Threads /\ Dirty(u, r)
    BY <1>1
  <2>2. CommittedData[r] = orig_data[u][r]
    BY <1>1 DEF CommittedData
  <2>3. Holds(t, r, "WR") /\ Holds(u, r, "WR")
    BY <1>1, <2>1, DirtyHolds
  <2> HIDE DEF u
  <2>4. u = t
    BY <2>1, <2>3, WriterAlone
  <2> QED  BY <2>2, <2>4
<1>2. ASSUME \A t \in Threads : ~ Dirty(t, r) PROVE CommittedData[r] = data[r]
  BY <1>2 DEF CommittedData
<1> QED  BY <1>1, <1>2

LEMMA CommittedAtNext == IInv' => CommittedFacts'
  BY CommittedAt, PTL

LEMMA SameRow ==
    ASSUME CommittedFacts, CommittedFacts', NEW r \in Rows,
           \A u \in Threads : /\ Dirty(u, r)' = Dirty(u, r)
                              /\ Dirty(u, r) => orig_data'[u][r] = orig_data[u][r],
           (\A u \in Threads : ~ Dirty(u, r)) => data'[r] = data[r]
    PROVE  CommittedData'[r] = CommittedData[r]
<1>1. CASE \E u \in Threads : Dirty(u, r)
  <2>1. PICK u \in Threads : Dirty(u, r)
    BY <1>1
  <2>2. CommittedData[r] = orig_data[u][r]
    BY <2>1 DEF CommittedFacts
  <2>3. Dirty(u, r)'
    BY <2>1
  <2>4. CommittedData'[r] = orig_data'[u][r]
    BY <2>3 DEF CommittedFacts
  <2> QED  BY <2>1, <2>2, <2>4
<1>2. CASE \A u \in Threads : ~ Dirty(u, r)
  <2>1. \A u \in Threads : ~ Dirty(u, r)'
    BY <1>2
  <2>2. CommittedData'[r] = data'[r]
    BY <2>1 DEF CommittedFacts
  <2>3. CommittedData[r] = data[r]
    BY <1>2 DEF CommittedFacts
  <2> QED  BY <1>2, <2>2, <2>3
<1> QED  BY <1>1, <1>2

LEMMA SameCommittedData ==
    ASSUME \A r \in Rows : CommittedData'[r] = CommittedData[r]
    PROVE  CommittedData' = CommittedData
<1>1. CommittedData = [r \in Rows |-> CommittedData[r]]
  BY DEF CommittedData
<1>2. CommittedData' = [r \in Rows |-> CommittedData'[r]]
  BY DEF CommittedData
<1> QED  BY <1>1, <1>2

LEMMA SameCommittedReads ==
    ASSUME \A u \in Threads : /\ HasCommitted(u)' = HasCommitted(u)
                              /\ HasCommitted(u) => seen'[u] = seen[u]
    PROVE  CommittedReads' = CommittedReads
  BY DEF CommittedReads, NoReads

----------------------------------------------------------------------------
(* Steps the serial store does not notice.                                 *)

SeenOf(u) ==
    \A r \in Rows :
        pc[u] # "cleanup" =>
            /\ HasRead(u, r) => seen[u][r] = data[r]
            /\ ~ HasRead(u, r) => seen[u][r] = NoVal

WrittenOf(u) ==
    \A r \in Rows : pc[u] # "cleanup" /\ HasWritten(u, r) => data[r] = Written(u)

LEMMA KeepsReads ==
    ASSUME SeenInv, WrittenInv, NEW u \in Threads,
           seen'[u] = seen[u], txn_cnt'[u] = txn_cnt[u],
           pc'[u] # "cleanup" =>
             /\ pc[u] # "cleanup"
             /\ \A r \in Rows :
                  /\ HasRead(u, r)' = HasRead(u, r)
                  /\ HasWritten(u, r)' = HasWritten(u, r)
                  /\ HasRead(u, r) \/ HasWritten(u, r) => data'[r] = data[r]
    PROVE  SeenOf(u)' /\ WrittenOf(u)'
<1>1. SeenOf(u)'
  <2> SUFFICES ASSUME NEW r \in Rows, pc'[u] # "cleanup"
               PROVE  /\ HasRead(u, r)' => seen'[u][r] = data'[r]
                      /\ ~ HasRead(u, r)' => seen'[u][r] = NoVal
    BY DEF SeenOf
  <2> QED  BY DEF SeenInv
<1>2. WrittenOf(u)'
  <2> SUFFICES ASSUME NEW r \in Rows, pc'[u] # "cleanup", HasWritten(u, r)'
               PROVE  data'[r] = Written(u)'
    BY DEF WrittenOf
  <2> QED  BY DEF WrittenInv, Written
<1> QED  BY <1>1, <1>2

LEMMA QuietStep ==
    ASSUME IInv, IInv', DInv,
           data' = data, orig_data' = orig_data, seen' = seen, row_cnt' = row_cnt,
           txn_cnt' = txn_cnt,
           \A u \in Threads :
             /\ query'[u] = query[u] \/ row_cnt[u] = 0
             /\ HasCommitted(u)' = HasCommitted(u)
             /\ (pc[u] = "compute")' = (pc[u] = "compute")
             /\ pc'[u] # "cleanup" => pc[u] # "cleanup"
    PROVE  /\ SeenInv' /\ WrittenInv'
           /\ CommittedData' = CommittedData /\ CommittedReads' = CommittedReads
<1>1. ASSUME NEW u \in Threads, NEW r \in Rows
      PROVE  /\ HasRead(u, r)' = HasRead(u, r)
             /\ HasWritten(u, r)' = HasWritten(u, r)
             /\ Dirty(u, r)' = Dirty(u, r)
  <2>1. CASE row_cnt[u] = 0
    <3>1. 1..row_cnt[u] = {}
      BY <2>1
    <3> QED  BY <3>1 DEF HasRead, HasWritten, Dirty, Computed
  <2>2. CASE query'[u] = query[u]
    BY <2>2 DEF HasRead, HasWritten, Dirty, Computed
  <2> QED  BY <2>1, <2>2
<1>2. \A u \in Threads : SeenOf(u)' /\ WrittenOf(u)'
  BY <1>1, KeepsReads DEF DInv
<1>3. SeenInv' /\ WrittenInv'
  BY <1>2 DEF SeenInv, WrittenInv, SeenOf, WrittenOf
<1>4. CommittedFacts /\ CommittedFacts'
  BY CommittedAt, CommittedAtNext
<1>5. \A r \in Rows : CommittedData'[r] = CommittedData[r]
  BY <1>1, <1>4, SameRow
<1>6. CommittedData' = CommittedData
  BY <1>5, SameCommittedData
<1>7. CommittedReads' = CommittedReads
  BY SameCommittedReads
<1> QED  BY <1>3, <1>6, <1>7

\* Fetching, asking, waiting and giving up.
Quiet(t) ==
    \/ FetchNew(t) \/ FetchRetry(t)
    \/ LockGetOK(t) \/ LockGetWait(t) \/ LockGetAbort(t)
    \/ EnterWait(t) \/ StopWaiting(t) \/ GiveUp(t)
    \/ Timeout(t) \/ DetectCycle(t)

LEMMA QuietActions ==
    ASSUME IInv, IInv', DInv, NEW t \in Threads, Quiet(t)
    PROVE  DInv' /\ CommittedData' = CommittedData /\ CommittedReads' = CommittedReads
<1>0. TypeOK /\ QueryInv /\ RcInv
  BY DEF IInv, DInv
<1> USE DEF Goto, txnVars, tsVars, loopVars
<1>1. data' = data /\ orig_data' = orig_data /\ seen' = seen /\ txn_cnt' = txn_cnt
  BY DEF Quiet, FetchNew, FetchRetry, Start, LockGetOK, LockGetWait, LockGetAbort,
     EnterWait, StopWaiting, GiveUp, Timeout, DetectCycle
<1>2. CASE FetchNew(t) \/ FetchRetry(t)
  <2>1. /\ pc[t] = "fetch"
        /\ row_cnt' = [row_cnt EXCEPT ![t] = 0]
        /\ rc' = [rc EXCEPT ![t] = "RCOK"]
        /\ pc' = [pc EXCEPT ![t] = "request"]
        /\ \E q : query' = [query EXCEPT ![t] = q]
    BY <1>2 DEF FetchNew, FetchRetry, Start
  <2>2. row_cnt[t] = 0
    BY <2>1, <1>0 DEF QueryInv
  <2>3. row_cnt' = row_cnt
    BY <2>1, <2>2, <1>0 DEF TypeOK
  <2>4. \A u \in Threads :
             /\ query'[u] = query[u] \/ row_cnt[u] = 0
             /\ HasCommitted(u)' = HasCommitted(u)
             /\ (pc[u] = "compute")' = (pc[u] = "compute")
             /\ pc'[u] # "cleanup" => pc[u] # "cleanup"
    BY <2>1, <2>2, <1>0 DEF TypeOK, HasCommitted
  <2>5. RcInv'
    BY <2>1, <1>0 DEF TypeOK, RcInv
  <2> QED  BY <1>1, <2>3, <2>4, <2>5, QuietStep DEF DInv
<1>3. CASE ~ (FetchNew(t) \/ FetchRetry(t))
  <2>1. row_cnt' = row_cnt /\ query' = query
    BY <1>3 DEF Quiet, LockGetOK, LockGetWait, LockGetAbort,
       EnterWait, StopWaiting, GiveUp, Timeout, DetectCycle
  <2>2. \/ pc' = pc /\ rc' = rc
        \/ /\ pc[t] \notin {"compute", "cleanup"}
           /\ \E label \in {"access", "enter_wait", "wait", "give_up"} :
                pc' = [pc EXCEPT ![t] = label]
           /\ rc' = rc
        \/ /\ pc[t] \notin {"compute", "cleanup"}
           /\ pc' = [pc EXCEPT ![t] = "cleanup"]
           /\ rc' = [rc EXCEPT ![t] = "Abort"]
    <3>1. CASE LockGetOK(t) \/ LockGetWait(t) \/ EnterWait(t) \/ StopWaiting(t)
      BY <3>1 DEF LockGetOK, LockGetWait, EnterWait, StopWaiting, Asks
    <3>2. CASE LockGetAbort(t) \/ GiveUp(t)
      BY <3>2 DEF LockGetAbort, GiveUp, Asks
    <3>3. CASE Timeout(t) \/ DetectCycle(t)
      BY <3>3 DEF Timeout, DetectCycle
    <3> QED  BY <1>3, <3>1, <3>2, <3>3 DEF Quiet
  <2>3. \A u \in Threads :
             /\ HasCommitted(u)' = HasCommitted(u)
             /\ (pc[u] = "compute")' = (pc[u] = "compute")
             /\ pc'[u] # "cleanup" => pc[u] # "cleanup"
    BY <2>2, <1>0 DEF TypeOK, HasCommitted
  <2>4. RcInv'
    BY <2>2, <1>0 DEF TypeOK, RcInv
  <2> QED  BY <1>1, <2>1, <2>3, <2>4, QuietStep DEF DInv
<1> QED  BY <1>2, <1>3

\* The request of a running transaction is a row and a type.
LEMMA RequestRecord ==
    ASSUME IInv, NEW t \in Threads, query[t] \in Queries, NEW i \in 1..Len(query[t])
    PROVE  query[t][i] = [row |-> query[t][i].row, type |-> query[t][i].type]
<1>1. query[t][i] \in Request
  BY QueryFacts
<1> QED  BY <1>1 DEF Request

\* Saving the image of a row and entering it in the accesses.
LEMMA AccessAction ==
    ASSUME IInv, IInv', DInv, NEW t \in Threads, Access(t)
    PROVE  DInv' /\ CommittedData' = CommittedData /\ CommittedReads' = CommittedReads
<1> DEFINE n == row_cnt[t]
<1>0. /\ TypeOK /\ QueryInv /\ DInv
      /\ query[t] \in Queries /\ row_cnt[t] < Len(query[t]) /\ pc[t] = "access"
      /\ n \in Nat /\ Len(query[t]) \in Nat
  BY QueryFacts DEF IInv, QueryInv, Access, TypeOK
<1>1. /\ n + 1 \in 1..Len(query[t])
      /\ NextReq(t).row \in Rows
      /\ \A i \in 1..n : query[t][i].row # NextReq(t).row
      /\ NextReq(t) = [row |-> NextReq(t).row, type |-> NextReq(t).type]
      /\ NextReq(t).type \in {"RD", "WR"}
  BY <1>0, NextReqFacts, RequestRecord DEF NextReq
<1>2. /\ data' = data /\ seen' = seen /\ txn_cnt' = txn_cnt /\ query' = query /\ rc' = rc
      /\ pc' = [pc EXCEPT ![t] = "compute"]
      /\ row_cnt' = [row_cnt EXCEPT ![t] = @ + 1]
      /\ row_cnt'[t] = n + 1 /\ \A u \in Threads : u # t => row_cnt'[u] = row_cnt[u]
      /\ pc'[t] = "compute" /\ \A u \in Threads : u # t => pc'[u] = pc[u]
  BY <1>0 DEF Access, Goto, loopVars, TypeOK
<1>3. PICK r0 \in Rows : r0 = NextReq(t).row
  BY <1>1
<1>4. \A u \in Threads, r \in Rows : u # t \/ r # r0 => orig_data'[u][r] = orig_data[u][r]
  BY <1>0, <1>3 DEF Access, TypeOK
<1>5. NextReq(t).type = "WR" => orig_data'[t][r0] = data[r0]
  BY <1>0, <1>3 DEF Access, TypeOK
<1>6. /\ RcInv'
      /\ \A u \in Threads : ~ HasCommitted(t) /\ HasCommitted(u)' = HasCommitted(u)
  BY <1>0, <1>2 DEF DInv, RcInv, HasCommitted
<1> HIDE DEF n
<1>7. /\ 1..(n + 1) = (1..n) \cup {n + 1}
      /\ {i \in 1..(n + 1) : i < n + 1} = 1..n
  BY <1>0
<1>8. ASSUME NEW u \in Threads
      PROVE  Computed(u)' = Computed(u)
  <2>1. CASE u = t
    BY <2>1, <1>0, <1>2, <1>7 DEF Computed, n
  <2>2. CASE u # t
    BY <2>2, <1>2 DEF Computed
  <2> QED  BY <2>1, <2>2
<1>9. ASSUME NEW u \in Threads, NEW r \in Rows
      PROVE  /\ HasRead(u, r)' = HasRead(u, r)
             /\ HasWritten(u, r)' = HasWritten(u, r)
  BY <1>2, <1>8 DEF HasRead, HasWritten
<1>10. \A u \in Threads : SeenOf(u)' /\ WrittenOf(u)'
  <2>1. \A u \in Threads : pc'[u] # "cleanup" => pc[u] # "cleanup"
    BY <1>0, <1>2
  <2> QED  BY <2>1, <1>2, <1>9, KeepsReads DEF DInv
<1>11. DInv'
  BY <1>6, <1>10 DEF DInv, SeenInv, WrittenInv, SeenOf, WrittenOf
<1>12. CommittedReads' = CommittedReads
  BY <1>2, <1>6, SameCommittedReads
<1>13. CommittedFacts /\ CommittedFacts'
  BY CommittedAt, CommittedAtNext
<1>14. ASSUME NEW u \in Threads, NEW r \in Rows,
              ~ (u = t /\ r = r0 /\ NextReq(t).type = "WR")
       PROVE  Dirty(u, r)' = Dirty(u, r)
  <2>1. CASE u # t
    BY <2>1, <1>2, <1>6 DEF Dirty
  <2>2. CASE u = t
    <3>1. query[t][n + 1] # [row |-> r, type |-> "WR"]
      BY <2>2, <1>1, <1>3, <1>14 DEF NextReq, n
    <3>2. Dirty(t, r)' <=> \E i \in (1..n) \cup {n + 1} : query[t][i] = [row |-> r, type |-> "WR"]
      BY <1>2, <1>6, <1>7 DEF Dirty
    <3>3. Dirty(t, r) <=> \E i \in 1..n : query[t][i] = [row |-> r, type |-> "WR"]
      BY <1>6 DEF Dirty, n
    <3> QED  BY <2>2, <3>1, <3>2, <3>3 DEF Dirty
  <2> QED  BY <2>1, <2>2
<1>15. ASSUME NEW r \in Rows PROVE CommittedData'[r] = CommittedData[r]
  <2>1. CASE r = r0 /\ NextReq(t).type = "WR"
    <3>1. ASSUME NEW u \in Threads, Dirty(u, r) PROVE FALSE
      <4>1. Holds(u, r, "WR")
        BY <3>1, DirtyHolds
      <4>2. u = t
        BY <4>1, <2>1, <1>0, <1>1, <1>3, GrantedWriterAlone
      <4> QED  BY <4>1, <4>2, <2>1, <1>1, <1>3 DEF Holds, n
    <3>2. CommittedData[r] = data[r]
      BY <3>1, <1>13 DEF CommittedFacts
    <3>3. Dirty(t, r)'
      <4>1. query[t][n + 1] = [row |-> r, type |-> "WR"] /\ n + 1 \in 1..(n + 1)
        BY <2>1, <1>1, <1>3, <1>7 DEF NextReq, n
      <4> QED  BY <4>1, <1>2, <1>6 DEF Dirty
    <3>4. CommittedData'[r] = orig_data'[t][r]
      BY <3>3, <1>13 DEF CommittedFacts
    <3> QED  BY <3>2, <3>4, <2>1, <1>5
  <2>2. CASE ~ (r = r0 /\ NextReq(t).type = "WR")
    <3>1. \A u \in Threads : Dirty(u, r)' = Dirty(u, r)
      BY <2>2, <1>14
    <3>2. ASSUME NEW u \in Threads, Dirty(u, r) PROVE orig_data'[u][r] = orig_data[u][r]
      <4>1. u # t \/ r # r0
        <5> SUFFICES ASSUME u = t, r = r0 PROVE FALSE
          OBVIOUS
        <5>1. Holds(t, r0, "WR")
          BY <3>2, DirtyHolds
        <5> QED  BY <5>1, <1>1, <1>3 DEF Holds, n
      <4> QED  BY <4>1, <1>4
    <3> QED  BY <3>1, <3>2, <1>2, <1>13, SameRow
  <2> QED  BY <2>1, <2>2
<1>16. CommittedData' = CommittedData
  BY <1>15, SameCommittedData
<1> QED  BY <1>11, <1>12, <1>16

\* Reading or writing the row last accessed.
LEMMA ComputeAction ==
    ASSUME IInv, IInv', DInv, NEW t \in Threads, Compute(t)
    PROVE  DInv' /\ CommittedData' = CommittedData /\ CommittedReads' = CommittedReads
<1> DEFINE n == row_cnt[t]
<1>0. /\ TypeOK /\ QueryInv /\ DInv
      /\ query[t] \in Queries /\ pc[t] = "compute"
      /\ n \in Nat /\ n > 0 /\ n \in 1..n /\ n \in 1..Len(query[t])
      /\ 1..n = {i \in 1..n : i < n} \cup {n}
      /\ \A i \in 1..n : i \in 1..Len(query[t])
  <2>1. TypeOK /\ QueryInv /\ pc[t] = "compute" /\ n \in Nat /\ n > 0
    BY DEF IInv, QueryInv, Compute, TypeOK
  <2>2. n \in 1..n /\ 1..n = {i \in 1..n : i < n} \cup {n}
    BY <2>1
  <2> QED  BY <2>1, <2>2, RequestFacts
<1>1. /\ LastReq(t).row \in Rows
      /\ LastReq(t).type \in {"RD", "WR"}
      /\ query[t][n] = LastReq(t)
      /\ LastReq(t) = [row |-> LastReq(t).row, type |-> LastReq(t).type]
  BY <1>0, RequestFacts, RequestRecord DEF LastReq
<1>2. PICK r0 \in Rows : r0 = LastReq(t).row
  BY <1>1
<1>3. /\ orig_data' = orig_data /\ txn_cnt' = txn_cnt /\ query' = query /\ rc' = rc
      /\ row_cnt' = row_cnt
      /\ pc'[t] = "request" /\ \A u \in Threads : u # t => pc'[u] = pc[u]
      /\ \A u \in Threads : u # t => seen'[u] = seen[u]
      /\ \A r \in Rows : r # r0 => data'[r] = data[r] /\ seen'[t][r] = seen[t][r]
      /\ LastReq(t).type = "RD" => data' = data /\ seen'[t][r0] = data[r0]
      /\ LastReq(t).type = "WR" => data'[r0] = Written(t) /\ seen' = seen
  BY <1>0, <1>1, <1>2 DEF Compute, Goto, loopVars, TypeOK
<1>4. /\ RcInv'
      /\ \A u \in Threads : HasCommitted(u)' = HasCommitted(u) /\ ~ HasCommitted(t)
      /\ \A u \in Threads : \A r : Dirty(u, r)' = Dirty(u, r)
  BY <1>0, <1>3 DEF DInv, RcInv, HasCommitted, Dirty
<1>5. /\ \A u \in Threads : u # t => Computed(u)' = Computed(u)
      /\ Computed(t)' = 1..n
      /\ Computed(t) = {i \in 1..n : i < n}
  BY <1>0, <1>3 DEF Computed
<1>6. ASSUME NEW r
      PROVE  /\ HasRead(t, r)' <=> HasRead(t, r) \/ LastReq(t) = [row |-> r, type |-> "RD"]
             /\ HasWritten(t, r)' <=> HasWritten(t, r) \/ LastReq(t) = [row |-> r, type |-> "WR"]
  BY <1>0, <1>1, <1>3, <1>5 DEF HasRead, HasWritten
<1>7. LastReq(t).type = "WR" => Holds(t, r0, "WR")
  BY <1>0, <1>1, <1>2 DEF Holds
<1>8. ~ HasRead(t, r0) /\ ~ HasWritten(t, r0)
  <2>1. ASSUME NEW i \in Computed(t) PROVE query[t][i].row # r0
    <3>1. i \in 1..n /\ i # n
      BY <1>0, <1>5, <2>1
    <3>2. i \in 1..Len(query[t])
      BY <3>1, <1>0
    <3> QED  BY <3>1, <3>2, <1>0, <1>1, <1>2, QueryFacts
  <2> QED  BY <2>1 DEF HasRead, HasWritten
<1>9. ASSUME NEW u \in Threads, u # t PROVE SeenOf(u)' /\ WrittenOf(u)'
  <2>1. ASSUME NEW r \in Rows
        PROVE  /\ HasRead(u, r)' = HasRead(u, r)
               /\ HasWritten(u, r)' = HasWritten(u, r)
    BY <1>3, <1>5, <1>9 DEF HasRead, HasWritten
  <2>2. ASSUME NEW r \in Rows, HasRead(u, r) \/ HasWritten(u, r)
        PROVE  data'[r] = data[r]
    <3>1. CASE r = r0 /\ LastReq(t).type = "WR"
      <4>1. Holds(u, r, "RD") \/ Holds(u, r, "WR")
        BY <2>2, DirtyHolds
      <4>2. t = u
        BY <3>1, <4>1, <1>7, WriterAlone
      <4> QED  BY <4>2, <1>9
    <3>2. CASE r # r0 \/ LastReq(t).type = "RD"
      BY <3>2, <1>3
    <3> QED  BY <3>1, <3>2, <1>1
  <2> QED  BY <1>3, <1>9, <2>1, <2>2, KeepsReads DEF DInv
<1>10. SeenOf(t)'
  <2> SUFFICES ASSUME NEW r \in Rows
               PROVE  /\ HasRead(t, r)' => seen'[t][r] = data'[r]
                      /\ ~ HasRead(t, r)' => seen'[t][r] = NoVal
    BY DEF SeenOf
  <2>0. /\ HasRead(t, r) => seen[t][r] = data[r]
        /\ ~ HasRead(t, r) => seen[t][r] = NoVal
    BY <1>0 DEF DInv, SeenInv
  <2>1. CASE r # r0
    <3>1. HasRead(t, r)' <=> HasRead(t, r)
      BY <2>1, <1>1, <1>2, <1>6
    <3> QED  BY <2>0, <2>1, <3>1, <1>3
  <2>2. CASE r = r0 /\ LastReq(t).type = "RD"
    <3>1. HasRead(t, r)'
      BY <2>2, <1>1, <1>2, <1>6
    <3> QED  BY <2>2, <3>1, <1>3
  <2>3. CASE r = r0 /\ LastReq(t).type = "WR"
    <3>1. ~ HasRead(t, r)'
      BY <2>3, <1>1, <1>6, <1>8
    <3> QED  BY <2>0, <2>3, <3>1, <1>3, <1>8
  <2> QED  BY <2>1, <2>2, <2>3, <1>1
<1>11. WrittenOf(t)'
  <2> SUFFICES ASSUME NEW r \in Rows, HasWritten(t, r)' PROVE data'[r] = Written(t)'
    BY DEF WrittenOf
  <2>1. Written(t)' = Written(t)
    BY <1>3 DEF Written
  <2>2. CASE LastReq(t) = [row |-> r, type |-> "WR"]
    BY <2>1, <2>2, <1>2, <1>3
  <2>3. CASE HasWritten(t, r)
    <3>1. r # r0 /\ data[r] = Written(t)
      BY <2>3, <1>0, <1>8 DEF DInv, WrittenInv
    <3> QED  BY <2>1, <3>1, <1>3
  <2> QED  BY <2>2, <2>3, <1>6
<1>12. DInv'
  BY <1>4, <1>9, <1>10, <1>11 DEF DInv, SeenInv, WrittenInv, SeenOf, WrittenOf
<1>13. CommittedReads' = CommittedReads
  BY <1>3, <1>4, SameCommittedReads
<1>14. CommittedFacts /\ CommittedFacts'
  BY CommittedAt, CommittedAtNext
<1>15. ASSUME NEW r \in Rows, \A u \in Threads : ~ Dirty(u, r) PROVE data'[r] = data[r]
  <2>1. ~ (r = r0 /\ LastReq(t).type = "WR")
    BY <1>4, <1>7, <1>15, DirtyHolds
  <2> QED  BY <2>1, <1>1, <1>3
<1>16. \A r \in Rows : CommittedData'[r] = CommittedData[r]
  BY <1>3, <1>4, <1>14, <1>15, SameRow
<1>17. CommittedData' = CommittedData
  BY <1>16, SameCommittedData
<1> QED  BY <1>12, <1>13, <1>17

\* Giving a row back, restored if the transaction aborts.
LEMMA CleanupAction ==
    ASSUME IInv, IInv', DInv, NEW t \in Threads, Cleanup(t)
    PROVE  DInv' /\ CommittedData' = CommittedData /\ CommittedReads' = CommittedReads
<1> DEFINE n == row_cnt[t]
<1>0. /\ TypeOK /\ QueryInv /\ DInv
      /\ query[t] \in Queries /\ pc[t] = "cleanup"
      /\ n \in Nat /\ n > 0 /\ n \in 1..n /\ n \in 1..Len(query[t])
      /\ 1..n = (1..(n - 1)) \cup {n}
      /\ \A i \in 1..(n - 1) : i \in 1..Len(query[t]) /\ i # n
  <2>1. TypeOK /\ QueryInv /\ pc[t] = "cleanup" /\ n \in Nat /\ n > 0
    BY DEF IInv, Cleanup, TypeOK
  <2>2. /\ n \in 1..n /\ 1..n = (1..(n - 1)) \cup {n}
        /\ \A i \in 1..(n - 1) : i \in 1..n /\ i # n
    BY <2>1
  <2> QED  BY <2>1, <2>2, RequestFacts
<1>1. /\ LastReq(t).row \in Rows
      /\ LastReq(t).type \in {"RD", "WR"}
      /\ query[t][n] = LastReq(t)
      /\ LastReq(t) = [row |-> LastReq(t).row, type |-> LastReq(t).type]
  BY <1>0, RequestFacts, RequestRecord DEF LastReq
<1>2. PICK r0 \in Rows : r0 = LastReq(t).row
  BY <1>1
<1>3. /\ orig_data' = orig_data /\ txn_cnt' = txn_cnt /\ query' = query /\ rc' = rc
      /\ pc' = pc /\ seen' = seen
      /\ row_cnt'[t] = n - 1 /\ \A u \in Threads : u # t => row_cnt'[u] = row_cnt[u]
      /\ \A r \in Rows : r # r0 => data'[r] = data[r]
      /\ ~ (LastReq(t).type = "WR" /\ rc[t] = "Abort") => data' = data
      /\ LastReq(t).type = "WR" /\ rc[t] = "Abort" => data'[r0] = orig_data[t][r0]
  BY <1>0, <1>1, <1>2 DEF Cleanup, loopVars, TypeOK
<1>4. /\ RcInv'
      /\ \A u \in Threads : HasCommitted(u)' = HasCommitted(u)
      /\ HasCommitted(t) <=> rc[t] # "Abort"
  BY <1>0, <1>3 DEF DInv, RcInv, HasCommitted, TypeOK
<1>5. LastReq(t).type = "WR" => Holds(t, r0, "WR")
  BY <1>0, <1>1, <1>2 DEF Holds
<1>6. \A u \in Threads : SeenOf(u)' /\ WrittenOf(u)'
  <2>1. ASSUME NEW u \in Threads, u # t, NEW r \in Rows
        PROVE  /\ HasRead(u, r)' = HasRead(u, r)
               /\ HasWritten(u, r)' = HasWritten(u, r)
               /\ HasRead(u, r) \/ HasWritten(u, r) => data'[r] = data[r]
    <3>1. HasRead(u, r)' = HasRead(u, r) /\ HasWritten(u, r)' = HasWritten(u, r)
      BY <1>3, <2>1 DEF HasRead, HasWritten, Computed
    <3>2. ASSUME HasRead(u, r) \/ HasWritten(u, r), r = r0, LastReq(t).type = "WR"
          PROVE  FALSE
      <4>1. Holds(u, r, "RD") \/ Holds(u, r, "WR")
        BY <3>2, DirtyHolds
      <4>2. t = u
        BY <3>2, <4>1, <1>5, WriterAlone
      <4> QED  BY <4>2, <2>1
    <3> QED  BY <3>1, <3>2, <1>3
  <2>2. \A u \in Threads : u # t => SeenOf(u)' /\ WrittenOf(u)'
    BY <1>3, <2>1, KeepsReads DEF DInv
  <2>3. SeenOf(t)' /\ WrittenOf(t)'
    BY <1>0, <1>3 DEF SeenOf, WrittenOf
  <2> QED  BY <2>2, <2>3
<1>7. DInv'
  BY <1>4, <1>6 DEF DInv, SeenInv, WrittenInv, SeenOf, WrittenOf
<1>8. CommittedReads' = CommittedReads
  BY <1>3, <1>4, SameCommittedReads
<1>9. CommittedFacts /\ CommittedFacts'
  BY CommittedAt, CommittedAtNext
<1>10. ASSUME NEW u \in Threads, NEW r \in Rows,
              ~ (u = t /\ r = r0 /\ LastReq(t).type = "WR" /\ rc[t] = "Abort")
       PROVE  Dirty(u, r)' = Dirty(u, r)
  <2>1. CASE u # t
    BY <2>1, <1>3, <1>4 DEF Dirty
  <2>2. CASE u = t /\ rc[t] # "Abort"
    BY <2>2, <1>4 DEF Dirty
  <2>3. CASE u = t /\ rc[t] = "Abort"
    <3>1. query[t][n] # [row |-> r, type |-> "WR"]
      BY <2>3, <1>1, <1>2, <1>10
    <3>2. Dirty(t, r)' <=> \E i \in 1..(n - 1) : query[t][i] = [row |-> r, type |-> "WR"]
      BY <2>3, <1>3, <1>4 DEF Dirty
    <3>3. Dirty(t, r) <=> \E i \in (1..(n - 1)) \cup {n} : query[t][i] = [row |-> r, type |-> "WR"]
      BY <2>3, <1>0, <1>4 DEF Dirty
    <3>4. Dirty(t, r)' = Dirty(t, r)
      BY <3>1, <3>2, <3>3 DEF Dirty
    <3> QED  BY <2>3, <3>4
  <2> QED  BY <2>1, <2>2, <2>3
<1>11. ASSUME NEW r \in Rows PROVE CommittedData'[r] = CommittedData[r]
  <2>1. CASE r = r0 /\ LastReq(t).type = "WR" /\ rc[t] = "Abort"
    <3>1. Dirty(t, r)
      BY <2>1, <1>4, <1>5, DirtyHolds
    <3>2. CommittedData[r] = orig_data[t][r]
      BY <3>1, <1>9 DEF CommittedFacts
    <3>3. ASSUME NEW u \in Threads, Dirty(u, r)' PROVE FALSE
      <4>1. CASE u # t
        <5>1. Dirty(u, r)
          BY <3>3, <4>1, <1>10
        <5>2. Holds(u, r, "WR")
          BY <5>1, DirtyHolds
        <5> QED  BY <5>2, <4>1, <2>1, <1>5, WriterAlone
      <4>2. CASE u = t
        <5>1. PICK i \in 1..(n - 1) : query[t][i] = [row |-> r, type |-> "WR"]
          BY <3>3, <4>2, <1>3 DEF Dirty
        <5>2. i \in 1..Len(query[t]) /\ i # n /\ query[t][i].row = r0
          BY <5>1, <1>0, <2>1
        <5> QED  BY <5>2, <1>0, <1>1, <1>2, QueryFacts
      <4> QED  BY <4>1, <4>2
    <3>4. CommittedData'[r] = data'[r]
      BY <3>3, <1>9 DEF CommittedFacts
    <3> QED  BY <3>2, <3>4, <2>1, <1>3
  <2>2. CASE ~ (r = r0 /\ LastReq(t).type = "WR" /\ rc[t] = "Abort")
    <3>1. \A u \in Threads : Dirty(u, r)' = Dirty(u, r)
      BY <2>2, <1>10
    <3>2. data'[r] = data[r]
      BY <2>2, <1>3
    <3> QED  BY <3>1, <3>2, <1>3, <1>9, SameRow
  <2> QED  BY <2>1, <2>2
<1>12. CommittedData' = CommittedData
  BY <1>11, SameCommittedData
<1> QED  BY <1>7, <1>8, <1>12

----------------------------------------------------------------------------
(* The steps of the serial store.                                          *)

LEMMA CommitAction ==
    ASSUME IInv, IInv', DInv, NEW t \in Threads, Commit(t)
    PROVE  /\ DInv'
           /\ \E q \in Queries, v \in Values : Serial!Commit(t, q, v)
<1> DEFINE q == query[t]
           rd == Serial!RowsOf(q, "RD")
           wr == Serial!RowsOf(q, "WR")
<1>0. /\ TypeOK /\ QueryInv /\ DInv
      /\ q \in Queries /\ pc[t] = "request" /\ row_cnt[t] = Len(q)
      /\ DOMAIN q = 1..Len(q)
  <2>1. TypeOK /\ QueryInv
    BY DEF IInv
  <2>2. pc[t] = "request" /\ row_cnt[t] = Len(q)
    BY DEF Commit
  <2>3. q \in Queries
    BY <2>1, <2>2 DEF QueryInv
  <2>4. DOMAIN q = 1..Len(q)
    BY <2>3, QueryFacts
  <2> QED  BY <2>1, <2>2, <2>3, <2>4
<1>1. /\ orig_data' = orig_data /\ txn_cnt' = txn_cnt /\ query' = query /\ rc' = rc
      /\ seen' = seen /\ data' = data /\ row_cnt' = row_cnt
      /\ pc'[t] = "cleanup" /\ \A u \in Threads : u # t => pc'[u] = pc[u]
  BY <1>0 DEF Commit, Goto, txnVars, loopVars, TypeOK
<1>2. /\ RcInv'
      /\ \A u \in Threads : u # t => HasCommitted(u)' = HasCommitted(u)
      /\ ~ HasCommitted(t) /\ HasCommitted(t)'
  BY <1>0, <1>1 DEF DInv, RcInv, HasCommitted
<1>3. \A u \in Threads : SeenOf(u)' /\ WrittenOf(u)'
  <2>1. ASSUME NEW u \in Threads, u # t, NEW r \in Rows
        PROVE  HasRead(u, r)' = HasRead(u, r) /\ HasWritten(u, r)' = HasWritten(u, r)
    BY <1>1, <2>1 DEF HasRead, HasWritten, Computed
  <2>2. \A u \in Threads : u # t => SeenOf(u)' /\ WrittenOf(u)'
    BY <1>1, <2>1, KeepsReads DEF DInv
  <2>3. SeenOf(t)' /\ WrittenOf(t)'
    BY <1>1 DEF SeenOf, WrittenOf
  <2> QED  BY <2>2, <2>3
<1>4. DInv'
  BY <1>2, <1>3 DEF DInv, SeenInv, WrittenInv, SeenOf, WrittenOf
<1>5. Written(t) \in Values
  <2>1. txn_cnt[t] \in Nat /\ txn_cnt[t] < MaxTxn /\ MaxTxn \in Nat
    BY <1>0, BoundsAssumption DEF TypeOK, QueryInv
  <2>2. txn_cnt[t] + 1 \in 1..MaxTxn
    BY <2>1
  <2> QED  BY <2>2 DEF Written, Values
<1>6. ASSUME NEW r \in Rows
      PROVE  /\ r \in rd <=> Holds(t, r, "RD")
             /\ r \in wr <=> Holds(t, r, "WR")
             /\ HasRead(t, r) <=> Holds(t, r, "RD")
             /\ HasWritten(t, r) <=> Holds(t, r, "WR")
  <2>1. \A i \in 1..Len(q) : q[i] = [row |-> q[i].row, type |-> q[i].type]
    BY <1>0, RequestRecord
  <2>2. \A i \in 1..Len(q) : \A type : q[i] = [row |-> r, type |-> type]
                                         <=> q[i].row = r /\ q[i].type = type
    BY <2>1
  <2>3. Computed(t) = 1..Len(q)
    BY <1>0 DEF Computed
  <2>4. \A type : r \in Serial!RowsOf(q, type) <=>
                     \E i \in 1..Len(q) : q[i].type = type /\ r = q[i].row
    BY <1>0 DEF Serial!RowsOf
  <2>5. \A type : Holds(t, r, type) <=> \E i \in 1..Len(q) : q[i] = [row |-> r, type |-> type]
    BY <1>0 DEF Holds
  <2>6. /\ HasRead(t, r) <=> \E i \in 1..Len(q) : q[i] = [row |-> r, type |-> "RD"]
        /\ HasWritten(t, r) <=> \E i \in 1..Len(q) : q[i] = [row |-> r, type |-> "WR"]
    BY <2>3 DEF HasRead, HasWritten
  <2> HIDE DEF q
  <2> QED  BY <2>2, <2>4, <2>5, <2>6
<1>7. CommittedFacts /\ CommittedFacts'
  BY CommittedAt, CommittedAtNext
<1> HIDE DEF rd, wr
\* The rows it has read hold committed data, which is what it has seen.
<1>8. ASSUME NEW r \in Rows
      PROVE  seen[t][r] = IF r \in rd THEN CommittedData[r] ELSE NoVal
  <2>1. CASE r \in rd
    <3>1. Holds(t, r, "RD") /\ HasRead(t, r)
      BY <2>1, <1>6
    <3>2. seen[t][r] = data[r]
      BY <3>1, <1>0 DEF DInv, SeenInv
    <3>3. ASSUME NEW u \in Threads, Dirty(u, r) PROVE FALSE
      <4>1. Holds(u, r, "WR")
        BY <3>3, DirtyHolds
      <4>2. u = t
        BY <3>1, <4>1, WriterAlone
      <4>3. PICK i \in 1..row_cnt[t] : query[t][i] = [row |-> r, type |-> "WR"]
        BY <4>1, <4>2 DEF Holds
      <4>4. PICK j \in 1..row_cnt[t] : query[t][j] = [row |-> r, type |-> "RD"]
        BY <3>1 DEF Holds
      <4>5. i = j
        BY <4>3, <4>4, <1>0, QueryFacts
      <4> QED  BY <4>3, <4>4, <4>5
    <3>4. CommittedData[r] = data[r]
      BY <3>3, <1>7 DEF CommittedFacts
    <3> QED  BY <2>1, <3>2, <3>4
  <2>2. CASE r \notin rd
    BY <2>2, <1>0, <1>6 DEF DInv, SeenInv
  <2> QED  BY <2>1, <2>2
<1>9. ASSUME NEW r \in Rows
      PROVE  CommittedData'[r] = IF r \in wr THEN Written(t) ELSE CommittedData[r]
  <2>0. /\ \A u \in Threads : u # t => Dirty(u, r)' = Dirty(u, r)
        /\ ~ Dirty(t, r)'
    BY <1>1, <1>2 DEF Dirty
  <2>1. CASE r \in wr
    <3>1. Holds(t, r, "WR") /\ HasWritten(t, r)
      BY <2>1, <1>6
    <3>2. data[r] = Written(t)
      BY <3>1, <1>0 DEF DInv, WrittenInv
    <3>3. ASSUME NEW u \in Threads, Dirty(u, r)' PROVE FALSE
      <4>1. u # t /\ Dirty(u, r)
        BY <2>0, <3>3
      <4>2. Holds(u, r, "WR")
        BY <4>1, DirtyHolds
      <4> QED  BY <3>1, <4>1, <4>2, WriterAlone
    <3>4. CommittedData'[r] = data'[r]
      BY <3>3, <1>7 DEF CommittedFacts
    <3> QED  BY <2>1, <3>2, <3>4, <1>1
  <2>2. CASE r \notin wr
    <3>1. ~ Dirty(t, r)
      BY <2>2, <1>6, DirtyHolds
    <3>2. Dirty(t, r)' = Dirty(t, r)
      BY <3>1, <2>0 DEF Dirty
    <3>3. \A u \in Threads : Dirty(u, r)' = Dirty(u, r)
      BY <2>0, <3>2
    <3> QED  BY <2>2, <3>3, <1>1, <1>7, SameRow
  <2> QED  BY <2>1, <2>2
<1>10. CommittedReads[t] = NoReads
  BY <1>2 DEF CommittedReads
<1>11. CommittedReads' = [CommittedReads EXCEPT ![t] =
           [r \in Rows |-> IF r \in rd THEN CommittedData[r] ELSE NoVal]]
  <2>1. seen[t] = [r \in Rows |-> IF r \in rd THEN CommittedData[r] ELSE NoVal]
    <3>1. seen[t] = [r \in Rows |-> seen[t][r]]
      BY <1>0 DEF TypeOK
    <3> QED  BY <3>1, <1>8
  <2>2. CommittedReads' = [u \in Threads |-> IF HasCommitted(u)' THEN seen[u] ELSE NoReads]
    BY <1>1 DEF CommittedReads, NoReads
  <2>3. CommittedReads = [u \in Threads |-> IF HasCommitted(u) THEN seen[u] ELSE NoReads]
    BY DEF CommittedReads
  <2> QED  BY <2>1, <2>2, <2>3, <1>2
<1>12. CommittedData' = [r \in Rows |-> IF r \in wr THEN Written(t) ELSE CommittedData[r]]
  <2>1. CommittedData' = [r \in Rows |-> CommittedData'[r]]
    BY DEF CommittedData
  <2> QED  BY <2>1, <1>9
<1>13. Serial!Commit(t, q, Written(t))
  BY <1>10, <1>11, <1>12 DEF Serial!Commit, Serial!NoReads, NoReads, rd, wr
<1> QED  BY <1>0, <1>4, <1>5, <1>13

LEMMA FinishAction ==
    ASSUME IInv, IInv', DInv, NEW t \in Threads, Finish(t)
    PROVE  DInv' /\ Serial!Return(t)
<1>0. TypeOK /\ QueryInv /\ DInv /\ pc[t] = "cleanup" /\ row_cnt[t] = 0
  BY DEF IInv, Finish
<1>1. /\ data' = data /\ row_cnt' = row_cnt
      /\ \A u \in Threads : u # t => /\ pc'[u] = pc[u] /\ rc'[u] = rc[u]
                                     /\ query'[u] = query[u] /\ seen'[u] = seen[u]
                                     /\ orig_data'[u] = orig_data[u]
                                     /\ txn_cnt'[u] = txn_cnt[u]
      /\ pc'[t] \in {"done", "fetch"} /\ rc'[t] = "RCOK" /\ seen'[t] = NoReads
  BY <1>0 DEF Finish, Goto, TypeOK
<1>2. /\ RcInv'
      /\ \A u \in Threads : u # t => HasCommitted(u)' = HasCommitted(u)
      /\ ~ HasCommitted(t)'
  BY <1>0, <1>1 DEF DInv, RcInv, HasCommitted
<1>3. 1..row_cnt[t] = {}
  BY <1>0
<1>4. \A r : ~ Dirty(t, r) /\ ~ Dirty(t, r)' /\ ~ HasRead(t, r)' /\ ~ HasWritten(t, r)'
  BY <1>1, <1>3 DEF Dirty, HasRead, HasWritten, Computed
<1>5. \A u \in Threads : SeenOf(u)' /\ WrittenOf(u)'
  <2>1. ASSUME NEW u \in Threads, u # t, NEW r \in Rows
        PROVE  HasRead(u, r)' = HasRead(u, r) /\ HasWritten(u, r)' = HasWritten(u, r)
    BY <1>1, <2>1 DEF HasRead, HasWritten, Computed
  <2>2. \A u \in Threads : u # t => SeenOf(u)' /\ WrittenOf(u)'
    BY <1>1, <2>1, KeepsReads DEF DInv
  <2>3. SeenOf(t)' /\ WrittenOf(t)'
    BY <1>1, <1>4 DEF SeenOf, WrittenOf, NoReads
  <2> QED  BY <2>2, <2>3
<1>6. DInv'
  BY <1>2, <1>5 DEF DInv, SeenInv, WrittenInv, SeenOf, WrittenOf
<1>7. CommittedFacts /\ CommittedFacts'
  BY CommittedAt, CommittedAtNext
<1>8. ASSUME NEW u \in Threads, NEW r \in Rows
      PROVE  /\ Dirty(u, r)' = Dirty(u, r)
             /\ Dirty(u, r) => orig_data'[u][r] = orig_data[u][r]
  <2>1. CASE u # t
    BY <2>1, <1>1, <1>2 DEF Dirty
  <2>2. CASE u = t
    <3>1. Dirty(t, r)' = Dirty(t, r)
      BY <1>4 DEF Dirty
    <3> QED  BY <2>2, <3>1, <1>4
  <2> QED  BY <2>1, <2>2
<1>9. \A r \in Rows : CommittedData'[r] = CommittedData[r]
  BY <1>1, <1>7, <1>8, SameRow
<1>10. CommittedData' = CommittedData
  BY <1>9, SameCommittedData
<1>11. CommittedReads' = [CommittedReads EXCEPT ![t] = NoReads]
  <2>1. CommittedReads' = [u \in Threads |-> IF HasCommitted(u)' THEN seen'[u] ELSE NoReads]
    BY DEF CommittedReads, NoReads
  <2>2. CommittedReads = [u \in Threads |-> IF HasCommitted(u) THEN seen[u] ELSE NoReads]
    BY DEF CommittedReads
  <2> QED  BY <2>1, <2>2, <1>1, <1>2
<1>12. Serial!Return(t)
  BY <1>10, <1>11 DEF Serial!Return, Serial!NoReads, NoReads
<1> QED  BY <1>6, <1>12

----------------------------------------------------------------------------
LEMMA SerialInit == Init => DInv /\ Serial!Init
<1> SUFFICES ASSUME Init PROVE DInv /\ Serial!Init
  OBVIOUS
<1>1. \A t \in Threads : /\ row_cnt[t] = 0 /\ pc[t] = "fetch" /\ rc[t] = "RCOK"
                         /\ \A r \in Rows : seen[t][r] = NoVal
  BY DEF Init, NoReads
<1>2. 1..0 = {}
  OBVIOUS
<1>3. \A t \in Threads : \A r : ~ HasRead(t, r) /\ ~ HasWritten(t, r) /\ ~ Dirty(t, r)
                              /\ ~ HasCommitted(t)
  BY <1>1, <1>2 DEF HasRead, HasWritten, Dirty, Computed, HasCommitted
<1>4. DInv
  BY <1>1, <1>3 DEF DInv, RcInv, SeenInv, WrittenInv
<1>5. CommittedData = [r \in Rows |-> InitVal]
  BY <1>3 DEF CommittedData, Init
<1>6. CommittedReads = [t \in Threads |-> NoReads]
  BY <1>3 DEF CommittedReads
<1> QED  BY <1>4, <1>5, <1>6 DEF Serial!Init, Serial!NoReads, NoReads

LEMMA DInvStutter ==
    ASSUME DInv, UNCHANGED vars
    PROVE  DInv' /\ CommittedData' = CommittedData /\ CommittedReads' = CommittedReads
<1>0. /\ lock' = lock /\ data' = data /\ pc' = pc /\ rc' = rc /\ query' = query
      /\ row_cnt' = row_cnt /\ orig_data' = orig_data /\ seen' = seen
      /\ txn_cnt' = txn_cnt
  BY DEF vars, txnVars, loopVars
<1>1. RcInv'
  BY <1>0 DEF DInv, RcInv
<1>2. \A t \in Threads, r \in Rows : /\ HasRead(t, r)' = HasRead(t, r)
                                      /\ HasWritten(t, r)' = HasWritten(t, r)
  BY <1>0 DEF HasRead, HasWritten, Computed
<1>3. SeenInv'
  BY <1>0, <1>2 DEF DInv, SeenInv
<1>4. WrittenInv'
  BY <1>0, <1>2 DEF DInv, WrittenInv, Written
<1>5. CommittedData' = CommittedData
  BY <1>0 DEF CommittedData, Dirty, HasCommitted
<1>6. CommittedReads' = CommittedReads
  BY <1>0 DEF CommittedReads, HasCommitted, NoReads
<1> QED  BY <1>1, <1>3, <1>4, <1>5, <1>6 DEF DInv

\* Every step of the lock-based engine is a step of the serial store or
\* leaves it as it is.
LEMMA SerialNext ==
    IInv /\ IInv' /\ DInv /\ [Next]_vars
        => DInv' /\ [Serial!Next]_<<CommittedData, CommittedReads>>
<1> SUFFICES ASSUME IInv, IInv', DInv, [Next]_vars
             PROVE  DInv' /\ [Serial!Next]_<<CommittedData, CommittedReads>>
  OBVIOUS
<1>1. CASE UNCHANGED vars \/ Terminated
  BY <1>1, DInvStutter DEF Terminated
<1>2. ASSUME NEW t \in Threads, Quiet(t) \/ Access(t) \/ Compute(t) \/ Cleanup(t)
      PROVE  DInv' /\ [Serial!Next]_<<CommittedData, CommittedReads>>
  BY <1>2, QuietActions, AccessAction, ComputeAction, CleanupAction
<1>3. ASSUME NEW t \in Threads, Commit(t)
      PROVE  DInv' /\ [Serial!Next]_<<CommittedData, CommittedReads>>
  BY <1>3, CommitAction DEF Serial!Next
<1>4. ASSUME NEW t \in Threads, Finish(t)
      PROVE  DInv' /\ [Serial!Next]_<<CommittedData, CommittedReads>>
  BY <1>4, FinishAction DEF Serial!Next
<1> QED  BY <1>1, <1>2, <1>3, <1>4 DEF Next, Step, Quiet

\* The lock-based builds are strictly serializable: with NO_WAIT, WAIT_DIE
\* and DL_DETECT, for any number of workers, rows and queries, what
\* transactions read and leave behind is what they would if each ran alone
\* at its commit point, and cleanup makes an abort invisible.
THEOREM StrictlySerializable == Spec => Serializable
<1>1. Init => DInv /\ Serial!Init
  BY SerialInit
<1>2. IInv /\ IInv' /\ DInv /\ [Next]_vars
        => DInv' /\ [Serial!Next]_<<CommittedData, CommittedReads>>
  BY SerialNext
<1> QED  BY <1>1, <1>2, Invariance, PTL DEF Spec, Serializable, Serial!Spec
=============================================================================
