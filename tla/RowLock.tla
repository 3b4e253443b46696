------------------------------ MODULE RowLock ------------------------------
(***************************************************************************)
(* The lock of one row: class Row_lock, which row_t uses in the NO_WAIT,   *)
(* WAIT_DIE and DL_DETECT builds.  lock_get and lock_release run under the *)
(* row's latch, so each is one atomic change of the lock.  This module     *)
(* holds what they compute; TwoPhaseLocking turns it into actions.         *)
(*                                                                         *)
(* A lock is a record: lock_type, the owners (a stack that is only ever    *)
(* searched by transaction, hence a set) and the waiters (a list whose     *)
(* order is the order of the grants).  owner_cnt and waiter_cnt are the    *)
(* sizes of the two.  A transaction is named by its worker thread: each    *)
(* thread has one txn_man.                                                 *)
(***************************************************************************)
EXTENDS Integers, Sequences, FiniteSets, SequencesExt

CONSTANTS
    Threads,    \* worker threads, each running one transaction at a time
    CC_ALG      \* the concurrency control the build was configured with

ASSUME AlgAssumption == CC_ALG \in {"NO_WAIT", "WAIT_DIE", "DL_DETECT"}

LockEntry == [txn : Threads, type : {"LOCK_SH", "LOCK_EX"}]

RowLocks == [lock_type : {"LOCK_NONE", "LOCK_SH", "LOCK_EX"},
             owners    : SUBSET LockEntry,
             waiters   : Seq(LockEntry)]

FreeLock == [lock_type |-> "LOCK_NONE", owners |-> {}, waiters |-> << >>]

OwnersOf(lk) == {e.txn : e \in lk.owners}

WaitersOf(lk) == {lk.waiters[i].txn : i \in DOMAIN lk.waiters}

\* Mutant: only an exclusive owner conflicts.
conflict_lock_owner_only(l1, l2) == l1 = "LOCK_EX"

conflict_lock(l1, l2) ==
    /\ l1 # "LOCK_NONE"
    /\ l2 # "LOCK_NONE"
    /\ l1 = "LOCK_EX" \/ l2 = "LOCK_EX"

----------------------------------------------------------------------------
(* lock_get.  ts[t] is the timestamp of t's transaction.                   *)

\* Mutant: a WAIT_DIE transaction overtakes the queue.
MustNotJoin_overtaking(lk, t, type, ts) ==
    conflict_lock(lk.lock_type, type) \/ (CC_ALG = "DL_DETECT" /\ lk.waiters # << >>)

\* t cannot join the owners.  Besides the lock mode: a WAIT_DIE transaction
\* older than the first waiter, and any DL_DETECT transaction that finds
\* somebody waiting, does not overtake the queue.
MustNotJoin(lk, t, type, ts) ==
    \/ conflict_lock(lk.lock_type, type)
    \/ /\ lk.waiters # << >>
       /\ \/ CC_ALG = "WAIT_DIE" /\ ts[t] < ts[Head(lk.waiters).txn]
          \/ CC_ALG = "DL_DETECT"

\* Mutant: the young wait and the old die.
CanWait_young(lk, t, ts) == \A e \in lk.owners : ts[e.txn] < ts[t]

\* Mutant: nobody waits for an owner.
CanWait_never(lk, t, ts) == FALSE

CanWait(lk, t, ts) ==
    \/ CC_ALG = "DL_DETECT"
    \/ CC_ALG = "WAIT_DIE" /\ \A e \in lk.owners : ~ (ts[e.txn] < ts[t])

AddOwner(lk, e) ==
    [lk EXCEPT !.owners = @ \cup {e}, !.lock_type = e.type]

\* The waiters the WAIT_DIE insertion walks past: the leading ones that are
\* younger than t.
Passed(waiters, t, ts) ==
    {i \in DOMAIN waiters : \A j \in 1..i : ts[t] < ts[waiters[j].txn]}

AddWaiter(lk, e, ts) ==
    LET pos == IF CC_ALG = "WAIT_DIE"
               THEN Cardinality(Passed(lk.waiters, e.txn, ts)) + 1
               ELSE Len(lk.waiters) + 1
    IN  [lk EXCEPT !.waiters = InsertAt(@, pos, e)]

----------------------------------------------------------------------------
(* lock_release.                                                           *)

\* Take t's entry out of the owners or, failing that, of the waiters.
RemoveTxn(lk, t) ==
    IF t \in OwnersOf(lk)
    THEN LET rest == {e \in lk.owners : e.txn # t}
         IN  [lk EXCEPT !.owners = rest,
                        !.lock_type = IF rest = {} THEN "LOCK_NONE" ELSE @]
    ELSE LET i == CHOOSE j \in DOMAIN lk.waiters : lk.waiters[j].txn = t
         IN  [lk EXCEPT !.waiters = RemoveAt(@, i)]

\* The waiters the hand-over loop reaches: from the head on, each compatible
\* with the lock type its predecessor has left.
Granted(lk) ==
    {i \in DOMAIN lk.waiters :
        \A j \in 1..i :
            ~ conflict_lock(IF j = 1 THEN lk.lock_type ELSE lk.waiters[j - 1].type,
                            lk.waiters[j].type)}

GrantWaiters(lk) ==
    LET n == Cardinality(Granted(lk))
    IN  [lock_type |-> IF n = 0 THEN lk.lock_type ELSE lk.waiters[n].type,
         owners    |-> lk.owners \cup {lk.waiters[i] : i \in Granted(lk)},
         waiters   |-> SubSeq(lk.waiters, n + 1, Len(lk.waiters))]

\* Mutant: a waiter that gives up hands nothing over.
LockRelease_by_owner(lk, t) ==
    IF t \in OwnersOf(lk) THEN GrantWaiters(RemoveTxn(lk, t)) ELSE RemoveTxn(lk, t)

LockRelease(lk, t) == GrantWaiters(RemoveTxn(lk, t))

\* The transactions whose lock_ready the release of t raises.
WokenBy(lk, t) ==
    LET rem == RemoveTxn(lk, t)
    IN  {rem.waiters[i].txn : i \in Granted(rem)}
=============================================================================
