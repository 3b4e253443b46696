-------------------------------- MODULE Silo --------------------------------
(***************************************************************************)
(* The SILO build with ATOMIC_WORD: optimistic transactions over rows that *)
(* carry one word holding a transaction id and a lock bit.  A transaction  *)
(* copies each row it accesses under a tid that must be the same before    *)
(* and after the copy (Row_silo::access).  txn_man::validate_silo locks    *)
(* the rows to be written in primary-key order, validates the rows read,   *)
(* and installs the new images under a tid above all it has seen.          *)
(*                                                                         *)
(* One action per access to a shared word; an image is copied word by      *)
(* word.  x86 keeps the order of the loads and of the stores, so each      *)
(* access is one step of an interleaving.  An aborted query returns to the *)
(* worker loop, which may run any query next: see TwoPhaseLocking for the  *)
(* loop itself.                                                            *)
(***************************************************************************)
EXTENDS Optimistic

CONSTANTS
    WritesLocal,    \* the workload writes to the copy get_row returned
    Settings        \* values of pre_abort and validation_lock to start with

ASSUME SettingsAssumption ==
    /\ WritesLocal \in BOOLEAN
    /\ Settings \subseteq [pre_abort : BOOLEAN, no_wait : BOOLEAN]

VARIABLES
    tid, locked,    \* _tid_word of each row: the tid and the lock bit
    data,           \* contents of each row, word by word
    pc, query,
    row_cnt,        \* rows in accesses[]: access i is request i of the query
    seen, tids,     \* image and tid of each access
    v,              \* the tid access() has read before the copy
    word,           \* words copied so far
    locks,          \* rows of the write set this transaction has locked
    checked,        \* requests whose reads are validated: 1..checked
    cur_tid,        \* _cur_tid
    settings,       \* _pre_abort and _validation_no_wait
    txn_cnt,
    order           \* history: the transactions in the order in which they
                    \* had all their locks; ok once they have committed

txnVars == <<query, row_cnt, seen, tids>>
copyVars == <<v, word>>
vars == <<tid, locked, data, pc, txnVars, copyVars, locks, checked, cur_tid,
          settings, txn_cnt, order>>

\* The n-th transaction a thread commits writes <<thread, n>>, which tells it
\* apart from every other one.
Values == {InitVal} \cup (Threads \X (1..MaxTxn))
Written(t) == <<t, txn_cnt[t] + 1>>

WriteSet(t) == RowsOf(query[t], "WR")
ReadSet(t) == RowsOf(query[t], "RD")
AccessSet(t) == WriteSet(t) \cup ReadSet(t)

NextReq(t) == query[t][row_cnt[t] + 1]

\* Mutant: the write is lost.
NewImage_unmodified(t, r) == seen[t][r]

\* What t has in access->data of a row to be written when it validates.
NewImage(t, r) ==
    IF WritesLocal THEN Image(Written(t)) ELSE seen[t][r]

\* Mutant: the write set is not sorted.
NextLock_access_order(t) ==
    LET missing == WriteSet(t) \ locks[t]
        first == CHOOSE i \in DOMAIN query[t] :
                    /\ query[t][i].row \in missing
                    /\ \A j \in 1..(i - 1) : query[t][j].row \notin missing
    IN  query[t][first].row

\* The rows not yet locked are locked in primary-key order ...
NextLock(t) == Lowest(WriteSet(t) \ locks[t])

\* ... and written and released in that order too.
NextRelease(t) == Lowest(locks[t])

Goto(t, label) == pc' = [pc EXCEPT ![t] = label]

----------------------------------------------------------------------------
Init ==
    /\ tid = [r \in Rows |-> 0]
    /\ locked = [r \in Rows |-> FALSE]
    /\ data = [r \in Rows |-> Image(InitVal)]
    /\ pc = [t \in Threads |-> "fetch"]
    /\ query = [t \in Threads |-> << >>]
    /\ row_cnt = [t \in Threads |-> 0]
    /\ seen = [t \in Threads |-> NoReads]
    /\ tids = [t \in Threads |-> [r \in Rows |-> 0]]
    /\ v = [t \in Threads |-> 0]
    /\ word = [t \in Threads |-> 0]
    /\ locks = [t \in Threads |-> {}]
    /\ checked = [t \in Threads |-> 0]
    /\ cur_tid = [t \in Threads |-> 0]
    /\ settings \in Settings
    /\ txn_cnt = [t \in Threads |-> 0]
    /\ order = << >>

\* run_txn is called; what the last transaction left in accesses[] is dead.
Fetch(t) ==
    /\ pc[t] = "fetch"
    /\ txn_cnt[t] < MaxTxn
    /\ \E q \in Queries : query' = [query EXCEPT ![t] = q]
    /\ row_cnt' = [row_cnt EXCEPT ![t] = 0]
    /\ seen' = [seen EXCEPT ![t] = NoReads]
    /\ tids' = [tids EXCEPT ![t] = [r \in Rows |-> 0]]
    /\ Goto(t, "read_tid")
    /\ UNCHANGED <<tid, locked, data, copyVars, locks, checked, cur_tid,
                   settings, txn_cnt, order>>

----------------------------------------------------------------------------
(* Row_silo::access.                                                       *)

\* Spin while the row is locked.
ReadTid(t) ==
    /\ pc[t] = "read_tid"
    /\ ~ locked[NextReq(t).row]
    /\ v' = [v EXCEPT ![t] = tid[NextReq(t).row]]
    /\ word' = [word EXCEPT ![t] = 0]
    /\ Goto(t, "copy")
    /\ UNCHANGED <<tid, locked, data, txnVars, locks, checked, cur_tid,
                   settings, txn_cnt, order>>

Copy(t) ==
    /\ pc[t] = "copy"
    /\ word[t] < WordCnt
    /\ LET w == word[t] + 1
           r == NextReq(t).row
       IN  /\ seen' = [seen EXCEPT ![t][r][w] = data[r][w]]
           /\ word' = [word EXCEPT ![t] = w]
    /\ UNCHANGED <<tid, locked, data, pc, query, row_cnt, tids, v, locks,
                   checked, cur_tid, settings, txn_cnt, order>>

\* Mutant: the tid is read once.
Recheck_once(t) ==
    /\ pc[t] = "copy"
    /\ word[t] = WordCnt
    /\ tids' = [tids EXCEPT ![t][NextReq(t).row] = v[t]]
    /\ Goto(t, "compute")
    /\ word' = [word EXCEPT ![t] = 0]
    /\ v' = [v EXCEPT ![t] = 0]
    /\ UNCHANGED <<tid, locked, data, query, row_cnt, seen, locks,
                   checked, cur_tid, settings, txn_cnt, order>>

\* The word must be what it was before the copy, lock bit included.
Recheck(t) ==
    /\ pc[t] = "copy"
    /\ word[t] = WordCnt
    /\ LET r == NextReq(t).row
       IN  IF tid[r] = v[t] /\ ~ locked[r]
           THEN /\ tids' = [tids EXCEPT ![t][r] = v[t]]
                /\ Goto(t, "compute")
           ELSE /\ Goto(t, "read_tid")
                /\ UNCHANGED tids
    /\ word' = [word EXCEPT ![t] = 0]
    /\ v' = [v EXCEPT ![t] = 0]
    /\ UNCHANGED <<tid, locked, data, query, row_cnt, seen, locks,
                   checked, cur_tid, settings, txn_cnt, order>>

\* YCSB writes its field through row->get_data(), the row itself; TPC-C
\* writes to the copy, which no other thread sees.
Compute(t) ==
    /\ pc[t] = "compute"
    /\ LET req == NextReq(t)
       IN  data' = IF req.type = "WR" /\ ~ WritesLocal
                   THEN [data EXCEPT ![req.row][1] = Written(t)]
                   ELSE data
    /\ row_cnt' = [row_cnt EXCEPT ![t] = @ + 1]
    /\ Goto(t, IF row_cnt'[t] = Len(query[t]) THEN "pre_abort" ELSE "read_tid")
    /\ UNCHANGED <<tid, locked, query, seen, tids, copyVars, locks, checked,
                   cur_tid, settings, txn_cnt, order>>

----------------------------------------------------------------------------
(* txn_man::validate_silo.                                                 *)

Unchanged(t, r) == tid[r] = tids[t][r]

\* Before the first and after every failed try to lock.  The rows are looked
\* at one by one; tids only grow, so looking at all of them at once finds
\* the same.
PreAbort(t) ==
    /\ pc[t] = "pre_abort"
    /\ Goto(t, IF settings.pre_abort /\ \E r \in AccessSet(t) : ~ Unchanged(t, r)
               THEN "abort" ELSE "lock")
    /\ UNCHANGED <<tid, locked, data, txnVars, copyVars, locks, checked,
                   cur_tid, settings, txn_cnt, order>>

\* Mutant: num_locks is counted after the tid has been compared.
LockRow_late_count(t) ==
    /\ pc[t] = "lock"
    /\ locks[t] # WriteSet(t)
    /\ LET r == NextLock(t)
       IN  /\ ~ locked[r]
           /\ locked' = [locked EXCEPT ![r] = TRUE]
           /\ IF Unchanged(t, r)
              THEN locks' = [locks EXCEPT ![t] = @ \cup {r}] /\ UNCHANGED pc
              ELSE Goto(t, "abort") /\ UNCHANGED locks
    /\ UNCHANGED <<tid, data, txnVars, copyVars, checked, cur_tid,
                   settings, txn_cnt, order>>

\* Lock the next row of the write set; its tid cannot change any more.
LockRow(t) ==
    /\ pc[t] = "lock"
    /\ locks[t] # WriteSet(t)
    /\ LET r == NextLock(t)
       IN  /\ ~ locked[r]
           /\ locked' = [locked EXCEPT ![r] = TRUE]
           /\ locks' = [locks EXCEPT ![t] = @ \cup {r}]
           /\ IF Unchanged(t, r) THEN UNCHANGED pc ELSE Goto(t, "abort")
    /\ UNCHANGED <<tid, data, txnVars, copyVars, checked, cur_tid,
                   settings, txn_cnt, order>>

\* try_lock fails: give everything back and start over.  (With
\* _validation_no_wait false the transaction spins in lock() instead.)
LockBusy(t) ==
    /\ pc[t] = "lock"
    /\ locks[t] # WriteSet(t)
    /\ settings.no_wait
    /\ locked[NextLock(t)]
    /\ Goto(t, "back_off")
    /\ UNCHANGED <<tid, locked, data, txnVars, copyVars, locks, checked,
                   cur_tid, settings, txn_cnt, order>>

\* One turn of the loops that release the rows locked so far.
Unlock(t) ==
    /\ pc[t] \in {"back_off", "abort"}
    /\ locks[t] # {}
    /\ locked' = [locked EXCEPT ![NextRelease(t)] = FALSE]
    /\ locks' = [locks EXCEPT ![t] = @ \ {NextRelease(t)}]
    /\ UNCHANGED <<tid, data, pc, txnVars, copyVars, checked, cur_tid,
                   settings, txn_cnt, order>>

BackOff(t) ==
    /\ pc[t] = "back_off"
    /\ locks[t] = {}
    /\ Goto(t, "pre_abort")
    /\ UNCHANGED <<tid, locked, data, txnVars, copyVars, locks, checked,
                   cur_tid, settings, txn_cnt, order>>

Abort(t) ==
    /\ pc[t] = "abort"
    /\ locks[t] = {}
    /\ Goto(t, "fetch")
    /\ query' = [query EXCEPT ![t] = << >>]
    /\ row_cnt' = [row_cnt EXCEPT ![t] = 0]
    /\ seen' = [seen EXCEPT ![t] = NoReads]
    /\ tids' = [tids EXCEPT ![t] = [r \in Rows |-> 0]]
    /\ UNCHANGED <<tid, locked, data, copyVars, locks, checked,
                   cur_tid, settings, txn_cnt, order>>

\* The whole write set is locked.
Locked(t) ==
    /\ pc[t] = "lock"
    /\ locks[t] = WriteSet(t)
    /\ checked' = [checked EXCEPT ![t] = 0]
    /\ Goto(t, "validate")
    /\ order' = Append(order, [txn    |-> Written(t),
                               reads  |-> seen[t],
                               writes |-> WriteSet(t),
                               ok     |-> FALSE])
    /\ UNCHANGED <<tid, locked, data, txnVars, copyVars, locks, cur_tid,
                   settings, txn_cnt>>

\* t's transaction leaves no trace in the history.
Place(t) == CHOOSE i \in DOMAIN order : order[i].txn = Written(t)
Forget(t) ==
    order' = [i \in 1..(Len(order) - 1) |-> order[IF i < Place(t) THEN i ELSE i + 1]]

\* Mutant: the lock bit of a row read is not looked at.
ValidateRead_lock_bit(t) ==
    /\ pc[t] = "validate"
    /\ checked[t] < Len(query[t])
    /\ LET req == query[t][checked[t] + 1]
       IN  IF req.type = "WR" \/ Unchanged(t, req.row)
           THEN /\ checked' = [checked EXCEPT ![t] = @ + 1]
                /\ UNCHANGED <<pc, order>>
           ELSE /\ Goto(t, "abort") /\ Forget(t)
                /\ UNCHANGED checked
    /\ UNCHANGED <<tid, locked, data, txnVars, copyVars, locks, cur_tid,
                   settings, txn_cnt>>

\* validate(tid, false) of the next access, if it is a read.
ValidateRead(t) ==
    /\ pc[t] = "validate"
    /\ checked[t] < Len(query[t])
    /\ LET req == query[t][checked[t] + 1]
       IN  IF req.type = "WR" \/ (Unchanged(t, req.row) /\ ~ locked[req.row])
           THEN /\ checked' = [checked EXCEPT ![t] = @ + 1]
                /\ UNCHANGED <<pc, order>>
           ELSE /\ Goto(t, "abort") /\ Forget(t)
                /\ UNCHANGED checked
    /\ UNCHANGED <<tid, locked, data, txnVars, copyVars, locks, cur_tid,
                   settings, txn_cnt>>

MaxTid(t) == CHOOSE n \in {tids[t][r] : r \in AccessSet(t)} :
                 \A r \in AccessSet(t) : tids[t][r] <= n

\* Mutant: the new tid looks at the thread's own transactions only.
NewTid_own(t) == cur_tid[t] + 1

NewTid(t) == (IF MaxTid(t) > cur_tid[t] THEN MaxTid(t) ELSE cur_tid[t]) + 1

\* validate(tid, true) of the write set, then the new tid: the transaction
\* commits.
Commit(t) ==
    /\ pc[t] = "validate"
    /\ checked[t] = Len(query[t])
    /\ IF \A r \in WriteSet(t) : Unchanged(t, r)
       THEN /\ cur_tid' = [cur_tid EXCEPT ![t] = NewTid(t)]
            /\ order' = [i \in DOMAIN order |->
                            IF order[i].txn = Written(t)
                            THEN [order[i] EXCEPT !.ok = TRUE] ELSE order[i]]
            /\ Goto(t, "write")
       ELSE /\ Goto(t, "abort") /\ Forget(t)
            /\ UNCHANGED cur_tid
    /\ UNCHANGED <<tid, locked, data, txnVars, copyVars, locks, checked,
                   settings, txn_cnt>>

(* Row_silo::write and release, row by row.                                *)

Install(t) ==
    /\ pc[t] = "write"
    /\ locks[t] # {}
    /\ word[t] < WordCnt
    /\ LET w == word[t] + 1
           r == NextRelease(t)
       IN  /\ data' = [data EXCEPT ![r][w] = NewImage(t, r)[w]]
           /\ word' = [word EXCEPT ![t] = w]
    /\ UNCHANGED <<tid, locked, pc, txnVars, v, locks, checked, cur_tid,
                   settings, txn_cnt, order>>

SetTid(t) ==
    /\ pc[t] = "write"
    /\ locks[t] # {}
    /\ word[t] = WordCnt
    /\ tid' = [tid EXCEPT ![NextRelease(t)] = cur_tid[t]]
    /\ word' = [word EXCEPT ![t] = 0]
    /\ Goto(t, "release")
    /\ UNCHANGED <<locked, data, txnVars, v, locks, checked, cur_tid,
                   settings, txn_cnt, order>>

Release(t) ==
    /\ pc[t] = "release"
    /\ locked' = [locked EXCEPT ![NextRelease(t)] = FALSE]
    /\ locks' = [locks EXCEPT ![t] = @ \ {NextRelease(t)}]
    /\ Goto(t, "write")
    /\ UNCHANGED <<tid, data, txnVars, copyVars, checked, cur_tid,
                   settings, txn_cnt, order>>

\* Back in the worker loop.
Finish(t) ==
    /\ pc[t] = "write"
    /\ locks[t] = {}
    /\ txn_cnt' = [txn_cnt EXCEPT ![t] = @ + 1]
    /\ Goto(t, IF txn_cnt'[t] = MaxTxn THEN "done" ELSE "fetch")
    /\ query' = [query EXCEPT ![t] = << >>]
    /\ row_cnt' = [row_cnt EXCEPT ![t] = 0]
    /\ seen' = [seen EXCEPT ![t] = NoReads]
    /\ tids' = [tids EXCEPT ![t] = [r \in Rows |-> 0]]
    /\ UNCHANGED <<tid, locked, data, copyVars, locks, checked, cur_tid,
                   settings, order>>

Step(t) ==
    \/ Fetch(t) \/ ReadTid(t) \/ Copy(t) \/ Recheck(t) \/ Compute(t)
    \/ PreAbort(t) \/ LockRow(t) \/ LockBusy(t) \/ Unlock(t) \/ BackOff(t)
    \/ Abort(t) \/ Locked(t) \/ ValidateRead(t) \/ Commit(t)
    \/ Install(t) \/ SetTid(t) \/ Release(t) \/ Finish(t)

Terminated == (\A t \in Threads : pc[t] = "done") /\ UNCHANGED vars

Next == (\E t \in Threads : Step(t)) \/ Terminated

Spec == Init /\ [][Next]_vars

----------------------------------------------------------------------------
(* Properties.                                                             *)

\* The lock bits and the transactions agree: a row is locked exactly while
\* one transaction counts it among its locks (assert_lock, the assertion of
\* release), so no abort or back-off leaves a row locked.
LockBits ==
    /\ \A r \in Rows : locked[r] <=> \E t \in Threads : r \in locks[t]
    /\ \A t, u \in Threads : t # u => locks[t] \cap locks[u] = {}

\* A transaction that installs has a tid above those of the rows it has yet
\* to write (the M_ASSERT of Row_silo::write), although each thread makes up
\* its tids by itself.
TidGrows ==
    \A t \in Threads :
        pc[t] = "write" => \A r \in locks[t] : tid[r] < cur_tid[t]

\* t is somewhere in the installation of r.
Installing(t, r) == pc[t] \in {"write", "release"} /\ r \in locks[t]

\* A tid names one version: a transaction that has accessed r under the tid
\* r still has holds r's contents, whole and unmixed.
TidNamesVersion ==
    \A t \in Threads, r \in Rows :
        /\ \E i \in 1..row_cnt[t] : query[t][i].row = r
        /\ tid[r] = tids[t][r]
        /\ \A u \in Threads : ~ Installing(u, r)
        => seen[t][r] = data[r]

\* No copy is torn: whatever becomes of a transaction, each row it computes
\* on is one version, although it was copied word by word.
WholeCopies ==
    \A t \in Threads : \A i \in 1..row_cnt[t] :
        \E val \in Values : seen[t][query[t][i].row] = Image(val)

\* t spins in lock() for a row that u has locked.
Blocked(t, u) ==
    /\ pc[t] = "lock" /\ ~ settings.no_wait
    /\ locks[t] # WriteSet(t)
    /\ NextLock(t) \in locks[u]

\* With _validation_no_wait false the waiting transactions form no cycle.
NoLockCycle ==
    \A S \in SUBSET Threads :
        S # {} => \E t \in S : \A u \in S : ~ Blocked(t, u)

\* The last committed transaction before place i that wrote r.
Writers(i, r) == {j \in 1..(i - 1) : order[j].ok /\ r \in order[j].writes}

ImageBefore(i, r) ==
    IF Writers(i, r) = {} THEN Image(InitVal)
    ELSE LET j == CHOOSE k \in Writers(i, r) : \A l \in Writers(i, r) : l <= k
         IN  Image(order[j].txn)

\* Strict serializability: the committed transactions read what they would
\* if each ran alone at the moment it had all its locks.
Serializable ==
    \A i \in DOMAIN order : order[i].ok =>
        \A r \in Rows :
            order[i].reads[r] # NoImage => order[i].reads[r] = ImageBefore(i, r)

\* The rows change at commits only: a row that is not locked holds what the
\* last committed transaction wrote.
CommittedImages ==
    \A r \in Rows : ~ locked[r] => data[r] = ImageBefore(Len(order) + 1, r)
=============================================================================
