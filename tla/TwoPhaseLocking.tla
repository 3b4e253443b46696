-------------------------- MODULE TwoPhaseLocking --------------------------
(***************************************************************************)
(* The lock-based builds of DBx1000, from the worker loop down to the row  *)
(* locks: thread_t::run takes queries from its queue and its abort buffer, *)
(* run_txn asks txn_man::get_row for one row after the other, row_t locks  *)
(* the row and spins while it has to wait, writes go to the row in place,  *)
(* and txn_man::cleanup gives the rows back in reverse order, restoring    *)
(* the saved image first when the transaction aborts.                      *)
(*                                                                         *)
(* One action per step between two accesses to shared state; what happens  *)
(* under a row's latch is one step.  Time is not modelled: a wait may      *)
(* outlast g_timeout, and a buffered query may become ready, at any        *)
(* moment.  Which victim the deadlock detector picks is its own business:  *)
(* here it may raise lock_abort of any transaction while somebody waits.   *)
(***************************************************************************)
EXTENDS RowLock

CONSTANTS
    Rows,               \* rows of the table
    Queries,            \* what run_txn may be asked: sequences of requests
    InitVal, NoVal,     \* contents of a loaded row; "no value"
    AbortBufferEnable,  \* ABORT_BUFFER_ENABLE
    AbortBufferSize,    \* g_abort_buffer_size
    MaxTxn              \* MAX_TXN_PER_PART: commits after which a thread
                        \* ends the simulation

Request == [row : Rows, type : {"RD", "WR"}]

\* run_txn locks a row once: the query generators never repeat a key.
ASSUME QueriesAssumption ==
    \A q \in Queries :
        /\ q \in Seq(Request)
        /\ q # << >>
        /\ \A i, j \in DOMAIN q : q[i].row = q[j].row => i = j

ASSUME BoundsAssumption ==
    /\ AbortBufferEnable \in BOOLEAN
    /\ AbortBufferSize \in Nat \ {0}
    /\ MaxTxn \in Nat \ {0}

VARIABLES
    lock,           \* Row_lock of each row
    data,           \* contents of each row
    pc, rc,         \* where each thread is; the RC of its transaction
    query,          \* m_query
    row_cnt,        \* rows in accesses[]: access i is request i of the query
    orig_data,      \* images saved in accesses[] before a write
    seen,           \* what the computation has read
    ts, next_ts,    \* timestamp of each txn_man; the global allocator
    lock_ready, lock_abort,
    abort_buffer,   \* aborted queries waiting for another try
    txn_cnt,        \* committed transactions of each thread
    sim_done

txnVars == <<rc, query, row_cnt, orig_data, seen>>
tsVars == <<ts, next_ts>>
loopVars == <<abort_buffer, txn_cnt, sim_done>>
vars == <<lock, data, pc, txnVars, tsVars, lock_ready, lock_abort, loopVars>>

Values == {InitVal} \cup (Threads \X (1..MaxTxn))

\* Without the buffer an aborted query stays in m_query and is run again:
\* a buffer of one slot.
Slots == 1..(IF AbortBufferEnable THEN AbortBufferSize ELSE 1)

NoQuery == << >>
NoReads == [r \in Rows |-> NoVal]

\* The request get_row is serving, and the one served last.
NextReq(t) == query[t][row_cnt[t] + 1]
LastReq(t) == query[t][row_cnt[t]]

LockType(access_type) == IF access_type = "RD" THEN "LOCK_SH" ELSE "LOCK_EX"

\* What t's transaction writes: it is told apart from every other commit.
Written(t) == <<t, txn_cnt[t] + 1>>

Goto(t, label) == pc' = [pc EXCEPT ![t] = label]

----------------------------------------------------------------------------
Init ==
    /\ lock = [r \in Rows |-> FreeLock]
    /\ data = [r \in Rows |-> InitVal]
    /\ pc = [t \in Threads |-> "fetch"]
    /\ rc = [t \in Threads |-> "RCOK"]
    /\ query = [t \in Threads |-> NoQuery]
    /\ row_cnt = [t \in Threads |-> 0]
    /\ orig_data = [t \in Threads |-> [r \in Rows |-> NoVal]]
    /\ seen = [t \in Threads |-> NoReads]
    /\ ts = [t \in Threads |-> 0]
    /\ next_ts = 1
    /\ lock_ready = [t \in Threads |-> FALSE]
    /\ lock_abort = [t \in Threads |-> FALSE]
    /\ abort_buffer = [t \in Threads |-> [s \in Slots |-> NoQuery]]
    /\ txn_cnt = [t \in Threads |-> 0]
    /\ sim_done = FALSE

\* thread_t::run, top of the loop: start running q.
Start(t, q) ==
    /\ query' = [query EXCEPT ![t] = q]
    /\ rc' = [rc EXCEPT ![t] = "RCOK"]
    /\ row_cnt' = [row_cnt EXCEPT ![t] = 0]
    /\ Goto(t, "request")
    /\ UNCHANGED <<lock, data, orig_data, seen, lock_ready, lock_abort,
                   txn_cnt, sim_done>>

\* Mutant: a new query is taken although the buffer is full.
FetchNew_unchecked(t) ==
    /\ pc[t] = "fetch"
    /\ \E q \in Queries : Start(t, q)
    /\ UNCHANGED <<tsVars, abort_buffer>>

\* No buffered query is ready and a slot is free: take a new query.  Only
\* here, and only with the abort buffer, does a WAIT_DIE transaction get a
\* timestamp.
FetchNew(t) ==
    /\ pc[t] = "fetch"
    /\ \E s \in Slots : abort_buffer[t][s] = NoQuery
    /\ \E q \in Queries : Start(t, q)
    /\ IF CC_ALG = "WAIT_DIE" /\ AbortBufferEnable
       THEN ts' = [ts EXCEPT ![t] = next_ts] /\ next_ts' = next_ts + 1
       ELSE UNCHANGED tsVars
    /\ UNCHANGED abort_buffer

\* A buffered query has become ready.
FetchRetry(t) ==
    /\ pc[t] = "fetch"
    /\ \E s \in Slots :
        /\ abort_buffer[t][s] # NoQuery
        /\ Start(t, abort_buffer[t][s])
        /\ abort_buffer' = [abort_buffer EXCEPT ![t][s] = NoQuery]
    /\ UNCHANGED tsVars

----------------------------------------------------------------------------
(* row_t::get_row: ask for the lock of the next row.                       *)

Asks(t) == pc[t] = "request" /\ row_cnt[t] < Len(query[t])

Refused(t) ==
    MustNotJoin(lock[NextReq(t).row], t, LockType(NextReq(t).type), ts)

EntryOf(t) == [txn |-> t, type |-> LockType(NextReq(t).type)]

LockGetOK(t) ==
    /\ Asks(t)
    /\ ~ Refused(t)
    /\ lock' = [lock EXCEPT ![NextReq(t).row] = AddOwner(@, EntryOf(t))]
    /\ Goto(t, "access")
    /\ UNCHANGED <<data, txnVars, tsVars, lock_ready, lock_abort, loopVars>>

LockGetWait(t) ==
    /\ Asks(t)
    /\ Refused(t)
    /\ CanWait(lock[NextReq(t).row], t, ts)
    /\ lock' = [lock EXCEPT ![NextReq(t).row] = AddWaiter(@, EntryOf(t), ts)]
    /\ lock_ready' = [lock_ready EXCEPT ![t] = FALSE]
    /\ Goto(t, "enter_wait")
    /\ UNCHANGED <<data, txnVars, tsVars, lock_abort, loopVars>>

LockGetAbort(t) ==
    /\ Asks(t)
    /\ Refused(t)
    /\ ~ CanWait(lock[NextReq(t).row], t, ts)
    /\ rc' = [rc EXCEPT ![t] = "Abort"]
    /\ Goto(t, "cleanup")
    /\ UNCHANGED <<lock, data, query, row_cnt, orig_data, seen, tsVars,
                   lock_ready, lock_abort, loopVars>>

\* The latch is free again when lock_abort is reset: a signal that came
\* first is lost.
EnterWait(t) ==
    /\ pc[t] = "enter_wait"
    /\ lock_abort' = [lock_abort EXCEPT ![t] = FALSE]
    /\ Goto(t, "wait")
    /\ UNCHANGED <<lock, data, txnVars, tsVars, lock_ready, loopVars>>

\* g_timeout has passed.
Timeout(t) ==
    /\ CC_ALG = "DL_DETECT"
    /\ pc[t] = "wait"
    /\ ~ lock_ready[t]
    /\ ~ lock_abort[t]
    /\ lock_abort' = [lock_abort EXCEPT ![t] = TRUE]
    /\ UNCHANGED <<lock, data, pc, txnVars, tsVars, lock_ready, loopVars>>

\* A waiting thread runs detect_cycle and aborts v: the victim's txn id is
\* compared before, and not while, lock_abort is set, so v may be anywhere.
DetectCycle(v) ==
    /\ CC_ALG = "DL_DETECT"
    /\ \E u \in Threads : pc[u] = "wait"
    /\ ~ lock_abort[v]
    /\ lock_abort' = [lock_abort EXCEPT ![v] = TRUE]
    /\ UNCHANGED <<lock, data, pc, txnVars, tsVars, lock_ready, loopVars>>

\* Out of the spin loop; lock_ready is looked at first.
StopWaiting(t) ==
    /\ pc[t] = "wait"
    /\ lock_ready[t] \/ lock_abort[t]
    /\ Goto(t, IF lock_ready[t] THEN "access" ELSE "give_up")
    /\ UNCHANGED <<lock, data, txnVars, tsVars, lock_ready, lock_abort, loopVars>>

\* Mutant: the timed-out waiter leaves its entry behind.
GiveUp_no_release(t) ==
    /\ pc[t] = "give_up"
    /\ rc' = [rc EXCEPT ![t] = "Abort"]
    /\ Goto(t, "cleanup")
    /\ UNCHANGED <<lock, lock_ready, data, query, row_cnt, orig_data, seen,
                   tsVars, lock_abort, loopVars>>

\* return_row(type, txn, NULL): by now t may have become an owner.
GiveUp(t) ==
    /\ pc[t] = "give_up"
    /\ LET r == NextReq(t).row
       IN  /\ lock' = [lock EXCEPT ![r] = LockRelease(@, t)]
           /\ lock_ready' = [u \in Threads |->
                                lock_ready[u] \/ u \in WokenBy(lock[r], t)]
    /\ rc' = [rc EXCEPT ![t] = "Abort"]
    /\ Goto(t, "cleanup")
    /\ UNCHANGED <<data, query, row_cnt, orig_data, seen, tsVars, lock_abort,
                   loopVars>>

----------------------------------------------------------------------------
\* Mutant: no image is saved.
Access_unsaved(t) ==
    /\ pc[t] = "access"
    /\ row_cnt' = [row_cnt EXCEPT ![t] = @ + 1]
    /\ Goto(t, "compute")
    /\ UNCHANGED <<lock, data, rc, query, seen, orig_data, tsVars, lock_ready,
                   lock_abort, loopVars>>

\* txn_man::get_row after the lock: save the image of a row to be written.
Access(t) ==
    /\ pc[t] = "access"
    /\ LET req == NextReq(t)
       IN  orig_data' = IF req.type = "WR"
                        THEN [orig_data EXCEPT ![t][req.row] = data[req.row]]
                        ELSE orig_data
    /\ row_cnt' = [row_cnt EXCEPT ![t] = @ + 1]
    /\ Goto(t, "compute")
    /\ UNCHANGED <<lock, data, rc, query, seen, tsVars, lock_ready, lock_abort,
                   loopVars>>

\* run_txn works on the row itself.
Compute(t) ==
    /\ pc[t] = "compute"
    /\ LET req == LastReq(t)
       IN  IF req.type = "RD"
           THEN /\ seen' = [seen EXCEPT ![t][req.row] = data[req.row]]
                /\ UNCHANGED data
           ELSE /\ data' = [data EXCEPT ![req.row] = Written(t)]
                /\ UNCHANGED seen
    /\ Goto(t, "request")
    /\ UNCHANGED <<lock, rc, query, row_cnt, orig_data, tsVars, lock_ready,
                   lock_abort, loopVars>>

\* Every request is served: finish(RCOK).  This is the commit point.
Commit(t) ==
    /\ pc[t] = "request"
    /\ row_cnt[t] = Len(query[t])
    /\ Goto(t, "cleanup")
    /\ UNCHANGED <<lock, data, txnVars, tsVars, lock_ready, lock_abort, loopVars>>

\* Mutant: an aborting transaction leaves its writes in the rows.
Cleanup_no_undo(t) ==
    /\ pc[t] = "cleanup"
    /\ row_cnt[t] > 0
    /\ lock' = [lock EXCEPT ![LastReq(t).row] = LockRelease(@, t)]
    /\ lock_ready' = [u \in Threads |->
                          lock_ready[u] \/ u \in WokenBy(lock[LastReq(t).row], t)]
    /\ row_cnt' = [row_cnt EXCEPT ![t] = @ - 1]
    /\ UNCHANGED <<data, pc, rc, query, orig_data, seen, tsVars, lock_abort,
                   loopVars>>

\* One turn of the loop in cleanup: return_row of the last access left.
Cleanup(t) ==
    /\ pc[t] = "cleanup"
    /\ row_cnt[t] > 0
    /\ LET req == LastReq(t)
       IN  /\ data' = IF req.type = "WR" /\ rc[t] = "Abort"
                      THEN [data EXCEPT ![req.row] = orig_data[t][req.row]]
                      ELSE data
           /\ lock' = [lock EXCEPT ![req.row] = LockRelease(@, t)]
           /\ lock_ready' = [u \in Threads |->
                                \/ lock_ready[u]
                                \/ u \in WokenBy(lock[req.row], t)]
    /\ row_cnt' = [row_cnt EXCEPT ![t] = @ - 1]
    /\ UNCHANGED <<pc, rc, query, orig_data, seen, tsVars, lock_abort, loopVars>>

\* Back in thread_t::run: buffer an aborted query, count a committed one.
\* (The locals of the finished transaction are dead and take a fixed value.)
Finish(t) ==
    /\ pc[t] = "cleanup"
    /\ row_cnt[t] = 0
    /\ IF rc[t] = "Abort"
       THEN /\ \E s \in Slots :
                 /\ abort_buffer[t][s] = NoQuery
                 /\ \A s2 \in 1..(s - 1) : abort_buffer[t][s2] # NoQuery
                 /\ abort_buffer' = [abort_buffer EXCEPT ![t][s] = query[t]]
            /\ UNCHANGED txn_cnt
       ELSE /\ txn_cnt' = [txn_cnt EXCEPT ![t] = @ + 1]
            /\ UNCHANGED abort_buffer
    /\ sim_done' = (sim_done \/ txn_cnt'[t] >= MaxTxn)
    /\ Goto(t, IF sim_done' THEN "done" ELSE "fetch")
    /\ seen' = [seen EXCEPT ![t] = NoReads]
    /\ orig_data' = [orig_data EXCEPT ![t] = [r \in Rows |-> NoVal]]
    /\ query' = [query EXCEPT ![t] = NoQuery]
    /\ rc' = [rc EXCEPT ![t] = "RCOK"]
    /\ UNCHANGED <<lock, data, row_cnt, tsVars, lock_ready, lock_abort>>

Step(t) ==
    \/ FetchNew(t) \/ FetchRetry(t)
    \/ LockGetOK(t) \/ LockGetWait(t) \/ LockGetAbort(t)
    \/ EnterWait(t) \/ StopWaiting(t) \/ GiveUp(t)
    \/ Access(t) \/ Compute(t) \/ Commit(t)
    \/ Cleanup(t) \/ Finish(t)

\* Every thread has returned FINISH.
Terminated == (\A t \in Threads : pc[t] = "done") /\ UNCHANGED vars

Next ==
    \/ \E t \in Threads : Step(t) \/ Timeout(t) \/ DetectCycle(t)
    \/ Terminated

Spec == Init /\ [][Next]_vars

\* The operating system runs every worker thread.
FairSpec == Spec /\ \A t \in Threads : WF_vars(Step(t))

----------------------------------------------------------------------------
(* Properties.                                                             *)

Waiting(t) == pc[t] \in {"enter_wait", "wait", "give_up"}

\* Row r is among the accesses of t's transaction.
Accessed(t, r) == \E i \in 1..row_cnt[t] : query[t][i].row = r

\* t has asked for r and not yet entered it in its accesses.
Pending(t, r) == (Waiting(t) \/ pc[t] = "access") /\ NextReq(t).row = r

TypeOK ==
    /\ lock \in [Rows -> RowLocks]
    /\ data \in [Rows -> Values]
    /\ pc \in [Threads -> {"fetch", "request", "enter_wait", "wait", "give_up",
                           "access", "compute", "cleanup", "done"}]
    /\ rc \in [Threads -> {"RCOK", "Abort"}]
    /\ query \in [Threads -> Queries \cup {NoQuery}]
    /\ row_cnt \in [Threads -> Nat]
    /\ orig_data \in [Threads -> [Rows -> Values \cup {NoVal}]]
    /\ seen \in [Threads -> [Rows -> Values \cup {NoVal}]]
    /\ ts \in [Threads -> Nat]
    /\ next_ts \in Nat
    /\ lock_ready \in [Threads -> BOOLEAN]
    /\ lock_abort \in [Threads -> BOOLEAN]
    /\ abort_buffer \in [Threads -> [Slots -> Queries \cup {NoQuery}]]
    /\ txn_cnt \in [Threads -> Nat]
    /\ sim_done \in BOOLEAN

\* Two transactions own a row at once only if both share it, and lock_type
\* says what the owners hold (the assertions of lock_get and lock_release).
LockExclusion ==
    \A r \in Rows :
        /\ \A e1, e2 \in lock[r].owners :
              e1 # e2 => e1.type = "LOCK_SH" /\ e2.type = "LOCK_SH"
        /\ \A e \in lock[r].owners : e.type = lock[r].lock_type
        /\ lock[r].owners = {} <=> lock[r].lock_type = "LOCK_NONE"

\* The lock table and the transactions agree: a transaction owns the rows it
\* has accessed, in the right mode, owns or awaits the one it is asking for,
\* and is entered once.  So no abort, timed-out wait or grant that races
\* with it leaves a lock behind, and lock_release always finds its entry.
LocksMatchAccesses ==
    \A r \in Rows, t \in Threads :
        /\ t \in OwnersOf(lock[r]) \cup WaitersOf(lock[r])
               <=> Accessed(t, r) \/ Pending(t, r)
        /\ t \in WaitersOf(lock[r]) => t \notin OwnersOf(lock[r]) /\ Waiting(t)
        /\ \A i, j \in DOMAIN lock[r].waiters :
              lock[r].waiters[i].txn = lock[r].waiters[j].txn => i = j
        /\ \A i \in 1..row_cnt[t] :
              query[t][i].row = r =>
                [txn |-> t, type |-> LockType(query[t][i].type)] \in lock[r].owners

\* No wake-up is lost: a waiting thread has been signalled exactly if it has
\* become an owner, and the first waiter of a row is blocked by its owners.
NoLostWakeup ==
    /\ \A t \in Threads :
          Waiting(t) => (lock_ready[t] <=> t \in OwnersOf(lock[NextReq(t).row]))
    /\ \A r \in Rows :
          lock[r].waiters # << >> =>
            conflict_lock(lock[r].lock_type, Head(lock[r].waiters).type)

\* WAIT_DIE: every waiter is older than every owner, and the waiters stand
\* in timestamp order, the youngest first.
WaitDieOrder ==
    CC_ALG = "WAIT_DIE" =>
        \A r \in Rows :
            LET w == lock[r].waiters
            IN  \A i \in DOMAIN w :
                  /\ \A e \in lock[r].owners : ts[w[i].txn] < ts[e.txn]
                  /\ \A j \in DOMAIN w : i < j => ts[w[j].txn] < ts[w[i].txn]

\* t cannot go on before u does.
WaitsFor(t, u) ==
    \E r \in Rows :
        LET w == lock[r].waiters
        IN  \E i \in DOMAIN w :
              /\ w[i].txn = t
              /\ u \in OwnersOf(lock[r]) \cup {w[j].txn : j \in 1..(i - 1)}

\* WAIT_DIE has no deadlock: no set of transactions waits within itself.
NoDeadlock ==
    CC_ALG = "WAIT_DIE" =>
        \A S \in SUBSET Threads :
            S # {} => \E t \in S : \A u \in S : ~ WaitsFor(t, u)

\* The slot an aborting query needs is there (the assertion of thread_t::run).
AbortBufferHasRoom ==
    \A t \in Threads :
        pc[t] \notin {"fetch", "done"} => \E s \in Slots : abort_buffer[t][s] = NoQuery

----------------------------------------------------------------------------
(* The rows as the committed transactions have left them: a row under an   *)
(* uncommitted write counts with its saved image.                          *)

HasCommitted(t) == pc[t] = "cleanup" /\ rc[t] = "RCOK"

\* t has saved the image of r and neither committed nor given r back.
Dirty(t, r) ==
    /\ ~ HasCommitted(t)
    /\ \E i \in 1..row_cnt[t] : query[t][i] = [row |-> r, type |-> "WR"]

CommittedData ==
    [r \in Rows |-> IF \E t \in Threads : Dirty(t, r)
                    THEN orig_data[CHOOSE t \in Threads : Dirty(t, r)][r]
                    ELSE data[r]]

CommittedReads == [t \in Threads |-> IF HasCommitted(t) THEN seen[t] ELSE NoReads]

Serial == INSTANCE SerialStore WITH store <- CommittedData, result <- CommittedReads

\* Strict serializability: what the transactions read and leave behind is
\* what they would if each ran alone at the moment it commits, and an
\* aborted transaction changes nothing.
Serializable == Serial!Spec

\* Every simulation ends: some thread gets its MaxTxn transactions through
\* and the others, whatever they wait for, return too.
Termination == <>(\A t \in Threads : pc[t] = "done")
=============================================================================
