------------------------------- MODULE TicToc -------------------------------
(***************************************************************************)
(* The TICTOC build with ATOMIC_WORD, WR_VALIDATION_SEPARATE and the       *)
(* SERIALIZABLE isolation level of config.h.  A row's word packs the time  *)
(* its version was written (wts), how long past that it is known to be     *)
(* valid (the delta, so that rts = wts + delta) and a lock bit.  A         *)
(* transaction computes a commit time from what it has accessed, locks its *)
(* write set, moves the time past the leases of those rows and extends the *)
(* leases of the rows it read with compare-and-swap                        *)
(* (txn_man::validate_tictoc, Row_tictoc::try_renew).                      *)
(*                                                                         *)
(* One action per access to a shared word.  A transaction that aborts      *)
(* after it has extended a lease leaves the lease extended, so retries can *)
(* push the times up without end: MaxTxn bounds the transactions started.  *)
(***************************************************************************)
EXTENDS Optimistic, SequencesExt

CONSTANTS
    RtsLen,         \* RTS_LEN: bits of the delta
    Settings        \* values of pre_abort and validation_lock to start with

ASSUME SettingsAssumption ==
    /\ RtsLen \in Nat /\ 2^RtsLen > 0
    /\ Settings \subseteq [pre_abort : BOOLEAN, no_wait : BOOLEAN]

VARIABLES
    wts, delta, locked,     \* _ts_word of each row
    data,
    pc, query,
    row_cnt,        \* rows in accesses[]: access i is request i of the query
    seen, access_wts, access_rts,
    v,              \* the word last read, without its lock bit
    word,           \* words copied so far
    commit_wts,
    locks,          \* rows of the write set this transaction has locked
    checked,        \* requests a validation loop is done with: 1..checked
    settings,       \* _pre_abort and _validation_no_wait
    id, started,    \* history: numbers of the transactions
    log             \* history: the committed transactions

rowVars == <<wts, delta, locked, data>>
txnVars == <<query, row_cnt, seen, access_wts, access_rts>>
histVars == <<id, started, log>>
vars == <<rowVars, pc, txnVars, v, word, commit_wts, locks, checked, settings,
          histVars>>

Values == {InitVal} \cup 1..MaxTxn

WriteSet(t) == RowsOf(query[t], "WR")
ReadSet(t) == RowsOf(query[t], "RD")

rts(r) == wts[r] + delta[r]
Word(r) == [wts |-> wts[r], delta |-> delta[r]]
NoWord == [wts |-> 0, delta |-> 0]

NextReq(t) == query[t][row_cnt[t] + 1]
NextCheck(t) == query[t][checked[t] + 1]
PreAbortOrder(t) ==
    LET reads == SelectSeq(query[t], LAMBDA req : req.type = "RD")
    IN  SetToSortSeq(WriteSet(t), <) \o [i \in DOMAIN reads |-> reads[i].row]
NextLock(t) == Lowest(WriteSet(t) \ locks[t])
NextRelease(t) == Lowest(locks[t])

MaxOf(S) == CHOOSE n \in S : \A k \in S : k <= n

Goto(t, label) == pc' = [pc EXCEPT ![t] = label]

----------------------------------------------------------------------------
Init ==
    /\ wts = [r \in Rows |-> 0]
    /\ delta = [r \in Rows |-> 0]
    /\ locked = [r \in Rows |-> FALSE]
    /\ data = [r \in Rows |-> Image(InitVal)]
    /\ pc = [t \in Threads |-> "fetch"]
    /\ query = [t \in Threads |-> << >>]
    /\ row_cnt = [t \in Threads |-> 0]
    /\ seen = [t \in Threads |-> NoReads]
    /\ access_wts = [t \in Threads |-> [r \in Rows |-> 0]]
    /\ access_rts = [t \in Threads |-> [r \in Rows |-> 0]]
    /\ v = [t \in Threads |-> NoWord]
    /\ word = [t \in Threads |-> 0]
    /\ commit_wts = [t \in Threads |-> 0]
    /\ locks = [t \in Threads |-> {}]
    /\ checked = [t \in Threads |-> 0]
    /\ settings \in Settings
    /\ id = [t \in Threads |-> 0]
    /\ started = 0
    /\ log = << >>

\* run_txn is called.
Fetch(t) ==
    /\ pc[t] = "fetch"
    /\ started < MaxTxn
    /\ \E q \in Queries : query' = [query EXCEPT ![t] = q]
    /\ started' = started + 1
    /\ id' = [id EXCEPT ![t] = started']
    /\ Goto(t, "read_word")
    /\ UNCHANGED <<rowVars, row_cnt, seen, access_wts, access_rts, v, word,
                   commit_wts, locks, checked, settings, log>>

\* The bound on the transactions is reached.
Stop(t) ==
    /\ pc[t] = "fetch"
    /\ started = MaxTxn
    /\ Goto(t, "done")
    /\ UNCHANGED <<rowVars, txnVars, v, word, commit_wts, locks, checked,
                   settings, histVars>>

----------------------------------------------------------------------------
(* Row_tictoc::access.                                                     *)

\* Mutant: the word of a locked row is taken too.
ReadWord_locked(t) ==
    /\ pc[t] = "read_word"
    /\ v' = [v EXCEPT ![t] = Word(NextReq(t).row)]
    /\ Goto(t, "copy")
    /\ UNCHANGED <<rowVars, txnVars, word, commit_wts, locks, checked,
                   settings, histVars>>

\* Spin while the row is locked.
ReadWord(t) ==
    /\ pc[t] = "read_word"
    /\ ~ locked[NextReq(t).row]
    /\ v' = [v EXCEPT ![t] = Word(NextReq(t).row)]
    /\ Goto(t, "copy")
    /\ UNCHANGED <<rowVars, txnVars, word, commit_wts, locks, checked,
                   settings, histVars>>

Copy(t) ==
    /\ pc[t] = "copy"
    /\ word[t] < WordCnt
    /\ LET w == word[t] + 1
           r == NextReq(t).row
       IN  /\ seen' = [seen EXCEPT ![t][r][w] = data[r][w]]
           /\ word' = [word EXCEPT ![t] = w]
    /\ UNCHANGED <<rowVars, pc, query, row_cnt, access_wts, access_rts, v,
                   commit_wts, locks, checked, settings, histVars>>

\* The word may differ from the one before the copy in its lease only.
Recheck(t) ==
    /\ pc[t] = "copy"
    /\ word[t] = WordCnt
    /\ LET r == NextReq(t).row
       IN  IF wts[r] = v[t].wts /\ ~ locked[r]
           THEN /\ access_wts' = [access_wts EXCEPT ![t][r] = v[t].wts]
                /\ access_rts' = [access_rts EXCEPT ![t][r] = v[t].wts + v[t].delta]
                /\ row_cnt' = [row_cnt EXCEPT ![t] = @ + 1]
                /\ Goto(t, IF row_cnt'[t] = Len(query[t])
                           THEN "commit_time" ELSE "read_word")
           ELSE /\ Goto(t, "read_word")
                /\ UNCHANGED <<access_wts, access_rts, row_cnt>>
    /\ word' = [word EXCEPT ![t] = 0]
    /\ v' = [v EXCEPT ![t] = NoWord]
    /\ UNCHANGED <<rowVars, query, seen, commit_wts, locks, checked, settings,
                   histVars>>

----------------------------------------------------------------------------
(* txn_man::validate_tictoc.                                               *)

\* The commit time: not before any version read, past every lease on a row
\* to be written.
CommitTime(t) ==
    /\ pc[t] = "commit_time"
    /\ commit_wts' = [commit_wts EXCEPT ![t] =
                        MaxOf({access_wts[t][r] : r \in ReadSet(t)}
                              \cup {access_rts[t][r] + 1 : r \in WriteSet(t)})]
    /\ Goto(t, IF settings.pre_abort THEN "pre_abort" ELSE "lock")
    /\ UNCHANGED <<rowVars, txnVars, v, word, locks, checked, settings, histVars>>

\* One turn of the pre-abort loops, before the first and after every failed
\* try to lock: over the sorted write set, then over the read set.
PreAbort(t) ==
    /\ pc[t] = "pre_abort"
    /\ IF checked[t] = Len(query[t])
       THEN /\ Goto(t, "lock")
            /\ checked' = [checked EXCEPT ![t] = 0]
       ELSE LET r == PreAbortOrder(t)[checked[t] + 1]
                stale == /\ wts[r] # access_wts[t][r]
                         /\ r \in WriteSet(t) \/ commit_wts[t] > rts(r)
            IN  /\ checked' = [checked EXCEPT ![t] = IF stale THEN 0 ELSE @ + 1]
                /\ IF stale THEN Goto(t, "abort") ELSE UNCHANGED pc
    /\ UNCHANGED <<rowVars, txnVars, v, word, commit_wts, locks, settings, histVars>>

LockRow(t) ==
    /\ pc[t] = "lock"
    /\ locks[t] # WriteSet(t)
    /\ LET r == NextLock(t)
       IN  /\ ~ locked[r]
           /\ locked' = [locked EXCEPT ![r] = TRUE]
           /\ locks' = [locks EXCEPT ![t] = @ \cup {r}]
           /\ IF wts[r] = access_wts[t][r] THEN UNCHANGED pc ELSE Goto(t, "abort")
    /\ UNCHANGED <<wts, delta, data, txnVars, v, word, commit_wts, checked,
                   settings, histVars>>

\* try_lock fails: give everything back and start over.  (With
\* _validation_no_wait false the transaction spins in lock() instead.)
LockBusy(t) ==
    /\ pc[t] = "lock"
    /\ locks[t] # WriteSet(t)
    /\ settings.no_wait
    /\ locked[NextLock(t)]
    /\ Goto(t, "back_off")
    /\ UNCHANGED <<rowVars, txnVars, v, word, commit_wts, locks, checked,
                   settings, histVars>>

Unlock(t) ==
    /\ pc[t] \in {"back_off", "abort"}
    /\ locks[t] # {}
    /\ locked' = [locked EXCEPT ![NextRelease(t)] = FALSE]
    /\ locks' = [locks EXCEPT ![t] = @ \ {NextRelease(t)}]
    /\ UNCHANGED <<wts, delta, data, pc, txnVars, v, word, commit_wts, checked,
                   settings, histVars>>

BackOff(t) ==
    /\ pc[t] = "back_off"
    /\ locks[t] = {}
    /\ Goto(t, IF settings.pre_abort THEN "pre_abort" ELSE "lock")
    /\ UNCHANGED <<rowVars, txnVars, v, word, commit_wts, locks, checked,
                   settings, histVars>>

\* Mutant: the leases are not looked at again under the locks.
LeaseEnd_stale(t) == commit_wts[t]

\* The commit time moves past the leases the locked rows have by now; they
\* cannot be extended any more.
LeaseEnd(t) == MaxOf({commit_wts[t]} \cup {rts(r) + 1 : r \in WriteSet(t)})

Locked(t) ==
    /\ pc[t] = "lock"
    /\ locks[t] = WriteSet(t)
    /\ commit_wts' = [commit_wts EXCEPT ![t] = LeaseEnd(t)]
    /\ Goto(t, "validate")
    /\ UNCHANGED <<rowVars, txnVars, v, word, locks, checked, settings, histVars>>

----------------------------------------------------------------------------
(* Row_tictoc::try_renew of the next row read, to the commit time.         *)

Passed(t) ==
    /\ checked' = [checked EXCEPT ![t] = @ + 1]
    /\ Goto(t, "validate")
    /\ v' = [v EXCEPT ![t] = NoWord]

Failed(t) ==
    /\ checked' = [checked EXCEPT ![t] = 0]
    /\ Goto(t, "abort")
    /\ v' = [v EXCEPT ![t] = NoWord]

\* The delta the lease needs; one too long for its field moves wts instead.
NewDelta(t, r) == commit_wts[t] - access_wts[t][r]
Rebase(t, r) == NewDelta(t, r) >= 2^RtsLen
\* Mutant: the delta is cut to its field and wts stays.
NewWord_cut(t, r) == [wts |-> access_wts[t][r], delta |-> NewDelta(t, r) % 2^RtsLen]
NewWord(t, r) ==
    LET low == NewDelta(t, r) % 2^RtsLen
    IN  [wts |-> access_wts[t][r] + NewDelta(t, r) - low, delta |-> low]

\* The first look at the word.
Validate(t) ==
    /\ pc[t] = "validate"
    /\ checked[t] < Len(query[t])
    /\ LET r == NextCheck(t).row
       IN  IF \/ NextCheck(t).type = "WR"
              \/ access_rts[t][r] >= commit_wts[t]
              \/ wts[r] = access_wts[t][r] /\ delta[r] >= NewDelta(t, r)
           THEN Passed(t)
           ELSE IF locked[r] \/ wts[r] # access_wts[t][r]
           THEN Failed(t)
           ELSE /\ v' = [v EXCEPT ![t] = Word(r)]
                /\ Goto(t, "renew")
                /\ UNCHANGED checked
    /\ UNCHANGED <<rowVars, txnVars, word, commit_wts, locks, settings, histVars>>

\* The compare-and-swap, and what follows when it fails.  (The last test
\* compares the commit time itself, not the delta it needs, with the delta.)
Renew(t) ==
    /\ pc[t] = "renew"
    /\ LET r == NextCheck(t).row
           new == NewWord(t, r)
       IN  IF Word(r) = v[t] /\ ~ locked[r]
           THEN /\ wts' = [wts EXCEPT ![r] = new.wts]
                /\ delta' = [delta EXCEPT ![r] = new.delta]
                /\ Passed(t)
           ELSE /\ UNCHANGED <<wts, delta>>
                /\ IF Rebase(t, r) \/ locked[r] \/ wts[r] # new.wts
                   THEN Failed(t)
                   ELSE IF commit_wts[t] < delta[r]
                   THEN Passed(t)
                   ELSE /\ v' = [v EXCEPT ![t] = Word(r)]
                        /\ UNCHANGED <<pc, checked>>
    /\ UNCHANGED <<locked, data, txnVars, word, commit_wts, locks, settings,
                   histVars>>

----------------------------------------------------------------------------
\* Every read is validated: the transaction commits.
Commit(t) ==
    /\ pc[t] = "validate"
    /\ checked[t] = Len(query[t])
    /\ Goto(t, "write")
    /\ log' = Append(log, [txn |-> id[t], ts |-> commit_wts[t],
                           reads |-> seen[t], writes |-> WriteSet(t)])
    /\ UNCHANGED <<rowVars, txnVars, v, word, commit_wts, locks, checked,
                   settings, id, started>>

\* Row_tictoc::write_data: first the times, then the data, then release.
SetWts(t) ==
    /\ pc[t] = "write"
    /\ locks[t] # {}
    /\ wts' = [wts EXCEPT ![NextRelease(t)] = commit_wts[t]]
    /\ delta' = [delta EXCEPT ![NextRelease(t)] = 0]
    /\ Goto(t, "install")
    /\ UNCHANGED <<locked, data, txnVars, v, word, commit_wts, locks, checked,
                   settings, histVars>>

Install(t) ==
    /\ pc[t] = "install"
    /\ word[t] < WordCnt
    /\ data' = [data EXCEPT ![NextRelease(t)][word[t] + 1] = id[t]]
    /\ word' = [word EXCEPT ![t] = @ + 1]
    /\ UNCHANGED <<wts, delta, locked, pc, txnVars, v, commit_wts, locks,
                   checked, settings, histVars>>

Release(t) ==
    /\ pc[t] = "install"
    /\ word[t] = WordCnt
    /\ locked' = [locked EXCEPT ![NextRelease(t)] = FALSE]
    /\ locks' = [locks EXCEPT ![t] = @ \ {NextRelease(t)}]
    /\ word' = [word EXCEPT ![t] = 0]
    /\ Goto(t, "write")
    /\ UNCHANGED <<wts, delta, data, txnVars, v, commit_wts, checked, settings,
                   histVars>>

\* The rows are given back; what the transaction leaves in its accesses is
\* dead.
Finish(t) ==
    /\ pc[t] \in {"write", "abort"}
    /\ locks[t] = {}
    /\ Goto(t, "fetch")
    /\ query' = [query EXCEPT ![t] = << >>]
    /\ row_cnt' = [row_cnt EXCEPT ![t] = 0]
    /\ seen' = [seen EXCEPT ![t] = NoReads]
    /\ access_wts' = [access_wts EXCEPT ![t] = [r \in Rows |-> 0]]
    /\ access_rts' = [access_rts EXCEPT ![t] = [r \in Rows |-> 0]]
    /\ commit_wts' = [commit_wts EXCEPT ![t] = 0]
    /\ checked' = [checked EXCEPT ![t] = 0]
    /\ id' = [id EXCEPT ![t] = 0]
    /\ UNCHANGED <<rowVars, v, word, locks, settings, started, log>>

Step(t) ==
    \/ Fetch(t) \/ Stop(t) \/ ReadWord(t) \/ Copy(t) \/ Recheck(t)
    \/ CommitTime(t) \/ PreAbort(t)
    \/ LockRow(t) \/ LockBusy(t) \/ Unlock(t) \/ BackOff(t) \/ Locked(t)
    \/ Validate(t) \/ Renew(t) \/ Commit(t)
    \/ SetWts(t) \/ Install(t) \/ Release(t) \/ Finish(t)

Terminated == (\A t \in Threads : pc[t] = "done") /\ UNCHANGED vars

Next == (\E t \in Threads : Step(t)) \/ Terminated

Spec == Init /\ [][Next]_vars

----------------------------------------------------------------------------
(* Properties.                                                             *)

\* No copy is torn, although write_data moves wts before the data.
WholeCopies ==
    \A t \in Threads : \A i \in 1..row_cnt[t] :
        \E val \in Values : seen[t][query[t][i].row] = Image(val)

\* The transaction at place j of the log comes before the one at place i in
\* the order of commit times; at equal times, in the order of commits.
Precedes(j, i) == log[j].ts < log[i].ts \/ (log[j].ts = log[i].ts /\ j < i)

Writers(i, r) == {j \in DOMAIN log : Precedes(j, i) /\ r \in log[j].writes}

ImageBefore(i, r) ==
    IF Writers(i, r) = {} THEN Image(InitVal)
    ELSE LET j == CHOOSE k \in Writers(i, r) :
                    \A l \in Writers(i, r) : l = k \/ Precedes(l, k)
         IN  Image(log[j].txn)

\* Serializability in the order of commit times: every committed transaction
\* has read what it would if they ran one after the other in that order.
Serializable ==
    \A i \in DOMAIN log, r \in Rows :
        log[i].reads[r] # NoImage => log[i].reads[r] = ImageBefore(i, r)

\* Serializability in any order at all (ISOLATION_LEVEL is SERIALIZABLE): some
\* order of the committed transactions explains everything that they have read.
SerializableInSomeOrder ==
    \E place \in Permutations(DOMAIN log) : \A i \in DOMAIN log, r \in Rows :
        LET earlier == {j \in DOMAIN log : place[j] < place[i] /\ r \in log[j].writes}
            latest == CHOOSE k \in earlier : \A l \in earlier : place[l] <= place[k]
        IN  log[i].reads[r] # NoImage =>
                log[i].reads[r] = IF earlier = {} THEN Image(InitVal)
                                  ELSE Image(log[latest].txn)

\* A lease that "has already been extended" (try_renew) is left as it is: none
\* is ever shortened, so that who has read a version up to the end of its lease
\* can rely on it.  The last test of try_renew breaks it.
LeasesKept == [][\A r \in Rows : rts(r)' >= rts(r)]_vars

\* Where it can break: what shortens a lease is neither a writer, whose commit
\* time is past every lease taken before it locked, nor a first swap, nor a
\* lease too long for its field, but only a try_renew whose swap has failed and
\* which goes on although the lease it finds is longer than it needs.
LeaseCutOnRetry ==
    [][\A r \in Rows : rts(r)' < rts(r) =>
          \E t \in Threads : /\ pc[t] = "renew" /\ NextCheck(t).row = r
                            /\ v[t].delta > NewDelta(t, r)]_vars
=============================================================================
