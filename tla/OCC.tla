-------------------------------- MODULE OCC ---------------------------------
(***************************************************************************)
(* The OCC build with per-row validation.  A transaction takes a start     *)
(* timestamp, copies every row it accesses under the row's latch           *)
(* (Row_occ::access), and validates by latching all of them in primary-key *)
(* order: none may have been written after the start.  It then takes its   *)
(* end timestamp, writes its rows and gives the latches back.              *)
(*                                                                         *)
(* Copies are made and written under a latch, so a row is one value        *)
(* (WordCnt is 1).                                                         *)
(***************************************************************************)
EXTENDS Optimistic

CONSTANT NoThread

ASSUME NoThreadAssumption == NoThread \notin Threads

VARIABLES
    timestamp,      \* Manager::timestamp: the next one
    latch,          \* the thread that holds _latch of each row
    wts, data,      \* Row_occ::wts and the row
    pc, query,
    row_cnt,        \* accesses made: the first requests of the query
    seen,           \* the copies
    start_ts, end_ts,
    lock_cnt,       \* latches taken by per_row_validate
    released,       \* latches given back
    starts,         \* transactions started so far
    order           \* history: the committed transactions, oldest end first

rowVars == <<latch, wts, data>>
txnVars == <<query, row_cnt, seen, start_ts, end_ts, lock_cnt, released, starts>>
vars == <<timestamp, rowVars, pc, txnVars, order>>

\* The value a transaction writes tells it apart from all others.
Written(t) == start_ts[t]
Goto(t, label) == pc' = [pc EXCEPT ![t] = label]

\* Mutant: the accesses stay in the order in which they were made.
Sorted_access(t) == [i \in DOMAIN query[t] |-> query[t][i].row]

\* The rows accessed, in primary-key order.
Sorted(t) ==
    LET rows == {query[t][i].row : i \in DOMAIN query[t]}
    IN  CHOOSE s \in [DOMAIN query[t] -> rows] :
          \A i, j \in DOMAIN s : i < j => s[i] < s[j]

TypeOf(t, r) == query[t][CHOOSE i \in DOMAIN query[t] : query[t][i].row = r].type

Init ==
    /\ timestamp = 1
    /\ latch = [r \in Rows |-> NoThread]
    /\ wts = [r \in Rows |-> 0]
    /\ data = [r \in Rows |-> Image(InitVal)]
    /\ pc = [t \in Threads |-> "fetch"]
    /\ query = [t \in Threads |-> << >>]
    /\ row_cnt = [t \in Threads |-> 0]
    /\ seen = [t \in Threads |-> NoReads]
    /\ start_ts = [t \in Threads |-> 0]
    /\ end_ts = [t \in Threads |-> 0]
    /\ lock_cnt = [t \in Threads |-> 0]
    /\ released = [t \in Threads |-> 0]
    /\ starts = 0
    /\ order = << >>

\* The transaction is over: what it leaves in its variables is dead.
Clear(t) ==
    /\ query' = [query EXCEPT ![t] = << >>]
    /\ row_cnt' = [row_cnt EXCEPT ![t] = 0]
    /\ seen' = [seen EXCEPT ![t] = NoReads]
    /\ start_ts' = [start_ts EXCEPT ![t] = 0]
    /\ end_ts' = [end_ts EXCEPT ![t] = 0]
    /\ lock_cnt' = [lock_cnt EXCEPT ![t] = 0]
    /\ released' = [released EXCEPT ![t] = 0]
    /\ Goto(t, "fetch")

\* The next query, or one that was aborted, under a new start timestamp.
Fetch(t) ==
    /\ pc[t] = "fetch"
    /\ starts < MaxTxn
    /\ starts' = starts + 1
    /\ \E q \in Queries : query' = [query EXCEPT ![t] = q]
    /\ start_ts' = [start_ts EXCEPT ![t] = timestamp]
    /\ timestamp' = timestamp + 1
    /\ Goto(t, "access")
    /\ UNCHANGED <<rowVars, row_cnt, seen, end_ts, lock_cnt, released, order>>

\* A row written since the start aborts the transaction at once.
Access(t) ==
    /\ pc[t] = "access"
    /\ row_cnt[t] < Len(query[t])
    /\ LET r == query[t][row_cnt[t] + 1].row
       IN  /\ latch[r] = NoThread
           /\ \/ start_ts[t] < wts[r] /\ Clear(t)
              \/ /\ start_ts[t] >= wts[r]
                 /\ row_cnt' = [row_cnt EXCEPT ![t] = @ + 1]
                 /\ seen' = [seen EXCEPT ![t][r] = data[r]]
                 /\ UNCHANGED <<pc, query, start_ts, end_ts, lock_cnt, released>>
    /\ UNCHANGED <<timestamp, rowVars, starts, order>>

----------------------------------------------------------------------------
(* OptCC::per_row_validate.                                                *)

\* Mutant: what was read is not looked at again.
Validate_nothing(t, r) == TRUE

\* Row_occ::validate
Validate(t, r) == start_ts[t] >= wts[r]

\* Mutant: the latch of the row that fails is not counted.
Counted_valid(t, r) == IF Validate(t, r) THEN lock_cnt[t] + 1 ELSE lock_cnt[t]

Counted(t, r) == lock_cnt[t] + 1

\* A row that fails ends the validation; cleanup(Abort) drops the copies.
LatchRow(t) ==
    /\ pc[t] = "access"
    /\ row_cnt[t] = Len(query[t])
    /\ lock_cnt[t] < row_cnt[t]
    /\ LET r == Sorted(t)[lock_cnt[t] + 1]
       IN  /\ latch[r] = NoThread
           /\ latch' = [latch EXCEPT ![r] = t]
           /\ lock_cnt' = [lock_cnt EXCEPT ![t] = Counted(t, r)]
           /\ IF Validate(t, r) THEN UNCHANGED <<pc, row_cnt>>
              ELSE Goto(t, "release") /\ row_cnt' = [row_cnt EXCEPT ![t] = 0]
    /\ UNCHANGED <<timestamp, wts, data, query, seen, start_ts, end_ts, released,
                   starts, order>>

\* All rows are latched and valid: the transaction is committed.
GetEndTs(t) ==
    /\ pc[t] = "access"
    /\ row_cnt[t] = Len(query[t]) /\ lock_cnt[t] = row_cnt[t]
    /\ end_ts' = [end_ts EXCEPT ![t] = timestamp]
    /\ timestamp' = timestamp + 1
    /\ order' = Append(order, [txn |-> Written(t), reads |-> seen[t],
                               writes |-> RowsOf(query[t], "WR")])
    /\ Goto(t, "cleanup")
    /\ UNCHANGED <<rowVars, query, row_cnt, seen, start_ts, lock_cnt, released, starts>>

\* Mutant: the row keeps its timestamp.
Stamp_kept(t, r) == wts[r]
Stamp(t, r) == end_ts[t]

\* cleanup(RCOK) gives the rows back, the last one first; Row_occ::write.
ReturnRow(t) ==
    /\ pc[t] = "cleanup"
    /\ LET r == Sorted(t)[row_cnt[t]]
       IN  IF TypeOf(t, r) = "WR"
           THEN /\ data' = [data EXCEPT ![r] = Image(Written(t))]
                /\ wts' = [wts EXCEPT ![r] = Stamp(t, r)]
           ELSE UNCHANGED <<data, wts>>
    /\ row_cnt' = [row_cnt EXCEPT ![t] = @ - 1]
    /\ IF row_cnt[t] = 1 THEN Goto(t, "release") ELSE UNCHANGED pc
    /\ UNCHANGED <<timestamp, latch, query, seen, start_ts, end_ts, lock_cnt,
                   released, starts, order>>

\* The latches go, the first one first.
Release(t) ==
    /\ pc[t] = "release"
    /\ latch' = [latch EXCEPT ![Sorted(t)[released[t] + 1]] = NoThread]
    /\ \/ released[t] + 1 = lock_cnt[t] /\ Clear(t)
       \/ /\ released[t] + 1 < lock_cnt[t]
          /\ released' = [released EXCEPT ![t] = @ + 1]
          /\ UNCHANGED <<pc, query, row_cnt, seen, start_ts, end_ts, lock_cnt>>
    /\ UNCHANGED <<timestamp, wts, data, starts, order>>

Terminated ==
    /\ starts = MaxTxn
    /\ \A t \in Threads : pc[t] = "fetch"
    /\ UNCHANGED vars

Next ==
    \/ \E t \in Threads :
          \/ Fetch(t) \/ Access(t) \/ LatchRow(t) \/ GetEndTs(t) \/ ReturnRow(t)
          \/ Release(t)
    \/ Terminated

Spec == Init /\ [][Next]_vars

----------------------------------------------------------------------------
(* Properties.                                                             *)

\* The last committed transaction before place i that wrote r.
Writers(i, r) == {j \in 1..(i - 1) : r \in order[j].writes}

ImageBefore(i, r) ==
    IF Writers(i, r) = {} THEN Image(InitVal)
    ELSE LET j == CHOOSE k \in Writers(i, r) : \A l \in Writers(i, r) : l <= k
         IN  Image(order[j].txn)

\* Serializability in the order of the end timestamps: what a committed
\* transaction has copied, at different times and without latches held, is
\* what it would have read had it run alone at its end.
Serializable ==
    \A i \in DOMAIN order : \A r \in Rows :
        order[i].reads[r] # NoImage => order[i].reads[r] = ImageBefore(i, r)

\* A write raises the row's timestamp (the assertion of Row_occ::write),
\* whoever has written the row between this transaction's start and its end.
WtsGrows == [][\A r \in Rows : data'[r] # data[r] => wts'[r] > wts[r]]_vars

\* A latch is held by a transaction that is validating or giving back and that
\* will come to release it: none is left behind by a validation that fails
\* half-way.
LatchesGivenBack ==
    \A r \in Rows : latch[r] # NoThread =>
        LET t == latch[r]
        IN  /\ pc[t] # "fetch"
            /\ \E i \in (released[t] + 1)..lock_cnt[t] : Sorted(t)[i] = r

\* Those that wait for latches while they hold some wait in no circle: the
\* accesses are sorted first.
Blocked(t, u) ==
    /\ pc[t] = "access" /\ row_cnt[t] = Len(query[t]) /\ lock_cnt[t] < row_cnt[t]
    /\ latch[Sorted(t)[lock_cnt[t] + 1]] = u

NoLatchCycle ==
    \A S \in SUBSET Threads :
        S # {} => \E t \in S : \A u \in S : ~ Blocked(t, u)
=============================================================================
