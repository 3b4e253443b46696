---------------------------- MODULE SerialStore ----------------------------
(***************************************************************************)
(* What the lock-based builds promise their workloads: a table whose       *)
(* transactions happen one at a time.  A commit is one indivisible step    *)
(* that reads and overwrites the rows a query names; result[t] is what the *)
(* transaction of thread t has read, from its commit until run_txn         *)
(* returns.  An aborted transaction leaves no trace at all.                *)
(***************************************************************************)
CONSTANTS
    Threads, Rows, Values,
    Queries,    \* sequences of requests [row, type], type "RD" or "WR"
    InitVal,    \* what the loader put in every row
    NoVal       \* "this row was not read"

VARIABLES store, result

NoReads == [r \in Rows |-> NoVal]

\* The rows q reads, or writes.
RowsOf(q, type) == {q[i].row : i \in {j \in DOMAIN q : q[j].type = type}}

Init ==
    /\ store = [r \in Rows |-> InitVal]
    /\ result = [t \in Threads |-> NoReads]

Commit(t, q, v) ==
    /\ result[t] = NoReads
    /\ result' = [result EXCEPT
                    ![t] = [r \in Rows |-> IF r \in RowsOf(q, "RD") THEN store[r] ELSE NoVal]]
    /\ store' = [r \in Rows |-> IF r \in RowsOf(q, "WR") THEN v ELSE store[r]]

Return(t) ==
    /\ result' = [result EXCEPT ![t] = NoReads]
    /\ UNCHANGED store

Next ==
    \E t \in Threads :
        \/ \E q \in Queries, v \in Values : Commit(t, q, v)
        \/ Return(t)

Spec == Init /\ [][Next]_<<store, result>>
=============================================================================
