----------------------------- MODULE Optimistic -----------------------------
(***************************************************************************)
(* What the optimistic builds (SILO, TICTOC) have in common: a transaction *)
(* works on copies of rows, word by word, splits its accesses into a read  *)
(* set and a write set, and locks the write set in primary-key order.      *)
(***************************************************************************)
EXTENDS Integers, Sequences, FiniteSets

CONSTANTS
    Threads,
    Rows,           \* primary keys of the rows
    WordCnt,        \* words of a row
    Queries,        \* sequences of requests [row, type]
    InitVal, NoVal,
    MaxTxn          \* transactions after which the run stops

Request == [row : Rows, type : {"RD", "WR"}]

ASSUME RowsAssumption == Rows \subseteq Nat
ASSUME FiniteRowsAssumption == IsFiniteSet(Rows)

\* A row is accessed once: the query generators never repeat a key.
ASSUME QueriesAssumption ==
    \A q \in Queries :
        /\ q \in Seq(Request)
        /\ q # << >>
        /\ \A i, j \in DOMAIN q : q[i].row = q[j].row => i = j

ASSUME BoundsAssumption ==
    /\ WordCnt \in Nat \ {0}
    /\ MaxTxn \in Nat \ {0}

Words == 1..WordCnt

\* A transaction writes one value, its own, to every word of a row.
Image(val) == [w \in Words |-> val]
NoImage == Image(NoVal)
NoReads == [r \in Rows |-> NoImage]

RowsOf(q, type) == {q[i].row : i \in {j \in DOMAIN q : q[j].type = type}}

\* The row with the smallest primary key.
Lowest(S) == CHOOSE r \in S : \A s \in S : r <= s
=============================================================================
