------------------------------- MODULE MCOCC --------------------------------
(* Instances of OCC for TLC. *)
EXTENDS OCC, TLC

RD(r) == [row |-> r, type |-> "RD"]
WR(r) == [row |-> r, type |-> "WR"]

\* Write skew, and transactions that write two rows in opposite orders.
MCQueries == {<<RD(1), WR(2)>>, <<RD(2), WR(1)>>, <<WR(2), WR(1)>>, <<RD(1), RD(2)>>}

Symmetry == Permutations(Threads)
=============================================================================
