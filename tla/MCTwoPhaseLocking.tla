------------------------- MODULE MCTwoPhaseLocking -------------------------
(* Instances of TwoPhaseLocking for TLC.                                   *)
EXTENDS TwoPhaseLocking, TLC

CONSTANTS r1, r2

RD(r) == [row |-> r, type |-> "RD"]
WR(r) == [row |-> r, type |-> "WR"]

\* A reader that becomes a writer of the other row against a writer of both,
\* in the opposite order.
CrossingQueries == {<<WR(r1), WR(r2)>>, <<RD(r2), WR(r1)>>}

\* Writers of both rows in both orders, and a reader that asks for nothing
\* while it has a lock.
WriterQueries == {<<WR(r1), WR(r2)>>, <<WR(r2), WR(r1)>>, <<RD(r1)>>}

Symmetry == Permutations(Threads)
=============================================================================
