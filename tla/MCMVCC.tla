------------------------------- MODULE MCMVCC -------------------------------
(* Instances of MVCC for TLC. *)
EXTENDS MVCC, TLC

CONSTANTS t0, t1, t2

RD(r) == [row |-> r, type |-> "RD"]
WR(r) == [row |-> r, type |-> "WR"]

\* Two threads, which fill and recycle a history, and deal with two rows; three,
\* of which two wait for the third.
MCSetups ==
    {[threads |-> {t0, t1},
      queries |-> {<<RD(1), WR(2)>>, <<WR(2), WR(1)>>, <<RD(2)>>}],
     [threads |-> {t0, t1, t2},
      queries |-> {<<RD(1)>>, <<WR(1)>>}]}

Symmetry == Permutations({t1, t2})
=============================================================================
