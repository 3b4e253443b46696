------------------------------- MODULE MCSilo -------------------------------
(* Instances of Silo for TLC.                                              *)
EXTENDS Silo, TLC

RD(r) == [row |-> r, type |-> "RD"]
WR(r) == [row |-> r, type |-> "WR"]

\* Write skew, two transactions that read what the other one writes; and two
\* that write both rows, in opposite orders.
SkewQueries == {<<RD(1), WR(2)>>, <<RD(2), WR(1)>>,
                <<WR(1), WR(2)>>, <<WR(2), WR(1)>>}

\* Two of the four combinations: the settings of config.h, and both opposites.
BothSettings == {[pre_abort |-> TRUE, no_wait |-> TRUE],
                 [pre_abort |-> FALSE, no_wait |-> FALSE]}

Symmetry == Permutations(Threads)
=============================================================================
