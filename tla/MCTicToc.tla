------------------------------ MODULE MCTicToc ------------------------------
(* Instances of TicToc for TLC.                                            *)
EXTENDS TicToc, TLC

RD(r) == [row |-> r, type |-> "RD"]
WR(r) == [row |-> r, type |-> "WR"]

\* Two transactions, one after the other, that give rows 1 and 2 the times 1 and 2.
\* From then on leases of several lengths are asked for on a row.
WarmUp == <<<<WR(1), WR(2)>>, <<WR(2)>>>>

\* Two that read what the other one writes, and one that only reads, so that two
\* may renew the lease of row 1 at once.
SkewQueries == {<<RD(1), WR(2)>>, <<RD(2), WR(1)>>, <<RD(1), RD(2)>>}

WarmQueries == SkewQueries \cup {WarmUp[i] : i \in DOMAIN WarmUp}

\* The warm-up runs alone, and there is one reader of both rows at a time.
AfterWarmUp ==
    /\ \A t \in Threads : id[t] # 0 =>
          IF id[t] \in DOMAIN WarmUp THEN query[t] = WarmUp[id[t]]
                                     ELSE query[t] \in SkewQueries
    /\ \A t, u \in Threads : id[t] \in DOMAIN WarmUp /\ id[u] # 0 => t = u
    /\ \A t, u \in Threads : query[t] = <<RD(1), RD(2)>> /\ query[u] = query[t] => t = u

\* Two of the four combinations: the settings of config.h, and both opposites.
BothSettings == {[pre_abort |-> TRUE, no_wait |-> TRUE],
                 [pre_abort |-> FALSE, no_wait |-> FALSE]}

OnlySettings == {[pre_abort |-> TRUE, no_wait |-> TRUE]}

\* A play for three threads.  The first four transactions, one after the other, give
\* rows 1, 2 and 3 the times 2, 4 and 2; then one reads row 1 and writes row 2, one
\* reads row 1 and writes row 3, and one reads row 2 and writes row 1, all at once.
Play == <<<<WR(1), WR(2), WR(3)>>, <<WR(1), WR(2), WR(3)>>, <<WR(2)>>, <<WR(2)>>,
          <<RD(1), WR(2)>>, <<RD(1), WR(3)>>, <<RD(2), WR(1)>>>>
Prelude == 1..4

PlayQueries == {Play[i] : i \in DOMAIN Play}
ByThePlay ==
    /\ \A t \in Threads : id[t] # 0 => query[t] = Play[id[t]]
    /\ \A t, u \in Threads : id[t] \in Prelude /\ id[u] # 0 => t = u

Symmetry == Permutations(Threads)
=============================================================================
