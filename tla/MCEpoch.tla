------------------------------ MODULE MCEpoch -------------------------------
(* Instances of Epoch for TLC. *)
EXTENDS Epoch, TLC

Symmetry == Permutations(Threads) \cup Permutations(Nodes)

\* While a thread is in ebr_sync, at most one other is registered.
SyncBesideOne ==
    \A t \in Threads : target[t] # 0 =>
        \E u \in Threads \ {t} : pc[u] \in {"new", "exited"}
=============================================================================
