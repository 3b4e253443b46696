---------------------------- MODULE MCBSkiplist -----------------------------
(* Instances of BSkiplist for TLC. *)
EXTENDS BSkiplist, TLC

MCKeys == 1..6
MCLevelOf == <<0, 0, 2, 1, 1, 2>>

Call(op, k) == [op |-> op, key |-> k]
Ins(k) == Call("insert", k)
Del(k) == Call("delete", k)
Get(k) == Call("get", k)
Scan(k) == Call("scan", k)

\* The loader, thread 0, inserts the keys of load; then thread i makes calls[i].
Plan(load, calls) ==
    [t \in 0..Len(calls) |->
        IF t = 0 THEN [i \in DOMAIN load |-> Ins(load[i])] ELSE <<calls[t]>>]

\* Keys 3 and 6 reach the top level, 4 and 5 the one below, where they fill
\* the node that 3 heads; 1 and 2 fill a leaf.
MCPlans ==
    {Plan(<<1, 2, 3, 4>>, <<a, b, c>>) :
        a \in {Ins(3), Del(3)}, b \in {Ins(2), Del(2), Del(3), Ins(4), Del(4)},
        c \in {Get(3), Scan(2)}}
    \cup {Plan(<<1, 2, 4>>, <<Ins(3), b, c>>) :
            b \in {Ins(3), Del(3), Del(2), Ins(4), Del(4)}, c \in {Get(4), Scan(2)}}
    \cup {Plan(<<1, 2, 3>>, <<Del(3), b, c>>) :
            b \in {Ins(3), Ins(4)}, c \in {Ins(3), Del(3), Del(2), Scan(4)}}
    \cup {Plan(<<6, 3, 4>>, <<Ins(5), b, c>>) :
            b \in {Del(4), Del(3)}, c \in {Get(4), Scan(4)}}
    \cup {[Plan(<<1, 2, 3, 4>>, <<Del(3), b, c>>) EXCEPT ![1] = Append(@, Ins(3))] :
            b \in {Del(3)}, c \in {Get(3), Scan(2)}}
=============================================================================
