------------------------------ MODULE IndexMap ------------------------------
(***************************************************************************)
(* What an index promises its callers: every call takes effect at one      *)
(* moment between its start and its return.  Calls on different keys do    *)
(* not interfere, so the promise is stated for the calls on one key.  The  *)
(* key has a chain of items; index_insert of a key that is there puts its  *)
(* item in front of the others (itemid_t::next).                           *)
(***************************************************************************)
EXTENDS Integers, SequencesExt

\* A call of a history, in the order in which the calls returned; the first
\* `since` calls of the history had returned when it began.
Entry(thread, op, found, items, since) ==
    [thread |-> thread, op |-> op, found |-> found, items |-> items, since |-> since]

\* One call after another on the chain of the key: s.ok as long as the calls
\* return what they returned.
Apply(s, e) ==
    CASE e.op = "insert" -> [items |-> <<e.thread>> \o s.items, ok |-> s.ok /\ e.found]
      [] e.op = "delete" -> [items |-> << >>, ok |-> s.ok /\ (e.found <=> s.items # << >>)]
      [] e.op = "get" -> [s EXCEPT !.ok = @ /\ e.items = s.items
                                            /\ (e.found <=> s.items # << >>)]

\* The orders of n calls.
Orders(n) == {p \in [1..n -> 1..n] : \A i, j \in 1..n : p[i] = p[j] => i = j}

\* Some order of the calls keeps those apart that did not overlap, gives each
\* call its result and leaves the chain as it is.
LinearizableHistory(history, before, after) ==
    \E p \in Orders(Len(history)) :
        /\ \A i, j \in DOMAIN history : i < j => p[j] > history[p[i]].since
        /\ FoldLeft(Apply, [items |-> before, ok |-> TRUE],
                    [i \in DOMAIN history |-> history[p[i]]])
           = [items |-> after, ok |-> TRUE]
=============================================================================
