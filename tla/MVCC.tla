-------------------------------- MODULE MVCC --------------------------------
(***************************************************************************)
(* The MVCC build: multi-version timestamp ordering.  A transaction has    *)
(* one timestamp, reads the youngest version older than it, and reserves a *)
(* version of each row it writes (P_REQ) that is filled in at commit       *)
(* (W_REQ) or dropped (XP_REQ).  Requests that come between a reservation  *)
(* and its end wait in the row.  Versions live in a short history; when it *)
(* is full, old ones are recycled (Row_mvcc::reserveRow).                  *)
(*                                                                         *)
(* Row_mvcc::access runs under the row's latch and is one step.  A read    *)
(* returns the version itself, not a copy: the transaction looks at it in  *)
(* a step of its own.  Versions are named by the timestamp of their        *)
(* writer; a buffer (row_t) holds one version after another.               *)
(***************************************************************************)
EXTENDS Integers, FiniteSets, SequencesExt

CONSTANTS
    Threads, Thread0,   \* thread 0 is the one that refreshes _min_ts
    Rows,
    Setups,             \* command lines: [threads, queries], the g_thread_cnt
                        \* threads that run, and the queries they are given
    HisLen,             \* _his_len to start with: 4 in the code
    TsWrap,             \* values of a uint32_t
    NoBuf,
    NoTs,               \* UINT64_MAX
    MaxTxn              \* transactions started in a run

ASSUME SetupsAssumption ==
    \A s \in Setups : Thread0 \in s.threads /\ s.threads \subseteq Threads

\* A query is a sequence of requests [row, type], one for a row.
ASSUME QueriesAssumption ==
    \A s \in Setups : \A q \in s.queries :
        /\ q \in Seq([row : Rows, type : {"RD", "WR"}])
        /\ q # << >>
        /\ \A i, j \in DOMAIN q : q[i].row = q[j].row => i = j

ASSUME MvccAssumption ==
    /\ HisLen \in Nat \ {0} /\ NoBuf \notin Nat
    /\ TsWrap \in Nat \ {0} /\ NoTs \in Nat
    /\ MaxTxn \in Nat /\ 2 * MaxTxn < NoTs

VARIABLES
    setup,
    timestamp,      \* Manager::timestamp
    all_ts, min_ts, \* Manager: the timestamp each thread runs under, _min_ts
    mvcc,           \* the Row_mvcc of each row
    pc, query, ts,
    row_cnt,        \* requests whose row the transaction has got
    held,           \* the buffers it has got, one per request
    seen,           \* the versions it has read
    lost,           \* history: a buffer was recycled before it was read
    starts,
    committed       \* history: [ts, reads, writes, lost] of each commit

txnVars == <<query, ts, row_cnt, held, seen, lost, starts>>
vars == <<setup, timestamp, all_ts, min_ts, mvcc, pc, txnVars, committed>>

Req(t) == query[t][row_cnt[t] + 1]
Goto(t, label) == pc' = [pc EXCEPT ![t] = label]

----------------------------------------------------------------------------
(* Row_mvcc.                                                               *)

Empty == [valid |-> FALSE, reserved |-> FALSE, ts |-> 0, buf |-> NoBuf]

\* data: the version in each buffer; buffer 1 is the row itself.
InitRow ==
    [base |-> 1, latest |-> 1, latest_wts |-> 0, oldest_wts |-> 0,
     hist |-> [i \in 1..HisLen |-> Empty], num_versions |-> 0,
     prewrite_ts |-> NoTs, prewrite_id |-> 0, max_served_rts |-> 0,
     requests |-> {}, data |-> <<0>>]

ExistsPrewrite(m) == m.prewrite_ts # NoTs
Valid(m) == {i \in DOMAIN m.hist : m.hist[i].valid}
Unused(m) == {i \in DOMAIN m.hist : ~ m.hist[i].valid /\ ~ m.hist[i].reserved}

\* The slots of S by their timestamps.
Oldest(m, S) == CHOOSE i \in S : \A j \in S : m.hist[i].ts <= m.hist[j].ts
Youngest(m, S) == CHOOSE i \in S : \A j \in S : m.hist[i].ts >= m.hist[j].ts

\* Versions no running transaction can ask for; the youngest of them becomes
\* the base.
Collected(m, min) ==
    LET S == {i \in Valid(m) : m.hist[i].ts < min}
        k == Youngest(m, S)
    IN  IF ~ (m.oldest_wts < min /\ m.num_versions = Len(m.hist)) \/ S = {} THEN m
        ELSE [m EXCEPT
                !.base = m.hist[k].buf,
                !.oldest_wts = m.hist[k].ts,
                !.num_versions = @ - Cardinality(S),
                !.hist = [i \in DOMAIN m.hist |->
                            IF i \notin S THEN m.hist[i]
                            ELSE [m.hist[i] EXCEPT !.valid = FALSE, !.reserved = FALSE,
                                    !.buf = IF i = k THEN m.base ELSE @]]]

\* An unused slot, one that has a buffer if there is one.
UnusedSlot(m) ==
    LET S == {i \in Unused(m) : m.hist[i].buf # NoBuf}
    IN  IF S # {} THEN Min(S) ELSE Max(Unused(m))

\* Mutant: the version given up is still counted.
Recycled_counted(m) ==
    LET k == Oldest(m, Valid(m))
    IN  [m EXCEPT !.base = m.hist[k].buf, !.oldest_wts = m.hist[k].ts,
                  !.hist[k].buf = m.base, !.prewrite_id = k]

\* The history is full and long enough: the oldest version becomes the base,
\* and the base is given up.
Recycled(m) ==
    LET k == Oldest(m, Valid(m))
    IN  [m EXCEPT !.base = m.hist[k].buf, !.oldest_wts = m.hist[k].ts,
                  !.num_versions = @ - 1,
                  !.hist[k].buf = m.base, !.prewrite_id = k]

Doubled(m) ==
    [m EXCEPT !.hist = @ \o [i \in DOMAIN @ |-> Empty],
              !.prewrite_id = Len(m.hist) + 1]

\* The slot found, prewrite_id, is taken, with its buffer or a new one, into which
\* the callers copy the latest version.
SlotReserved(n, at) ==
    LET k == n.prewrite_id
        new == n.hist[k].buf = NoBuf
        b == IF new THEN Len(n.data) + 1 ELSE n.hist[k].buf
        copy == n.data[n.latest]
    IN  [n EXCEPT !.hist[k] = [valid |-> FALSE, reserved |-> TRUE, ts |-> at, buf |-> b],
                  !.prewrite_ts = at,
                  !.data = IF new THEN Append(@, copy) ELSE [@ EXCEPT ![b] = copy]]

\* reserveRow
Reserved(m0, at, min) ==
    LET m == Collected(m0, min)
    IN  SlotReserved(IF m.num_versions < Len(m.hist)
                     THEN [m EXCEPT !.prewrite_id = UnusedSlot(m)]
                     ELSE IF Len(m.hist) >= Cardinality(setup.threads) THEN Recycled(m)
                     ELSE Doubled(m), at)

ReservedBuf(m) == m.hist[m.prewrite_id].buf

\* Mutant: the search ends with the first older version it meets.
VersionFor_first(m, at) ==
    LET S == {i \in Valid(m) : m.hist[i].ts < at}
    IN  IF S = {} THEN m.base ELSE m.hist[Min(S)].buf

\* The version a transaction reads below the latest one; the_ts is 32 bits wide.
VersionFor(m, at) ==
    LET best[n \in 0..Len(m.hist)] ==
          IF n = 0 THEN [the_ts |-> 0, buf |-> m.base]
          ELSE IF m.hist[n].valid /\ m.hist[n].ts < at /\ m.hist[n].ts > best[n - 1].the_ts
               THEN [the_ts |-> m.hist[n].ts % TsWrap, buf |-> m.hist[n].buf]
               ELSE best[n - 1]
    IN  best[Len(m.hist)].buf

\* Mutant: the last prewrite goes first.
NextPrewrite_last(m) ==
    LET W == {ts[u] : u \in {p \in m.requests : Req(p).type = "WR"}}
    IN  IF W = {} THEN NoTs ELSE Max(W)

\* The requests that the end of a reservation lets go: the first prewrite and
\* the reads before it.
Prewrites(m) == {ts[u] : u \in {p \in m.requests : Req(p).type = "WR"}}

NextPrewrite(m) == Min({NoTs} \cup Prewrites(m))

ReadsLetGo(m) == {u \in m.requests : Req(u).type = "RD" /\ ts[u] < NextPrewrite(m)}

PrewriteLetGo(m) == {u \in m.requests : ts[u] = NextPrewrite(m)}

\* update_buffer
Updated(m, min) ==
    LET R == ReadsLetGo(m)
        P == PrewriteLetGo(m)
        n == [m EXCEPT !.requests = @ \ (R \cup P),
                       !.max_served_rts = Max({@} \cup {ts[u] : u \in R})]
    IN  IF P = {} THEN n ELSE Reserved(n, NextPrewrite(m), min)

----------------------------------------------------------------------------
Init ==
    /\ setup \in Setups
    /\ timestamp = 1
    /\ all_ts = [t \in Threads |-> NoTs]
    /\ min_ts = 0
    /\ mvcc = [r \in Rows |-> InitRow]
    /\ pc = [t \in Threads |-> "start"]
    /\ query = [t \in Threads |-> << >>]
    /\ ts = [t \in Threads |-> 0]
    /\ row_cnt = [t \in Threads |-> 0]
    /\ held = [t \in Threads |-> << >>]
    /\ seen = [t \in Threads |-> << >>]
    /\ lost = [t \in Threads |-> FALSE]
    /\ starts = 0
    /\ committed = {}

\* The next query, or one that was aborted, under a new timestamp ...
Start(t) ==
    /\ pc[t] = "start"
    /\ t \in setup.threads
    /\ starts < MaxTxn
    /\ starts' = starts + 1
    /\ \E q \in setup.queries : query' = [query EXCEPT ![t] = q]
    /\ ts' = [ts EXCEPT ![t] = timestamp]
    /\ timestamp' = timestamp + 1
    /\ Goto(t, "add_ts")
    /\ UNCHANGED <<setup, all_ts, min_ts, mvcc, row_cnt, held, seen, lost, committed>>

\* ... which the others get to know of later.
AddTs(t) ==
    /\ pc[t] = "add_ts"
    /\ all_ts' = [all_ts EXCEPT ![t] = ts[t]]
    /\ Goto(t, "access")
    /\ UNCHANGED <<setup, timestamp, min_ts, mvcc, txnVars, committed>>

\* get_min_ts: thread 0 looks again once MIN_TS_INTVL has passed, at one thread
\* after the other; those it has looked at first may have gone on since.
MinTs(t) ==
    min_ts..(IF t = Thread0 THEN Max({min_ts, Min(Range(all_ts))}) ELSE min_ts)

\* The threads of S go on with what they have been given: buffer b.
Give(S, b) == held' = [u \in Threads |-> IF u \in S THEN Append(held[u], b) ELSE held[u]]

\* A reader that has not looked at its buffer of r yet loses it when b is
\* taken for a new version.
Overwritten(r, b) ==
    {u \in Threads : /\ pc[u] = "use"
                     /\ Req(u) = [row |-> r, type |-> "RD"]
                     /\ Last(held[u]) = b}

AtRow(t, type) == pc[t] = "access" /\ row_cnt[t] < Len(query[t]) /\ Req(t).type = type

----------------------------------------------------------------------------
(* Row_mvcc::access, R_REQ.                                                *)

ReadAbort(t) ==
    /\ AtRow(t, "RD")
    /\ ts[t] < mvcc[Req(t).row].oldest_wts
    /\ Goto(t, "abort")
    /\ UNCHANGED <<setup, timestamp, all_ts, min_ts, mvcc, txnVars, committed>>

ReadWait(t) ==
    /\ AtRow(t, "RD")
    /\ LET m == mvcc[Req(t).row]
       IN  ts[t] > m.latest_wts /\ ts[t] > m.prewrite_ts
    /\ mvcc' = [mvcc EXCEPT ![Req(t).row].requests = @ \cup {t}]
    /\ Goto(t, "wait")
    /\ UNCHANGED <<setup, timestamp, all_ts, min_ts, txnVars, committed>>

ReadLatest(t) ==
    /\ AtRow(t, "RD")
    /\ LET m == mvcc[Req(t).row]
       IN  /\ ts[t] > m.latest_wts /\ ts[t] <= m.prewrite_ts
           /\ mvcc' = [mvcc EXCEPT ![Req(t).row].max_served_rts = Max({@, ts[t]})]
           /\ Give({t}, m.latest)
    /\ Goto(t, "use")
    /\ UNCHANGED <<setup, timestamp, all_ts, min_ts, query, ts, row_cnt, seen, lost, starts,
                   committed>>

ReadVersion(t) ==
    /\ AtRow(t, "RD")
    /\ LET m == mvcc[Req(t).row]
       IN  /\ m.oldest_wts <= ts[t] /\ ts[t] <= m.latest_wts
           /\ Give({t}, VersionFor(m, ts[t]))
    /\ Goto(t, "use")
    /\ UNCHANGED <<setup, timestamp, all_ts, min_ts, mvcc, query, ts, row_cnt, seen, lost,
                   starts, committed>>

----------------------------------------------------------------------------
(* P_REQ.                                                                  *)

\* Mutant: a prewrite may come after a younger read.
TooLate_reads(m, at) ==
    at < m.latest_wts \/ (ExistsPrewrite(m) /\ m.prewrite_ts > at)

TooLate(m, at) ==
    \/ at < m.latest_wts
    \/ at < m.max_served_rts
    \/ ExistsPrewrite(m) /\ m.prewrite_ts > at

PrewriteAbort(t) ==
    /\ AtRow(t, "WR")
    /\ TooLate(mvcc[Req(t).row], ts[t])
    /\ Goto(t, "abort")
    /\ UNCHANGED <<setup, timestamp, all_ts, min_ts, mvcc, txnVars, committed>>

PrewriteWait(t) ==
    /\ AtRow(t, "WR")
    /\ LET m == mvcc[Req(t).row] IN ~ TooLate(m, ts[t]) /\ ExistsPrewrite(m)
    /\ mvcc' = [mvcc EXCEPT ![Req(t).row].requests = @ \cup {t}]
    /\ Goto(t, "wait")
    /\ UNCHANGED <<setup, timestamp, all_ts, min_ts, txnVars, committed>>

Prewrite(t) ==
    /\ AtRow(t, "WR")
    /\ LET r == Req(t).row
           m == mvcc[r]
       IN  /\ ~ TooLate(m, ts[t]) /\ ~ ExistsPrewrite(m)
           /\ min_ts' \in MinTs(t)
           /\ LET n == Reserved(m, ts[t], min_ts')
              IN  /\ mvcc' = [mvcc EXCEPT ![r] = n]
                  /\ Give({t}, ReservedBuf(n))
                  /\ lost' = [u \in Threads |->
                                lost[u] \/ u \in Overwritten(r, ReservedBuf(n))]
    /\ Goto(t, "use")
    /\ UNCHANGED <<setup, timestamp, all_ts, query, ts, row_cnt, seen, starts, committed>>

\* The workload looks at what it has got, and writes to the version reserved, as
\* TPC-C does.
Use(t) ==
    /\ pc[t] = "use"
    /\ LET r == Req(t).row
           b == Last(held[t])
       IN  /\ seen' = [seen EXCEPT ![t] = Append(@, mvcc[r].data[b])]
           /\ mvcc' = IF Req(t).type = "RD" THEN mvcc
                      ELSE [mvcc EXCEPT ![r].data[b] = ts[t]]
    /\ row_cnt' = [row_cnt EXCEPT ![t] = @ + 1]
    /\ Goto(t, "access")
    /\ UNCHANGED <<setup, timestamp, all_ts, min_ts, query, ts, held, lost, starts, committed>>

----------------------------------------------------------------------------
(* cleanup, the last access first: W_REQ or XP_REQ for the rows written.   *)

ReadsOf(t) == [r \in {query[t][i].row : i \in DOMAIN query[t]} |->
                 seen[t][CHOOSE i \in DOMAIN query[t] : query[t][i].row = r]]
WritesOf(t) == {query[t][i].row : i \in {j \in DOMAIN query[t] : query[t][j].type = "WR"}}

Commit(t) ==
    /\ pc[t] = "access"
    /\ row_cnt[t] = Len(query[t])
    /\ committed' = committed \cup {[ts |-> ts[t], reads |-> ReadsOf(t),
                                     writes |-> WritesOf(t), lost |-> lost[t]]}
    /\ Goto(t, "commit")
    /\ UNCHANGED <<setup, timestamp, all_ts, min_ts, mvcc, txnVars>>

\* The row as W_REQ or XP_REQ leaves it before update_buffer.
Installed(m, at) ==
    [m EXCEPT !.hist[m.prewrite_id] = [@ EXCEPT !.valid = TRUE, !.ts = at],
              !.latest_wts = at, !.latest = ReservedBuf(m),
              !.prewrite_ts = NoTs, !.num_versions = @ + 1]

Dropped(m) ==
    [m EXCEPT !.hist[m.prewrite_id] = [@ EXCEPT !.valid = FALSE, !.reserved = FALSE],
              !.prewrite_ts = NoTs]

\* The reservation of t on r ends, and leaves m0.
Return(t, r, m0) ==
    /\ IF PrewriteLetGo(m0) = {} THEN UNCHANGED min_ts ELSE min_ts' \in MinTs(t)
    /\ LET n == Updated(m0, min_ts')
           R == ReadsLetGo(m0)
           P == PrewriteLetGo(m0)
       IN  /\ mvcc' = [mvcc EXCEPT ![r] = n]
           /\ held' = [u \in Threads |->
                         IF u \in R THEN Append(held[u], m0.latest)
                         ELSE IF u \in P THEN Append(held[u], ReservedBuf(n)) ELSE held[u]]
           /\ pc' = [u \in Threads |-> IF u \in R \cup P THEN "use" ELSE pc[u]]
           /\ lost' = [u \in Threads |->
                         lost[u] \/ (P # {} /\ u \in Overwritten(r, ReservedBuf(n)))]

\* The rows still to return that were written; for a row read, return_row does
\* nothing.
ToReturn(t) == {i \in 1..row_cnt[t] : query[t][i].type = "WR"}

ReturnRow(t) ==
    /\ pc[t] \in {"commit", "abort"}
    /\ ToReturn(t) # {}
    /\ LET i == Max(ToReturn(t))
           r == query[t][i].row
           m == mvcc[r]
       IN  /\ Return(t, r, IF pc[t] = "commit" THEN Installed(m, ts[t]) ELSE Dropped(m))
           /\ row_cnt' = [row_cnt EXCEPT ![t] = i - 1]
    /\ UNCHANGED <<setup, timestamp, all_ts, query, ts, seen, starts, committed>>

\* What the transaction leaves in its variables is dead, all_ts apart.
Finish(t) ==
    /\ pc[t] \in {"commit", "abort"}
    /\ ToReturn(t) = {}
    /\ row_cnt' = [row_cnt EXCEPT ![t] = 0]
    /\ query' = [query EXCEPT ![t] = << >>]
    /\ ts' = [ts EXCEPT ![t] = 0]
    /\ held' = [held EXCEPT ![t] = << >>]
    /\ seen' = [seen EXCEPT ![t] = << >>]
    /\ lost' = [lost EXCEPT ![t] = FALSE]
    /\ Goto(t, "start")
    /\ UNCHANGED <<setup, timestamp, all_ts, min_ts, mvcc, starts, committed>>

Step(t) ==
    \/ Start(t) \/ AddTs(t) \/ ReadAbort(t) \/ ReadWait(t) \/ ReadLatest(t)
    \/ ReadVersion(t) \/ PrewriteAbort(t) \/ PrewriteWait(t) \/ Prewrite(t)
    \/ Use(t) \/ Commit(t) \/ ReturnRow(t) \/ Finish(t)

Terminated ==
    /\ starts = MaxTxn
    /\ \A t \in Threads : pc[t] = "start"
    /\ UNCHANGED vars

Next == (\E t \in Threads : Step(t)) \/ Terminated

Spec == Init /\ [][Next]_vars

----------------------------------------------------------------------------
(* Properties.                                                             *)

\* The version of r a transaction of timestamp at must see.
VersionBefore(r, at) ==
    Max({0} \cup {c.ts : c \in {d \in committed : r \in d.writes /\ d.ts < at}})

\* Serializability in timestamp order: a committed transaction has read, row by
\* row and whenever it came, what the transactions with smaller timestamps left
\* there, also those that finished later.
SerializableByTs(c) == \A r \in DOMAIN c.reads : c.reads[r] = VersionBefore(r, c.ts)

\* All committed transactions are serializable, save those that had a version
\* recycled in their hands.
Serializable == \A c \in committed : c.lost \/ SerializableByTs(c)

\* What row_mvcc.h says of those, "If a request accesses an old version that has
\* been recycled, simply abort the request": so every one that commits is
\* serializable.
RecycledAborts == \A c \in committed : SerializableByTs(c)

\* "ts is between _oldest_wts and _latest_wts, should find the correct version": for
\* a reader of that age the search comes to the youngest of the older versions.
FindsCorrectVersion ==
    \A t \in Threads : AtRow(t, "RD") =>
        LET m == mvcc[Req(t).row]
            older == {i \in Valid(m) : m.hist[i].ts < ts[t]}
        IN  m.oldest_wts <= ts[t] /\ ts[t] <= m.latest_wts =>
                m.data[VersionFor(m, ts[t])] = Max({m.oldest_wts} \cup {m.hist[i].ts : i \in older})

\* "All valid entries in _requests have greater ts than any entry in
\* _write_history": what waits in a row waits for an older reservation, whose
\* end will find it; nothing is left waiting when there is none.
WaitsForOlder ==
    \A r \in Rows : \A u \in mvcc[r].requests :
        /\ ExistsPrewrite(mvcc[r])
        /\ mvcc[r].prewrite_ts < ts[u]
        /\ \A i \in Valid(mvcc[r]) : mvcc[r].hist[i].ts < ts[u]

\* The history is what access and reserveRow take it for: the versions counted
\* are there, the latest is the youngest, none is as old as the base, every
\* buffer has one place, and a slot is free or can be made free.
HistorySound ==
    \A r \in Rows :
        LET m == mvcc[r]
            bufs == {i \in DOMAIN m.hist : m.hist[i].buf # NoBuf}
        IN  /\ m.num_versions = Cardinality(Valid(m))
            /\ \A i \in Valid(m) : m.hist[i].ts > m.oldest_wts
            /\ IF Valid(m) = {} THEN m.latest = m.base /\ m.latest_wts = m.oldest_wts
               ELSE LET i == Youngest(m, Valid(m))
                    IN  m.latest = m.hist[i].buf /\ m.latest_wts = m.hist[i].ts
            /\ \A i, j \in bufs : m.hist[i].buf = m.hist[j].buf => i = j
            /\ \A i \in bufs : m.hist[i].buf # m.base
            /\ ~ ExistsPrewrite(m) => Unused(m) \cup Valid(m) = DOMAIN m.hist

=============================================================================
