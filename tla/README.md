# A TLA+ verification project for DBx1000 with B-skiplist indexes

The repository is a main-memory OLTP test bed. It runs YCSB and TPC-C
transactions on worker threads under one of several concurrency controls,
chosen when it is built (`CC_ALG` in `src/config.h`), over one of several
indexes. This directory holds TLA+ models of the concurrency controls that
carry its core logic and of the concurrent index with its memory reclamation,
TLC configurations that check them on small instances, and
proofs, checked by TLAPS, that hold for every instance of the lock-based builds,
of OCC, Silo, TicToc and MVCC, of the epoch reclamation, and of the
B-skiplist's locks.

Contents: [the system](#the-system) ·
[modules](#modules-and-their-correspondence-to-the-code) ·
[runs](#runs) · [findings](#what-the-runs-found) · [proofs](#proofs) ·
[abstractions](#abstractions-and-limits) · [plan](#plan)

## The system

| part | source | state | operations |
|---|---|---|---|
| worker loop | `system/thread.cpp` | query queue position, abort buffer, commit count, `sim_done` | fetch a new or a buffered query, run it, buffer or count it |
| transaction | `system/txn.cpp`, `storage/row.cpp` | `accesses[]` with saved images, `lock_ready`, `lock_abort`, timestamp | `get_row`, wait for a lock, `finish`, `cleanup` |
| row locks | `concurrency_control/row_lock.cpp` | per row: lock type, owners, ordered waiters | `lock_get`, `lock_release` |
| deadlock detector | `concurrency_control/dl_detect.cpp` | waits-for graph per thread | `add_dep`, `detect_cycle`, `clear_dep` |
| timestamps | `system/manager.cpp` | global counter | `get_ts` |
| Silo | `concurrency_control/silo.cpp`, `row_silo.cpp` | per row: tid and lock bit in one word | `access`, `validate_silo`, `write` |
| TicToc | `concurrency_control/tictoc.cpp`, `row_tictoc.cpp` | per row: wts, lease delta and lock bit in one word | `access`, `validate_tictoc`, `try_renew`, `write_data` |
| OCC | `concurrency_control/occ.cpp`, `row_occ.cpp` | per row wts and latch | `access`, `per_row_validate`, `write` (`central_validate` is compiled out: `PER_ROW_VALID`, `config.h:90`) |
| MVCC | `concurrency_control/row_mvcc.cpp` | per row: version history and requests, the latest and the reserved version, recycled slots | `access`, `reserveRow`, `update_buffer` |
| Hekaton | `concurrency_control/hekaton.cpp`, `row_hekaton.cpp` | versions with begin/end words | `access`, `prepare_read`, `post_process` |
| timestamp ordering | `concurrency_control/row_ts.cpp` | read, write and prewrite queues | `access` |
| H-Store, VLL | `concurrency_control/plock.cpp`, `vll.cpp`, `row_vll.cpp` | partition locks; a transaction queue | `lock`, `unlock`; `vllMainLoop` |
| OLC B-skiplist | `storage/OLC_bskiplist` | nodes per level, each with a word that holds version, writer bit and reader count (HOCC) | `bsl_insert`, `bsl_get`, `bsl_delete`, `bsl_scan_n` |
| epoch reclamation | `storage/OLC_bskiplist/src/epoch.c` | global epoch, registry of threads, announced epochs, retired nodes per thread and epoch, global stacks | `epoch_enter`, `epoch_exit`, `ebr_retire`, `try_gc`, `ebr_sync`, `thread_destructor` |
| other indexes | `storage/index_*.cpp`, `storage/BTreeOLC` | hash buckets, B-trees, skip lists | insert, read |
| workloads | `benchmarks/` | queries | generate, `run_txn` |

How the parts interact. `thread_t::run` gives a query to `run_txn`, which looks
rows up in an index and asks `txn_man::get_row` for each. `get_row` calls
`row_t::get_row`, which dispatches to the concurrency control of the build. Under
two-phase locking the worker writes the row in place and spins on
`lock_ready` while it waits; another worker's `lock_release` raises that flag,
and a third one, running the detector, may raise `lock_abort`. Under Silo,
TicToc and OCC the worker gets a copy; nothing is visible to others before
`validate_*` has locked the rows. Under MVCC a read gets a pointer to a
version and a write a reserved one; who comes between a reservation and its
end waits in the row's list until `update_buffer` lets it go. The OLC B-skiplist
runs every call between `epoch_enter` and `epoch_exit`; its delete gives
unlinked nodes to `ebr_retire`, and every so many exits collect. At the end `cleanup` calls
`row_t::return_row` for every access and control goes back to the loop, which
puts an aborted query in the abort buffer.

What is hard here: workers communicate only through shared words and
latched lists, so everything is an interleaving of individual loads, stores and
compare-and-swaps; a waiter may be granted its lock, time out and be chosen as a
victim at the same time; an abort undoes part of what a transaction did while
others already use the rest; optimistic copies race with writers word by word;
retried queries come back under other timestamps; a version is recycled, or a
node freed, while somebody holds a pointer to it; a descent through the index
without locks meets splits and unlinkings in the middle. `PROJECT.json` lists these
hazards at the lines where they bite.

What makes each part correct. Locks: exclusion, no entry left behind, no
lost wake-up, and with WAIT_DIE an order that excludes deadlock. Transactions:
the committed ones are (strictly) serializable and the aborted ones leave no
trace. Worker loop: the buffer never overflows and the simulation ends. Silo and
TicToc: copies are never torn, a tid names one version, no lock bit is left
set, and the committed transactions are serializable. OCC: the same, and no latch
is left or waited for in a circle. MVCC: serializability in timestamp order, a
version history that stays what its users take it for, and nobody left waiting.
Hekaton: the isolation it claims. B-skiplist: calls are linearizable, scans miss
nothing that was there throughout, no node stays locked, retired nodes are out
of reach. Epochs: nothing is freed while a reader may hold it, nothing is leaked or
freed twice.

## Modules and their correspondence to the code

| module | what it models |
|---|---|
| `RowLock` | what `Row_lock::lock_get` and `lock_release` compute, as operators on a lock record |
| `TwoPhaseLocking` | the NO_WAIT, WAIT_DIE and DL_DETECT builds from the worker loop to the row locks |
| `SerialStore` | the abstract specification: a table whose transactions are single steps |
| `Optimistic` | what the optimistic builds share: word-wise images, read and write sets |
| `Silo` | the SILO build |
| `TicToc` | the TICTOC build |
| `OCC` | the OCC build with per-row validation |
| `MVCC` | the MVCC build with its version histories |
| `IndexMap` | the abstract specification of an index: a map, and what it is for a history of calls to be linearizable |
| `BSkiplist` | the OLC B-skiplist |
| `Epoch` | epoch-based reclamation |
| `MCTwoPhaseLocking`, `MCSilo`, `MCTicToc`, `MCOCC`, `MCMVCC`, `MCBSkiplist`, `MCEpoch` | queries, plans of calls and symmetry for the runs |
| `TwoPhaseLockingProofs` | theorems and proofs about the lock-based builds |
| `OptimisticProofs`, `OCCProofs`, `SiloProofs`, `TicTocProofs` | about the images and key orders the optimistic builds share, about OCC, Silo and TicToc |
| `MVCCProofs` | about MVCC |
| `EpochProofs` | about epoch reclamation |
| `BSkiplistProofs` | about the locks of the B-skiplist |

`PROJECT.json` maps every definition to its source lines.

**Two-phase locking.** A lock is a record: `lock_type`, the set of owners (the
code keeps a stack it only searches), the sequence of waiters (whose order is the
order of grants). `lock_get` and `lock_release` run under the row's latch
from beginning to end, so each is one step: `LockGetOK`, `LockGetWait` and
`LockGetAbort` are its three results. A thread's `pc` stands for the place between two
such steps. The waiting loop of `row_t::get_row` is `EnterWait` (which resets
`lock_abort` *after* the latch is free, so a signal sent in between is lost, as
in the code), `Timeout`, `DetectCycle`, `StopWaiting` and `GiveUp`; between the
decision to give up and the release of the waiter's entry the lock may be
granted. `Access` saves the image of a row to be written, `Compute` reads or
writes the row in place, `Cleanup` is one turn of the loop that restores the image
and releases the lock, last access first. `FetchNew`, `FetchRetry` and `Finish`
are the worker loop with its abort buffer; a WAIT_DIE timestamp is drawn where
the code draws it, only on the path of the abort buffer.

**Silo.** One action per access to a shared word. `ReadTid`, `Copy` (one word of
the row) and `Recheck` are `Row_silo::access`; `PreAbort`, `LockRow`, `LockBusy`,
`Unlock`, `BackOff`, `Locked`, `ValidateRead` and `Commit` are `validate_silo`;
`Install`, `SetTid` and `Release` are `Row_silo::write` and `release`. The two
run-time settings `pre_abort` and `validation_lock` are part of the initial
state. `WritesLocal` tells TPC-C, which writes to the copy it was given, from
YCSB, which writes to the shared row. `order` is a history variable: the
transactions in the order in which they held all their locks.

**TicToc.** Likewise; the row's word is split into `wts`, `delta` and `locked`.
`Validate` is the part of `try_renew` before its loop and `Renew` is one
compare-and-swap with what follows when it fails; `NewWord` keeps the width of the delta
field (`% 2^RtsLen`, and the *rebase* that moves `wts` when the delta does not fit).
`SetWts` comes before `Install`, as `write_data` has it. `log` is a history variable:
the committed transactions with their commit times.

**OCC.** `Fetch` draws the start timestamp, `Access` copies a row under its latch
(one step: the latch is held from beginning to end), `LatchRow` is one turn of the
loops of `per_row_validate`, which latch in key order and check each row on the
way, `GetEndTs` draws the end timestamp or turns to abort, `ReturnRow` writes one row and
its `wts`, `Release` gives one latch back. Writes go to the transaction's copy and are seen with `ReturnRow`,
as in TPC-C (`tpcc_txn.cpp:186-191`; see [below](#what-the-runs-found) for YCSB). `order` is a history variable: the
committed transactions in the order of their end timestamps.

**MVCC.** `Row_mvcc::access` runs under the row's latch, so each of its outcomes is
one step: `ReadAbort`, `ReadWait`, `ReadLatest`, `ReadVersion`, `PrewriteAbort`,
`PrewriteWait`, `Prewrite`; `ReturnRow` installs or drops a reservation and does
`update_buffer`. A row's record has the history with its slots, the base row, the
latest version, the reservation and the waiting requests, under the names of
`Row_mvcc`. `Collected`, `Recycled`, `Doubled` and `Reserved` are
`reserveRow`. Versions are named by their writer's timestamp and live in buffers
(`row_t` objects) that are used again, as in the code. A read returns the version
itself; `Use` is the later step in which the transaction looks at it. `AddTs` and
`MinTs` are the timestamps threads announce and the stale minimum thread 0 keeps.
A write goes to the reserved version, as in TPC-C (`tpcc_txn.cpp:178-191`); YCSB writes through the
shared row instead (`ycsb_txn.cpp:80`), which no version is made of.
`lost` is a history variable: the transaction had a version recycled before it
looked at it. `setup` is the command line of the run: which threads there are, and
what queries.

**Epoch.** One action per access to a shared word. `PopSlot`, `PopSlotCAS` and
`Publish` register a thread; `Enter`, `Exit`, `ReadEpoch` and `Refresh` are the
critical section with the epoch it announces only now and then; `Retire`;
`GcBegin` to `Reclaimed` are `try_gc`, whose scan looks at one word of one context at a time;
`Sync` and `SyncReturn` are `ebr_sync`, which any registered thread may call at any time
(`bsl_destroy` does), and which between the two enters and exits like any operation; `Unregister` to
`Destroyed` are the destructor.
Lists of nodes are sets. `held` is what an operation may have a pointer to: all
that was linked when it entered. `overtaken` is a history variable: nodes that a
collection took from a global stack after the epoch had moved on past it. So are `due`, the nodes
that were retired when a call of `ebr_sync` began, `alone`, whether its caller has been the
only registered thread since, and `aba`: a slot has come back to the head of the
free list between the read of its `next` and the compare-and-swap of `free_slot_pop`. `MaxEpoch` is the
epoch from which on only `ebr_sync` collects, `MaxSyncEpoch` the last one at which
`ebr_sync` is called, and `MaxSyncs` how many threads are in it at a time; each of them bounds
what the callers do, and stops nothing that has begun.

**IndexMap and BSkiplist.** `IndexMap` states what an index promises: some order of the
calls on a key, one that keeps calls apart that did not overlap, explains every
result and the final contents. In `BSkiplist` a call
descends (`MoveRight`, `ReadChild`, `EnterChild`) with the word of each node in a
register and starts over from the top (`Retry`) when it has changed; insert locks the node of
the key's level (`LockTarget`, `Locked`), enters the key or splits (`InsertSlot`,
`Split`, `SplitNext`) and goes down with locks (`LockChild` to `PromoteNext`); delete finds the
key and its left neighbour with locks and unlinks level by level (`FindRight` to
`UnlinkLeaf`); scan reads leaves under read locks in batches
(`ReadLock` to `ScanNext`). The slots of a node are read in one step, since a
read counts only if the version is validated afterwards; `next_header` and
`next`, which scan follows without asking for the writer bit, are written in
separate steps above the leaves. A new node is all zeros but for its lock until it is put in, so that a scan
that comes upon it finds a `next_header` of 0 and tries to move right. A leaf that was emptied has
its slot left in memory and no elements (`Elts`): what a scan that gets there reports when `batch_size` wraps is
any keys at all. A version is the smallest one nobody has in a
register (`NewVersion`), in place of a counter of 48 bits: only equality with a
remembered version is ever asked. Retired nodes keep
their slots, as the epochs promise (`epoch_exit` shows where they fail to). `Plans` are the calls of the
threads; the loader's come first, alone. `stay` and `torn` are history
variables: the keys that were there since a scan began, and whether the scan has
left a node that was being written.

## Runs

| run | instance | checks | distinct states |
|---|---|---|---|
| `wait_die` | 3 workers, writers of two rows in both orders and a reader of one, 1 commit per worker, buffer of 1, fairness | `WaitDieOrder`, `NoDeadlock`, `Serializable`, `Termination` | 290 thousand |
| `dl_detect` | 3 workers, 2 rows, a writer of both against a reader-writer in the opposite order, 1 commit, buffer of 1; time-outs and victims at any moment | `TypeOK`, `LockExclusion`, `LocksMatchAccesses`, `NoLostWakeup`, `AbortBufferHasRoom`, `Serializable` | 140 thousand |
| `silo` | 3 workers, 2 rows of 2 words, write skew and writers of both rows, two of the four combinations of settings | `LockBits`, `TidGrows`, `TidNamesVersion`, `WholeCopies`, `NoLockCycle`, `Serializable`, `CommittedImages` | 1.2 million |
| `tictoc` | 3 workers, 2 rows of 2 words, a 2-bit delta; two transactions, one after the other, give the rows the times 1 and 2, then three run at once: readers that write what others read, at most one reader of both rows; two of the four combinations of settings | `WholeCopies`, `Serializable`, `LeaseCutOnRetry` | 1.9 million |
| `tictoc_lease` | 3 workers, 3 rows, a 2-bit delta; four transactions, one after the other, set the rows' times apart, then three run at once | violates `SerializableInSomeOrder` | |
| `occ` | 3 workers, 4 transactions, 2 rows, write skew, writers in the other order, readers of both | `Serializable`, `LatchesGivenBack`, `NoLatchCycle`, `WtsGrows` | 510 thousand |
| `mvcc` | 4 transactions: 2 workers on 2 rows, or 3 on one; histories of 1 version to begin with | `Serializable`, `WaitsForOlder`, `HistorySound`, `FindsCorrectVersion` | 360 thousand |
| `mvcc_recycled` | the same | violates `RecycledAborts` | |
| `epoch` | 3 threads that register, exit and reuse slots, one node; exits collect at epochs 0 and 1; a call of `ebr_sync` takes the epoch from 0 or 1 to 3 or 4, beside at most one other registered thread | `ReclaimSafe`, `OwnSlot`, `EveryNodeOnce`, `SyncFreesAll` | 2.8 million |
| `epoch_exit` | 3 threads, one node, exits collect at epochs 0 and 1, no `ebr_sync` | violates `NoUseAfterFree` | |
| `bskiplist` | a loader and 3 workers with a call each (one plan has two), keys 1 to 6 on 3 levels, nodes of 2 slots, scans of 3 keys, 44 plans | `Linearizable`, `NoLockLeft`, `WritesExclusive`, `InOrder`, `RetiredUnreachable`, `ScanCompleteUntorn`, `ScanAscending`, `ScanLeafLive` | 700 thousand |
| `bsl_scan` | the same | violates `ScanComplete` | |

Why the bounds are enough. Two rows are what deadlock, write skew and a
half-finished release need; three workers give an owner, a waiter and somebody who
overtakes, two readers and a writer, or a third transaction that sees the
half-finished state of two others. The lists of a lock are then up to two
waiters long, so order matters. Rows of two words can be torn. A
delta of two bits overflows with the fifth transaction of `tictoc`; the code has 15 bits.
`MaxTxn` ends every behaviour, as `MAX_TXN_PER_PART` does in the code; in
TicToc, OCC and MVCC it counts the transactions started, aborted ones included, since
retries would push the times up without end. In the `tictoc` run the two
transactions of a warm-up come first (`AfterWarmUp`), for a cut lease takes a row whose time is
no longer 0: then a transaction that commits at 2 and one that commits at 3 both renew the lease
of row 1, the first one's compare-and-swap fails, and it cuts the lease back from 3 to 2. So
`LeasesKept` is false in this run (TLC finds it violated in place of `LeaseCutOnRetry`), the retried
swap is among its steps, and so is the rebase. That the cut makes a history unserializable takes more (see `tictoc_lease`).
For longer histories serializability is claimed, and proved, as long as no lease is cut back. `tictoc_lease` explores only what
agrees with the queries of its play (`ByThePlay`), since seven transactions of any kind
are out of reach. The theorems below remove the
bounds, for the B-skiplist as far as its locks go; they also cover larger abort
buffers (a worker then runs queries under timestamps drawn for others) and the NO_WAIT
build.

A history of one version is full at once, so that collecting, doubling and
recycling, which the code's 4 slots need more transactions for, all happen within
four. Three epochs are all there are modulo `EBR_EPOCH_COUNT`: a collection
that began in the first frees from the slot into which the third retires. While a thread is
in `ebr_sync`, the run explores only states with at most one other registered thread (`SyncBesideOne`): idle
or in the middle of anything, it is enough for `SyncBlocks` to fail. One node is enough for the epochs, since nothing they do relates two nodes;
several are handed over one by one in either case. Nodes of two slots split at the
third key, are emptied by the second delete, and have a first slot that is
not the last. The plans of the B-skiplist put together calls that meet: inserts
that split the node another call stands on or descends through, deletes of the key
that heads a node, of its neighbours, of the same key twice, insertion of what is
being deleted, at each of the three levels, with a get or a scan across them. Left
out are plans in which a call meets nobody.

Threads are interchangeable in the safety runs and are a symmetry set (in MVCC
all but thread 0, which keeps the minimum); `wait_die`, which has a liveness property, uses no
symmetry, and neither does `bskiplist`, whose threads have different plans.

What the properties say beyond the obvious:

* `Serializable` in `TwoPhaseLocking` is the refinement of `SerialStore`: under the
  mapping that shows a row with its saved image while its writer has not
  committed, every step is a serial commit, the return of a result, or
  nothing. It covers rollback, early release during cleanup, and retries.
* `LocksMatchAccesses` relates lock tables and transactions: each row has exactly
  the entries the transactions' places in the code account for, through grants that
  race with time-outs and victim signals.
* `NoLostWakeup`: `lock_ready` is up exactly for granted waiters, and the first waiter
  is always really blocked by the owners.
* `WaitDieOrder` and `NoDeadlock`: waiters are older than owners and stand youngest
  first, so no non-empty set of transactions waits within itself.
* `Serializable` in `Silo` orders the committed transactions by their lock points,
  in `TicToc` by commit time. `SerializableInSomeOrder` asks for any order at all.
* `LeaseCutOnRetry`: a step that moves the end of a row's lease back (the run has such steps) is a compare-and-swap of
  `try_renew` by a transaction that has seen a longer lease there than the one it wants, which can only be after a
  first try that failed. Neither a write, nor a rebase of a delta that has outgrown its field, nor a
  first try does.
* `TidNamesVersion`: a transaction that holds the tid a row still has also holds the row's
  contents. `CommittedImages`: an unlocked row holds what the last committed
  transaction wrote.
* `Serializable` in `OCC` orders the transactions by their end timestamps and in
  `MVCC` by their only one. In `MVCC` a transaction whose version was recycled in
  its hands (`lost`) is exempt; `mvcc_recycled` shows that the exemption is needed.
* `WaitsForOlder`: what waits in an MVCC row waits for an older reservation that is
  there. With the deadlock check it excludes a request that is left in the list
  when nobody will come to let it go.
* `HistorySound`: count, latest version, base and slots of a history agree, and no buffer
  is in two places, whatever was collected, doubled and recycled. It contains what
  `reserveRow` asserts of the count, the latest and the oldest version.
* `FindsCorrectVersion`: the search of a history (`VersionFor`), which keeps its best find in
  32 bits, ends at the version before the reader, whatever the order of the slots.
* `ReclaimSafe`: neither the stale epochs threads announce nor a scan that misses
  those who enter or register behind it frees a node under a reader; `overtaken` nodes
  are exempt, and `epoch_exit` shows why. `OwnSlot`: threads that race for a free slot
  never both get it, so that a scan finds every reader. Both exempt what comes after `aba`, see below.
  `EveryNodeOnce` follows nodes through hand-over and two collections at a time.
* `SyncFreesAll`: when a call of `ebr_sync` returns whose caller was the only registered thread since it
  began, all nodes that were retired before are freed, also those that threads handed over at their
  exit. What `epoch.h:57` promises to everybody is `SyncBlocks`, which does not hold (see below).
* `Linearizable` judges the calls when all have returned: a get may see that a
  delete has removed its key before the delete has come to the leaf, so a call's
  moment can depend on what happens later.
* `NoLockLeft`: whoever is not in a call has no node locked, and the readers a node counts are the
  scans that stand on it. `WritesExclusive`: slots and links of a node change only under its writer bit
  and after its readers have gone.
* `InOrder` is about every node that nobody has locked while others work: what a reader
  can validate is a proper part of the list.
* `ScanCompleteUntorn`, `ScanAscending` and `ScanLeafLive` exempt scans that have left a node while it was
  written; `bsl_scan` shows what happens to those. `ScanAscending` is about what a scan has reported so far,
  and about all of it when it has returned.

Deadlock (no step at all) is checked in all runs; `Terminated` is the end of
the program.

**Fairness.** `FairSpec` of `TwoPhaseLocking` asks for weak fairness of each worker's own
steps: the operating system runs every thread, and a worker that can take a step
keeps being able to until it does. Time-outs and the detector get no
fairness. `Termination` is claimed for WAIT_DIE with writers that ask in
both orders and readers that ask for nothing while they have a lock. Readers that go on to
ask may die and join the owners again and again while an older
writer waits, which the code does not prevent; NO_WAIT and DL_DETECT promise no
progress either, since workers may abort each other for ever. The same is true of
OCC, Silo and TicToc, whose transactions abort and retry, and of the B-skiplist,
whose calls start over when a node has changed; for these no progress is
claimed, and that somebody can always take a step is the deadlock check.

## What the runs found

* **A version recycled under a reader** (`mvcc_recycled`). When a history is full and as
  long as there are threads, `reserveRow` gives the base row to the new prewrite
  (`row_mvcc.cpp:270-286`), and `Row_mvcc::access` copies the latest version
  over it. A reader that has a pointer to it and has not looked yet sees a younger
  version and commits, where `row_mvcc.h:7-9` says it is aborted.
* **A lease cut back** (`tictoc_lease`). After a failed compare-and-swap `try_renew` compares
  a time with the delta field (`row_tictoc.cpp:153`), where line 134 compares two deltas.
  Transaction 5 commits at 5 with the lease of row 1 extended to 5; transaction
  6, which wanted 3, fails its compare-and-swap, finds 3 no less than the delta 3,
  and swaps its own lease in, which ends at 3; transaction 7 writes row 1 and
  commits at 4. Transactions 5 and 7 have each read what the other one overwrote. If
  the deltas are compared the same run passes.
* **A delayed collection and a thread exit** (`epoch_exit`). `try_gc` takes the
  global stack of its slot after its compare-and-swap (`epoch.c:205`). If it is delayed
  there while the epoch moves on, and an exiting thread hands over a node it has
  just retired into that slot, the node is freed under an operation that
  holds it, against the comment at lines 190-193.
* **A scan leaves a node that is being written** (`bsl_scan`). The move to the
  right in `bsl_scan.c:50` validates the version without asking for the
  writer bit, where `bsl_get.c` asks for it. It may combine the new `next_header` with the old
  `next`, step over the node being inserted, and miss keys that were there all the time.
  The batch scan has the same code. The same move can put the scan on a leaf that was
  emptied, whose element count of 0 the loop then takes below 0: it reports what is left in memory
(one of the plans of `bskiplist` comes to this), for which `ScanAscending` exempts such scans too.

Three more show when a constant of a run is given another value, or a run another property:

* **YCSB under the optimistic builds.** `ycsb_txn.cpp:80` writes to
  the shared row while the transaction holds a copy; the write is visible before
  commit and is overwritten with the unmodified copy when it commits. With
  `WritesLocal = FALSE` in `Silo.cfg` TLC finds `TidNamesVersion` and `Serializable` violated
  within seconds. The run has TPC-C's way to write, to the copy.
* **A timestamp in 32 bits.** The search for a version keeps the best
  timestamp so far in a `uint32_t` (`row_mvcc.cpp:140`). When timestamps outgrow it (after
  2^32 transactions with `TS_CAS`, at once with `TS_CLOCK`), a later slot beats a younger
  version found before. With `TsWrap = 2` (one bit) and `HisLen = 4` in `MVCC.cfg` a reader of
  timestamp 3 is given version 1 although version 2 is there, which violates
  `FindsCorrectVersion`; the comment at line 139 says that it finds the correct one.
* **`ebr_sync` beside live threads.** `epoch.h:57` says "block until all previously retired nodes are
  freed", and neither `ebr_sync` (`epoch.c:376-392`) nor its caller `bsl_destroy` asks whether other
  threads are registered. A thread empties only its own lists and the global stacks, so what a live
  thread has retired stays in that thread's list when the three epochs are over. With `SyncBlocks` in
  place of `SyncFreesAll` in `Epoch.cfg` TLC finds such a return.

Seen while modelling and stated here only: with `abort_buffer_enable=false` no WAIT_DIE
transaction is given a timestamp of its own (`thread.cpp:90` is in the branch of the
buffer), so that two may wait for each other. In
`free_slot_pop` (`epoch.c:87`) the head may be popped and pushed again between the read of
its `next` and the compare-and-swap; a slot in use then becomes the head, the next thread to
register takes it over, and scans no longer see its first owner. This takes six threads in the
course of a run (two that have left their slots, the delayed one, two that pop, one of which exits,
and the last), which is beyond the runs. Without the exemption `OwnSlot` and `ReclaimSafe` would be false with six threads;
with it they are proved for any number.

## Proofs

Every theorem is about any set of threads and rows (or keys), any queries or calls and any bound on the
number of transactions. What the proofs assume is what the modules state, and TLC
evaluates it in the runs.

### The lock-based builds

The theorems hold for any of the three algorithms. They assume `AlgAssumption` (which
algorithm), `QueriesAssumption` (a query is a
non-empty sequence that names a row once, as the generators guarantee) and
`BoundsAssumption` (buffer size and `MaxTxn` are positive). Nothing is assumed about
finiteness.

`TwoPhaseLockingProofs` has a section for each of these:

* Row locks: what `AddOwner`, `AddWaiter`, `RemoveTxn` and `GrantWaiters` do
  to a well-formed lock; in particular that the granted waiters are a prefix of the queue
  and that a grant never breaks exclusion.
* Transactions: `Invariance` of `IInv`, and from it `TypeCorrect`,
  `Exclusion`, `LocksMatch` and `WakeupsKept`. `IInv` is `TypeOK` with `QueryInv`
  (a running thread has a query and is within it), `LockInv` (each lock is well
  formed, its head waiter is blocked), `EntryInv` (lock entries are exactly
  those the threads account for, in the right mode) and `OrigInv` (a row that is to be
  restored has a saved image). `LocksMatchAccesses` alone is not inductive:
  a release finds the right entry only because each transaction has one,
  and a grant is right only because the head waiter was blocked by the owners
  and nothing else.
* The abort buffer: `BufferHasRoom`. A new query is fetched only if a slot is free, a
  buffered one frees its own, so the number of buffered queries stays below the size of the
  buffer while one runs.
* WAIT_DIE: `WaitDieOrdered` and `WaitDieDeadlockFree`, both under
  `AbortBufferEnable`; the assumption is needed, since without the buffer no transaction
  is given a timestamp of its own (see above). The
  argument: transactions in a lock table have different timestamps (`TsInv`), every
  lock operation keeps waiters older than owners and sorted youngest first
  (`OrderInv`), so a transaction only waits for younger ones; timestamps are below
  `next_ts`, so every set of transactions has a youngest member, which waits for
  nobody in the set.
* Serializability: `StrictlySerializable`, that is `Spec => Serial!Spec`. Besides
  `IInv` it needs `DInv`: `RcInv` (where a transaction may have failed), `SeenInv`
  (what it has read is still the committed contents of rows it holds) and `WrittenInv`
  (what it has written is in the rows it holds). A commit then maps to one serial
  commit, a `Finish` to a return, and every other step to a stutter.

### OCC, Silo and TicToc

All three assume of `Optimistic` that rows are finitely many natural numbers (`RowsAssumption`,
`FiniteRowsAssumption`: a row stands for its key), that a query names a row once
(`QueriesAssumption`) and that `WordCnt` and `MaxTxn` are positive; OCC also that
`NoThread` is no thread. `OptimisticProofs` shows that the sorted
accesses of a query exist, are strictly ascending and hit every row once, which `Sorted`
and `NextLock` rely on.

`OCCProofs`. `Invariance` of `IInv`; from it `SerializableTheorem`,
`LatchesGivenBackTheorem`, `WtsGrowsTheorem` and `NoLatchCycleTheorem`. `Serializable` is not
inductive: that a committed read is of the right version has to be known before the commit.
`LatchInv` says which latches a transaction has, at each place in its loops; `ValidInv`
that a row it has latched and found old stays so; `SeenInv` that a copy is
the row as it is or that the row's timestamp will tell, because whoever is about to write it
has drawn an end timestamp after this transaction's start; `DataInv` that the table is
what the history says, but for the writes that are under way. Then a transaction that
passes validation has copies of what the history ends with.
No circle of waiting: the latch with the greatest key that is held in a set
is held by somebody who, if he waits, waits for a greater one.

`SiloProofs`. `VersionInvariance` of `VInv`: lock bits agree with the transactions
(`LockBits`), a transaction that has all its locks has a tid above them
(`LockTidInv`), and a copy under the tid the row still has equals the row as far as
copied, unless it is being installed (`CopyInv`). From it `LockBitsTheorem`,
`TidGrowsTheorem`, `TidNamesVersionTheorem` and `NoLockCycleTheorem`.
`HistoryInvariance` of `SInv` adds the history. A transaction enters
`order` when it has all its locks and is judged later, so that between a transaction and
the end of `order` there may be others that have committed already: `BehindInv` says that
none of them has written a row it has locked or validated a read of one, and that those which have
written what it has read give themselves away, by a greater tid or by a
lock bit that is still set. `ReadInv` says that what it has validated so far is what the
order puts before it, `DataInv` that the table holds the last image of the history, word by
word for the row that is being installed, `SeenInv` that copies are whole. Hence
`SerializableTheorem`, `CommittedImagesTheorem` and `WholeCopiesTheorem`.
These three, and `TidNamesVersionTheorem`, have the hypothesis `WritesLocal`: TPC-C's way to
write. It is needed: under YCSB's in-place write they fail (see above).

`TicTocProofs` holds for every width of the delta field. `CInv` is about the rows and copies: where a transaction is and what it has
(`PhaseInv`), that a lock bit belongs to one transaction (`LockInv`), that a locked row keeps
the times its transaction knows, below its commit time, until it is written
(`LockTimeInv`), and that a copy under the `wts` the row still has agrees with it as far
as copied (`CopyInv`, `WholeRows`). It yields `WholeCopiesTheorem`. This is less plain than
for Silo: a rebase changes `wts` without a new version, and `write_data` sets the new `wts`
before the words.
`SInv` adds the history. `HistoryInv`: a row's last committed writer is the one its contents
name, and no other has a commit time up to the end of its lease; writers of a row have different commit times.
`LeaseInv`: what a transaction has read lasts to the end of the lease it knows of, and to its
commit time once validated. `LogLease`: the leases a committed transaction relied on still reach its
commit time, so later writers come after it. `SerialInv` is the conclusion. `LogLease` is where a lease cut back breaks the
proof, so `SerializableTheorem` is `Spec /\ LeasesKept => []Serializable`; `tictoc_lease` shows that
`Serializable` fails without the hypothesis. How much the hypothesis excludes is
`LeaseCutOnRetryTheorem`, from `CInv` alone: the end of a lease moves forward in every other step, since a
writer's commit time is past the leases it finds once it has locked (`LockTimeInv`), and a
rebase adds to `wts` what it takes from the delta.

### MVCC

`MVCCProofs` assumes `SetupsAssumption` (thread 0, which keeps the minimum, takes part),
`QueriesAssumption` (a query names a row once) and
`MvccAssumption` (histories begin with at least one slot; `NoTs`, the timestamp of no
transaction, is above all that a run can draw, as the code's 2^64 - 1 is; `NoBuf` is no buffer).

`HInvariant` (`Spec => []HInv`) is about one row at a time and those who use it.
`VersionsInOrder`, `BuffersApart` and `ReservationKnown` make a row good (`RowsGood`), and each of
`Collected`, `Recycled` and `Doubled` keeps it good; `ThreadInv` says that the
reservations in the rows are those of the transactions, that each is in the buffer its
owner holds, and that no version is there before its transaction commits; `ClockInv` that
rows know of no timestamp from the future; `QueueInv` that whoever waits waits for an older
reservation and would otherwise be served. Hence `HistorySoundTheorem`
(which has in it `reserveRow`'s assertions on the count of versions, the
latest and the oldest) and `WaitsForOlderTheorem`: when a reservation ends, `update_buffer`
leaves exactly those that wait for the next one.

`SInv` (`SInvariant`) adds the versions and who has read them: `CommitInv` (each committed
transaction has a timestamp of its own), `VersionInv` (a row's history is what the committed have
written, from the oldest it keeps on, but for what is being returned), `SeenInv` and `CommittedInv`
(every version read is `ReadOK`, by the running and by the committed). That a version is the one
before its reader must also stay so: no older writer may slip in between. `ReadOK` therefore has
`Served`: the row has a version or a served read at or after the reader's timestamp, or
the reader's own reservation, so that `access` rejects every prewrite that
would come before it. From it `SerializableTheorem`. It exempts the `lost` transactions (`mvcc_recycled`
shows why) and has the hypothesis `MaxTxn < TsWrap`, no timestamp outgrows `the_ts`, as has
`FindsCorrectVersionTheorem`, by which the reader gets its version; with a
small `TsWrap` TLC shows that they fail otherwise (see above).

### Epoch reclamation

`EpochProofs` assumes `EpochAssumption` (the threshold is positive, `NoThread` is no thread, `NoSlot` no
number) and `ThreadsAssumption`: at most `EBR_MAX_THREADS` threads in the course of a run, since
the code aborts when it runs out of slots.

`ListInvariance` of `ListInv` is about the lists. `SlotInv`: slots that are given out lie below
`g_n_threads`, which never exceeds the number of threads that have got one. `PhaseInv`: which lists
a thread can have at each place, how far its scan is, and that no epoch it has read
lies ahead. `OnceInv`: a node that is neither linked nor freed is in exactly one list of one
kind, thread and epoch slot. `SyncInv`: while a caller of `ebr_sync` is alone, each of its collections
since has emptied its slot, in its own lists and in the global stacks. Then
`EveryNodeOnceTheorem` (counting is left to the end: `Copies` is a sum of cardinalities of
sets that are empty or singletons) and `SyncFreesAllTheorem` (three successive epochs hit
all three slots). The latter has `alone` in its statement and needs it, see above. `StackInv` is about the
free list of slots: it ends, has no slot twice and none that a thread owns, unless `aba`. Two threads that
pop at a time get different slots, since the second compare-and-swap finds
another head. With it `OwnSlotTheorem`.

`ReclaimSafeTheorem` says `Spec => []ReclaimSafe`. A reader announces an epoch that may be
long past, so the usual argument (nobody announces an old epoch) is not available.
`ReaderInv` instead relates what a reader may have a pointer to with the slots it was
retired into: nothing but the current epoch's slot (`Fresh`), or that and the last one's
(`Old`), but then the reader announces an earlier epoch and every scan of the current
epoch has yet to come to it (`Awaits`). A reader is fresh when it enters, since what is linked
is in no list; when the epoch advances, the winner's scan has passed all readers, so none was
old, and all become old. `PassedInv` carries what a scan has established to its end,
`CollectInv` from there to the collection, `GarbageInv` to the freeing. The part of the collection
that comes from a global stack is covered by `ReaderInv` if the epoch is still the next one,
and is `overtaken` otherwise. That a scan sees every reader is `OwnSlot`; both are claimed until
`aba`, which is for good (`SafeInvariance` carries `aba` or the invariant).

### The B-skiplist's locks

`BSkiplistProofs` assumes `KeysAssumption` and `PlansAssumption` (keys are positive and finitely many,
each with a level; a plan is a sequence of calls on them), `SizeAssumption` (at least two levels
and two slots, finitely many threads) and `NothingAssumption` (`NoNode`, `NoThread` and `NoCall` are what
their names say).

`Invariance` of `IInv`. A lock is not recorded anywhere but in the word of its node: which locks
a call has to give back follows from where it is in the code and from its local variables
(`LocksOf`), and the proof has to know that these name different nodes, of the right levels. `IInv` is
`TypeOK` with `ShapeInv` (links stay on a level, children are one level below, and only a node
that has been allocated and not yet filled is empty), `RegInv` (what the local variables of a call hold
at each place: `EarlyOK` on the way down and at the first lock, `PromotingOK` while new nodes are put in
level by level, `FindingOK` and `UnlinkingOK` in a delete), `LockInv` (the writer bits are the locks),
`ReaderInv` (the reader counts are the scans) and `DrainInv` (a node locked and waited for has no
readers). `ShapeInv` is needed because a call steps from a node it has locked to one it has only read a
pointer to; `RegInv` because an unlock through a variable that names the wrong node would free
another call's lock.

The steps of one call disturb the others in few ways, which `Frame` states and `StepKeeps` uses once for
all: a call writes to nodes it has locked and drained, changes its own writer bits, and has
locked what it allocates. Each of the 41 actions has a lemma (`BeginKeeps` to `ScanNextKeeps`) that
shows `Frame` and what becomes of the call's own registers and locks. From `IInv` follows
`NoLockLeftTheorem`, and from `Frame` with `LockInv` and `DrainInv` `WritesExclusiveTheorem`.

Two kinds of guard in `BSkiplist` stand for what the code takes for granted: that an allocation succeeds
(`used` stays within `NodeCnt`), and that a pointer it locks, or `assert`s, is not null (`Unlocked`,
`DeleteFirst`). A step that failed there would be missing from the model and leave its call stuck;
the deadlock check of the `bskiplist` run shows that this happens in none of its plans.

### Only model-checked

`Termination` (liveness is out of the prover's reach), and of the B-skiplist what
relates several nodes: `Linearizable`, `InOrder`, `RetiredUnreachable` and what the scans report.
`IndexMap` asks for an order of the calls, and the nodes form chains; to follow these from a
header to a key would need induction over data. What TLC shows of them is for the
instances in the table.

## Abstractions and limits

* Time is left out: a wait may outlast `g_timeout` and a buffered query may be ready
  at any moment.
* The detector is represented by its effect: it may choose any transaction as a victim
  while somebody waits. This includes every stale edge and late victim of the real one; that it
  does find each deadlock is not shown.
* A written value is told apart from every other one (the benchmarks write a
  constant), so that the properties can see which write was read.
* A row is one value in `TwoPhaseLocking`, `OCC` and `MVCC`, whose latches and locks
  exclude torn reads (a recycled MVCC version may be read torn as well as
  too young; the model has the latter), and a sequence of words in `Silo` and `TicToc`.
* Memory accesses interleave: the code relies on the x86 order of loads and of stores and
  on compiler barriers. For the epochs this is an assumption the source does not quite
  earn: `in_critical` is set with a release store, which a later load may
  overtake; the model has sequential consistency. A `txn_man` starts with
  timestamp 0 (it is value-initialised).
* Timestamps and tids do not wrap around. `the_ts`, in MVCC's search for a version, keeps
  its width in the model (`TsWrap`), and the runs keep below it.
* MVCC threads announce a timestamp after they have drawn it, as in the code, so that the
  minimum can be too high for a transaction's first row. Thread 0 looks at the announced timestamps one by
one; `MinTs` has it in one step that may return any minimum up to the one now. What this leaves
out is a scan that passes a thread before its very first announcement and others after they have gone on. Timestamps come one by one
  (`TS_CAS`); batches only make transactions abort that need not.
* The free list of epoch slots is a stack with compare-and-swap. A thread registers and exits
  once, as a pthread does; `free_slot_push` is one step, since what it writes before its
  compare-and-swap succeeds is its own.
* Configuration switches have the values of `config.h`: `ISOLATION_LEVEL`
  SERIALIZABLE, `ROLL_BACK` true, `ATOMIC_WORD` true, `WR_VALIDATION_SEPARATE`
  true, `PER_ROW_VALID` true, no `TICTOC_MV`, no `WRITE_PERMISSION_LOCK`.

**Not modelled.** Hekaton, timestamp ordering and H-Store's partition locks are in the
plan. VLL is not: no default build or test uses it. `bsl_inspect.c` and
`bsl_stats.c` only look. The BP-tree, the RW B-skiplist and the libraries they bring along
are third-party code and some nine tenths of the lines of the repository, so that the part of all
its lines the modules stand for is small whatever is modelled of the rest. Query
generation, loading, parsing, statistics and the allocator keep no protocol
state.

## Plan

1. *Done:* two-phase locking with its serial specification and proofs; Silo; TicToc.
2. *Done:* epoch reclamation; the OLC B-skiplist against an abstract map; OCC; MVCC.
3. *Done:* proofs about OCC, Silo and the epochs.
4. *Done:* `AbortBufferHasRoom`; MVCC's history, waiting and serializability; TicToc's
   whole copies, and its serializability as long as leases are kept.
   The locks of the B-skiplist.
5. Hekaton and timestamp ordering; the waits-for graph of the deadlock
   detector, composed with the row locks; partition locks.
