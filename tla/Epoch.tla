------------------------------- MODULE Epoch --------------------------------
(***************************************************************************)
(* Epoch-based reclamation (epoch.c), as the OLC B-skiplist uses it: an    *)
(* operation runs between epoch_enter and epoch_exit, a node that delete   *)
(* has unlinked goes to ebr_retire, and every EBR_GC_THRESHOLD-th exit may *)
(* advance the global epoch and free what was retired two epochs ago.      *)
(*                                                                         *)
(* A thread announces that it is in a critical section, but refreshes the  *)
(* epoch it announces only now and then, on the way out.  A thread is a    *)
(* pthread: it registers at its first epoch_enter and its destructor hands *)
(* what it has not freed to the global stacks.                             *)
(*                                                                         *)
(* One action per access to a shared word, in an interleaving of the       *)
(* threads' accesses (sequential consistency).  The lists of nodes are     *)
(* sets: their order decides nothing.                                      *)
(***************************************************************************)
EXTENDS Integers, FiniteSets

CONSTANTS
    Threads,
    Nodes,              \* nodes of the list, all linked to begin with
    EBR_GC_THRESHOLD,
    EBR_MAX_THREADS,
    MaxEpoch,           \* no worker starts a collection in this epoch
    MaxSyncEpoch,       \* no call of ebr_sync begins after this epoch
    MaxSyncs,           \* calls of ebr_sync under way at a time
    NoThread, NoSlot    \* NULL in g_contexts, in the list of free slots

EBR_EPOCH_COUNT == 3

ASSUME EpochAssumption ==
    /\ EBR_GC_THRESHOLD \in Nat \ {0}
    /\ EBR_MAX_THREADS \in Nat
    /\ MaxEpoch \in Nat
    /\ MaxSyncEpoch \in Nat /\ MaxSyncs \in Nat
    /\ NoThread \notin Threads
    /\ NoSlot \notin Nat

ASSUME ThreadsAssumption ==
    IsFiniteSet(Threads) /\ Cardinality(Threads) <= EBR_MAX_THREADS

Slots == 0..(EBR_MAX_THREADS - 1)
EpochSlots == 0..(EBR_EPOCH_COUNT - 1)

VARIABLES
    g_epoch, g_n_threads,
    g_contexts,         \* the thread registered in each slot
    g_retired,          \* what exited threads have left, by epoch slot
    free_head, free_next,               \* the stack of free slots
    in_critical, local_epoch,           \* thread_ctx_t: read by others
    epoch_tick, op_count, slot_index,   \* ... and by the owner only; the
    pending,                            \* counters modulo the threshold
    pc,
    next_slot,          \* free_slot_pop: the next of the head it has read
    seen_epoch,         \* the value of g_epoch read last (cur in try_gc)
    seen_n, scan, ctx,  \* try_gc: n, i and the context read last
    garbage,            \* the list being reclaimed
    target,             \* ebr_sync: the epoch to reach, 0 when not called
    linked,             \* nodes that can be reached from the list
    unlinked,           \* the nodes a delete has unlinked, not yet retired
    held,               \* nodes an operation may have a pointer to
    freed,
    overtaken,          \* history: nodes that a collection took from a
                        \* global stack after the epoch had moved on
    aba,                \* history: a slot was popped with an outdated next
    due, alone          \* history: the nodes that were retired when a call
                        \* of ebr_sync began; no other thread has been
                        \* registered since

regVars == <<g_n_threads, g_contexts, free_head, free_next, slot_index, next_slot,
             aba>>
countVars == <<epoch_tick, op_count>>
scanVars == <<seen_n, scan, ctx>>
syncVars == <<target, due, alone>>
listVars == <<linked, unlinked, held>>
freeVars == <<g_retired, pending, garbage, freed, overtaken>>
vars == <<g_epoch, regVars, in_critical, local_epoch, countVars, pc,
          seen_epoch, scanVars, syncVars, listVars, freeVars>>

Goto(t, label) == pc' = [pc EXCEPT ![t] = label]

----------------------------------------------------------------------------
Init ==
    /\ g_epoch = 0
    /\ g_n_threads = 0
    /\ g_contexts = [s \in Slots |-> NoThread]
    /\ g_retired = [e \in EpochSlots |-> {}]
    /\ free_head = NoSlot
    /\ free_next = [s \in Slots |-> NoSlot]
    /\ in_critical = [t \in Threads |-> FALSE]
    /\ local_epoch = [t \in Threads |-> 0]
    /\ epoch_tick = [t \in Threads |-> 0]
    /\ op_count = [t \in Threads |-> 0]
    /\ slot_index = [t \in Threads |-> NoSlot]
    /\ pending = [t \in Threads |-> [e \in EpochSlots |-> {}]]
    /\ pc = [t \in Threads |-> "new"]
    /\ next_slot = [t \in Threads |-> NoSlot]
    /\ seen_epoch = [t \in Threads |-> 0]
    /\ seen_n = [t \in Threads |-> 0]
    /\ scan = [t \in Threads |-> 0]
    /\ ctx = [t \in Threads |-> NoThread]
    /\ garbage = [t \in Threads |-> {}]
    /\ target = [t \in Threads |-> 0]
    /\ due = [t \in Threads |-> {}]
    /\ alone = [t \in Threads |-> FALSE]
    /\ linked = Nodes
    /\ unlinked = [t \in Threads |-> {}]
    /\ held = [t \in Threads |-> {}]
    /\ freed = {}
    /\ overtaken = {}
    /\ aba = FALSE

----------------------------------------------------------------------------
(* thread_init, at the first epoch_enter of a thread.                      *)

\* free_slot_pop reads the head and its next; with an empty stack the slot
\* is a new one.
PopSlot(t) ==
    /\ pc[t] \in {"new", "pop"}
    /\ IF free_head = NoSlot
       THEN /\ slot_index' = [slot_index EXCEPT ![t] = g_n_threads]
            /\ g_n_threads' = g_n_threads + 1
            /\ Goto(t, "publish")
            /\ UNCHANGED next_slot
       ELSE /\ slot_index' = [slot_index EXCEPT ![t] = free_head]
            /\ next_slot' = [next_slot EXCEPT ![t] = free_next[free_head]]
            /\ Goto(t, "pop_cas")
            /\ UNCHANGED g_n_threads
    /\ alone' = [u \in Threads |-> alone[u] /\ u = t]
    /\ UNCHANGED <<g_epoch, g_contexts, free_head, free_next, aba,
                   in_critical, local_epoch, countVars, seen_epoch, scanVars,
                   target, due, listVars, freeVars>>

\* The compare-and-swap finds the head it has read, which may have been popped
\* and pushed again meanwhile, over another slot.
\* Mutant: a load and a store in place of the compare-and-swap.
PopSlotCAS_blind(t) ==
    /\ pc[t] = "pop_cas"
    /\ free_head' = next_slot[t] /\ Goto(t, "publish")
    /\ UNCHANGED aba
    /\ next_slot' = [next_slot EXCEPT ![t] = NoSlot]
    /\ UNCHANGED <<g_epoch, g_n_threads, g_contexts, free_next, slot_index,
                   in_critical, local_epoch, countVars, seen_epoch, scanVars,
                   syncVars, listVars, freeVars>>

PopSlotCAS(t) ==
    /\ pc[t] = "pop_cas"
    /\ IF free_head = slot_index[t]
       THEN /\ free_head' = next_slot[t]
            /\ aba' = (aba \/ next_slot[t] # free_next[free_head])
            /\ Goto(t, "publish")
       ELSE Goto(t, "pop") /\ UNCHANGED <<free_head, aba>>
    /\ next_slot' = [next_slot EXCEPT ![t] = NoSlot]
    /\ UNCHANGED <<g_epoch, g_n_threads, g_contexts, free_next, slot_index,
                   in_critical, local_epoch, countVars, seen_epoch, scanVars,
                   syncVars, listVars, freeVars>>

Publish(t) ==
    /\ pc[t] = "publish"
    /\ g_contexts' = [g_contexts EXCEPT ![slot_index[t]] = t]
    /\ Goto(t, "enter")
    /\ UNCHANGED <<g_epoch, g_n_threads, free_head, free_next, slot_index,
                   next_slot, aba, in_critical, local_epoch, countVars, seen_epoch,
                   scanVars, syncVars, listVars, freeVars>>

----------------------------------------------------------------------------
(* The critical section of an operation.                                   *)

\* epoch_enter.  From now on the thread may come to have a pointer to any
\* node that is linked, from the list or from a node unlinked later.
Enter(t) ==
    /\ \/ pc[t] = "enter"
       \/ pc[t] = "idle" /\ (target[t] = 0 \/ g_epoch < target[t])
    /\ in_critical' = [in_critical EXCEPT ![t] = TRUE]
    /\ held' = [held EXCEPT ![t] = linked]
    /\ Goto(t, "critical")
    /\ UNCHANGED <<g_epoch, regVars, local_epoch, countVars, seen_epoch,
                   scanVars, syncVars, linked, unlinked, freeVars>>

\* bsl_delete has unlinked n; it retires it before it goes on.
Unlink(t, n) ==
    /\ pc[t] = "critical"
    /\ target[t] = 0
    /\ n \in linked
    /\ linked' = linked \ {n}
    /\ unlinked' = [unlinked EXCEPT ![t] = {n}]
    /\ Goto(t, "retire")
    /\ UNCHANGED <<g_epoch, regVars, in_critical, local_epoch, countVars,
                   seen_epoch, scanVars, syncVars, held, freeVars>>

\* ebr_retire.  The list is the thread's own, so that reading the epoch and
\* pushing the node make one step.
Retire(t) ==
    /\ pc[t] = "retire"
    /\ pending' = [pending EXCEPT ![t][g_epoch % EBR_EPOCH_COUNT] =
                                      @ \cup unlinked[t]]
    /\ unlinked' = [unlinked EXCEPT ![t] = {}]
    /\ Goto(t, "critical")
    /\ UNCHANGED <<g_epoch, regVars, in_critical, local_epoch, countVars,
                   seen_epoch, scanVars, syncVars, linked, held, g_retired,
                   garbage, freed, overtaken>>

\* epoch_exit.
Exit(t) ==
    /\ pc[t] = "critical"
    /\ in_critical' = [in_critical EXCEPT ![t] = FALSE]
    /\ held' = [held EXCEPT ![t] = {}]
    /\ epoch_tick' = [epoch_tick EXCEPT ![t] = (@ + 1) % EBR_GC_THRESHOLD]
    /\ Goto(t, IF epoch_tick'[t] = 0 THEN "read_epoch" ELSE "idle")
    /\ UNCHANGED <<g_epoch, regVars, local_epoch, op_count, seen_epoch,
                   scanVars, syncVars, linked, unlinked, freeVars>>

ReadEpoch(t) ==
    /\ pc[t] = "read_epoch"
    /\ seen_epoch' = [seen_epoch EXCEPT ![t] = g_epoch]
    /\ Goto(t, "refresh")
    /\ UNCHANGED <<g_epoch, regVars, in_critical, local_epoch, countVars,
                   scanVars, syncVars, listVars, freeVars>>

Refresh(t) ==
    /\ pc[t] = "refresh"
    /\ local_epoch' = [local_epoch EXCEPT ![t] = seen_epoch[t]]
    /\ seen_epoch' = [seen_epoch EXCEPT ![t] = 0]
    /\ op_count' = [op_count EXCEPT ![t] = (@ + 1) % EBR_GC_THRESHOLD]
    /\ Goto(t, IF op_count'[t] = 0 THEN "gc" ELSE "idle")
    /\ UNCHANGED <<g_epoch, regVars, in_critical, epoch_tick, scanVars,
                   syncVars, listVars, freeVars>>

----------------------------------------------------------------------------
(* try_gc.                                                                 *)

EndScan(t) ==
    /\ seen_n' = [seen_n EXCEPT ![t] = 0]
    /\ scan' = [scan EXCEPT ![t] = 0]
    /\ ctx' = [ctx EXCEPT ![t] = NoThread]

\* A thread that stays in its critical section in an earlier epoch.
GiveUp(t) ==
    /\ EndScan(t)
    /\ seen_epoch' = [seen_epoch EXCEPT ![t] = 0]
    /\ Goto(t, "idle")

NextContext(t) ==
    /\ scan' = [scan EXCEPT ![t] = @ + 1]
    /\ ctx' = [ctx EXCEPT ![t] = NoThread]
    /\ Goto(t, "scan")
    /\ UNCHANGED <<seen_epoch, seen_n>>

\* A thread that registers after n is read is not looked at.  At MaxEpoch
\* the collection is given up, as it is when a thread lags behind.
GcBegin(t) ==
    /\ pc[t] = "gc"
    /\ IF g_epoch < MaxEpoch \/ target[t] # 0
       THEN /\ seen_epoch' = [seen_epoch EXCEPT ![t] = g_epoch]
            /\ seen_n' = [seen_n EXCEPT ![t] = g_n_threads]
            /\ Goto(t, "scan")
            /\ UNCHANGED <<scan, ctx>>
       ELSE GiveUp(t)
    /\ UNCHANGED <<g_epoch, regVars, in_critical, local_epoch, countVars,
                   syncVars, listVars, freeVars>>

ScanContext(t) ==
    /\ pc[t] = "scan"
    /\ scan[t] < seen_n[t]
    /\ IF g_contexts[scan[t]] = NoThread
       THEN NextContext(t)
       ELSE /\ ctx' = [ctx EXCEPT ![t] = g_contexts[scan[t]]]
            /\ Goto(t, "scan_critical")
            /\ UNCHANGED <<seen_epoch, seen_n, scan>>
    /\ UNCHANGED <<g_epoch, regVars, in_critical, local_epoch, countVars,
                   syncVars, listVars, freeVars>>

\* The context of a thread that has exited is freed memory: a read of it may
\* return anything.
Gone(t) == pc[t] = "exited"

ScanCritical(t) ==
    /\ pc[t] = "scan_critical"
    /\ \/ /\ ~ in_critical[ctx[t]] \/ Gone(ctx[t])
          /\ NextContext(t)
       \/ /\ in_critical[ctx[t]] \/ Gone(ctx[t])
          /\ Goto(t, "scan_epoch")
          /\ UNCHANGED <<seen_epoch, scanVars>>
    /\ UNCHANGED <<g_epoch, regVars, in_critical, local_epoch, countVars,
                   syncVars, listVars, freeVars>>

ScanEpoch(t) ==
    /\ pc[t] = "scan_epoch"
    /\ \/ /\ local_epoch[ctx[t]] = seen_epoch[t] \/ Gone(ctx[t])
          /\ NextContext(t)
       \/ /\ local_epoch[ctx[t]] # seen_epoch[t] \/ Gone(ctx[t])
          /\ GiveUp(t)
    /\ UNCHANGED <<g_epoch, regVars, in_critical, local_epoch, countVars,
                   syncVars, listVars, freeVars>>

\* Every context has been looked at: race for the epoch.
Advance(t) ==
    /\ pc[t] = "scan"
    /\ scan[t] = seen_n[t]
    /\ IF g_epoch = seen_epoch[t]
       THEN /\ g_epoch' = g_epoch + 1
            /\ EndScan(t)
            /\ Goto(t, "collect")
            /\ UNCHANGED seen_epoch
       ELSE GiveUp(t) /\ UNCHANGED g_epoch
    /\ UNCHANGED <<regVars, in_critical, local_epoch, countVars, syncVars,
                   listVars, freeVars>>

\* Mutant: the slot of the epoch that has just ended.
ReclaimSlot_current(t) == seen_epoch[t] % EBR_EPOCH_COUNT

ReclaimSlot(t) == (seen_epoch[t] - 1) % EBR_EPOCH_COUNT

\* Mutant: my_ctx->pending keeps the list it gives away.
Collect_keep(t) ==
    /\ pc[t] = "collect"
    /\ LET s == ReclaimSlot(t)
       IN  /\ garbage' = [garbage EXCEPT ![t] = g_retired[s] \cup pending[t][s]]
           /\ g_retired' = [g_retired EXCEPT ![s] = {}]
           /\ overtaken' = IF g_epoch > seen_epoch[t] + 1
                           THEN overtaken \cup g_retired[s] ELSE overtaken
    /\ seen_epoch' = [seen_epoch EXCEPT ![t] = 0]
    /\ Goto(t, "reclaim")
    /\ UNCHANGED <<g_epoch, regVars, in_critical, local_epoch, countVars,
                   scanVars, syncVars, listVars, pending, freed>>

\* The winner takes one slot of the global stacks and of its own lists.
Collect(t) ==
    /\ pc[t] = "collect"
    /\ LET s == ReclaimSlot(t)
       IN  /\ garbage' = [garbage EXCEPT ![t] = g_retired[s] \cup pending[t][s]]
           /\ g_retired' = [g_retired EXCEPT ![s] = {}]
           /\ pending' = [pending EXCEPT ![t][s] = {}]
           /\ overtaken' = IF g_epoch > seen_epoch[t] + 1
                           THEN overtaken \cup g_retired[s] ELSE overtaken
    /\ seen_epoch' = [seen_epoch EXCEPT ![t] = 0]
    /\ Goto(t, "reclaim")
    /\ UNCHANGED <<g_epoch, regVars, in_critical, local_epoch, countVars,
                   scanVars, syncVars, listVars, freed>>

\* reclaim_list, node by node.
Reclaim(t) ==
    /\ pc[t] = "reclaim"
    /\ \E n \in garbage[t] :
          /\ freed' = freed \cup {n}
          /\ garbage' = [garbage EXCEPT ![t] = @ \ {n}]
    /\ UNCHANGED <<g_epoch, regVars, in_critical, local_epoch, countVars, pc,
                   seen_epoch, scanVars, syncVars, listVars, g_retired, pending,
                   overtaken>>

Reclaimed(t) ==
    /\ pc[t] = "reclaim"
    /\ garbage[t] = {}
    /\ Goto(t, "idle")
    /\ UNCHANGED <<g_epoch, regVars, in_critical, local_epoch, countVars,
                   seen_epoch, scanVars, syncVars, listVars, freeVars>>

----------------------------------------------------------------------------
(* ebr_sync.  It enters and exits until the epoch is EBR_EPOCH_COUNT        *)
(* further, whatever the other threads do meanwhile.                       *)

\* What ebr_sync is to free: the nodes retired by now, by any thread.
Retired == Nodes \ (linked \cup freed \cup UNION {unlinked[t] : t \in Threads})

BeginSync(t) ==
    /\ due' = [due EXCEPT ![t] = Retired]
    /\ alone' = [alone EXCEPT ![t] = \A u \in Threads \ {t} : pc[u] \in {"new", "exited"}]
    /\ UNCHANGED <<g_epoch, regVars, in_critical, local_epoch, countVars, pc,
                   seen_epoch, scanVars, listVars, freeVars>>

\* Mutant: waits for a single new epoch.
Sync_short(t) ==
    /\ pc[t] = "idle" /\ target[t] = 0
    /\ g_epoch <= MaxSyncEpoch
    /\ Cardinality({u \in Threads : target[u] # 0}) < MaxSyncs
    /\ target' = [target EXCEPT ![t] = g_epoch + 1]
    /\ BeginSync(t)

Sync(t) ==
    /\ pc[t] = "idle" /\ target[t] = 0
    /\ g_epoch <= MaxSyncEpoch
    /\ Cardinality({u \in Threads : target[u] # 0}) < MaxSyncs
    /\ target' = [target EXCEPT ![t] = g_epoch + EBR_EPOCH_COUNT]
    /\ BeginSync(t)

SyncReturn(t) ==
    /\ pc[t] = "idle" /\ target[t] # 0
    /\ g_epoch >= target[t]
    /\ target' = [target EXCEPT ![t] = 0]
    /\ due' = [due EXCEPT ![t] = {}]
    /\ alone' = [alone EXCEPT ![t] = FALSE]
    /\ UNCHANGED <<g_epoch, regVars, in_critical, local_epoch, countVars, pc,
                   seen_epoch, scanVars, listVars, freeVars>>

----------------------------------------------------------------------------
(* thread_destructor.                                                      *)

Unregister(t) ==
    /\ pc[t] = "idle" /\ target[t] = 0
    /\ g_contexts' = [g_contexts EXCEPT ![slot_index[t]] = NoThread]
    /\ Goto(t, "push_slot")
    /\ UNCHANGED <<g_epoch, g_n_threads, free_head, free_next, slot_index,
                   next_slot, aba, in_critical, local_epoch, countVars, seen_epoch,
                   scanVars, syncVars, listVars, freeVars>>

PushSlot(t) ==
    /\ pc[t] = "push_slot"
    /\ free_next' = [free_next EXCEPT ![slot_index[t]] = free_head]
    /\ free_head' = slot_index[t]
    /\ Goto(t, "hand_over")
    /\ UNCHANGED <<g_epoch, g_n_threads, g_contexts, slot_index, next_slot, aba,
                   in_critical, local_epoch, countVars, seen_epoch, scanVars,
                   syncVars, listVars, freeVars>>

\* One gc_stack_push.
HandOver(t) ==
    /\ pc[t] = "hand_over"
    /\ \E e \in EpochSlots, n \in Nodes :
          /\ n \in pending[t][e]
          /\ \A d \in 0..(e - 1) : pending[t][d] = {}
          /\ pending' = [pending EXCEPT ![t][e] = @ \ {n}]
          /\ g_retired' = [g_retired EXCEPT ![e] = @ \cup {n}]
    /\ UNCHANGED <<g_epoch, regVars, in_critical, local_epoch, countVars, pc,
                   seen_epoch, scanVars, syncVars, listVars, garbage, freed,
                   overtaken>>

\* The context is freed: what was in it is dead.
Destroyed(t) ==
    /\ pc[t] = "hand_over"
    /\ \A e \in EpochSlots : pending[t][e] = {}
    /\ local_epoch' = [local_epoch EXCEPT ![t] = 0]
    /\ epoch_tick' = [epoch_tick EXCEPT ![t] = 0]
    /\ op_count' = [op_count EXCEPT ![t] = 0]
    /\ slot_index' = [slot_index EXCEPT ![t] = NoSlot]
    /\ Goto(t, "exited")
    /\ UNCHANGED <<g_epoch, g_n_threads, g_contexts, free_head, free_next,
                   next_slot, aba, in_critical, seen_epoch, scanVars, syncVars,
                   listVars, freeVars>>

----------------------------------------------------------------------------
Step(t) ==
    \/ PopSlot(t) \/ PopSlotCAS(t) \/ Publish(t)
    \/ Enter(t) \/ (\E n \in Nodes : Unlink(t, n)) \/ Retire(t) \/ Exit(t)
    \/ ReadEpoch(t) \/ Refresh(t)
    \/ GcBegin(t) \/ ScanContext(t) \/ ScanCritical(t) \/ ScanEpoch(t)
    \/ Advance(t) \/ Collect(t) \/ Reclaim(t) \/ Reclaimed(t)
    \/ Sync(t) \/ SyncReturn(t)
    \/ Unregister(t) \/ PushSlot(t) \/ HandOver(t) \/ Destroyed(t)

\* Every thread that ran has exited.
Terminated ==
    /\ \A t \in Threads : pc[t] \in {"new", "exited"}
    /\ \E t \in Threads : pc[t] # "new"
    /\ UNCHANGED vars

Next == (\E t \in Threads : Step(t)) \/ Terminated

Spec == Init /\ [][Next]_vars

----------------------------------------------------------------------------
(* Properties.                                                             *)

\* What the reclamation comment of try_gc says, that no thread can have a
\* pointer to a node of the slot it frees: no node is freed that an operation
\* in its critical section may have a pointer to.
NoUseAfterFree == \A t \in Threads : held[t] \cap freed = {}

\* The same, save for nodes that an exiting thread left on a global stack and
\* that a collection took from there after the epoch had moved past it, and as
\* long as free_slot_pop has not swapped in an outdated next: the stale epochs
\* the threads announce and the scan that misses those who enter or register
\* behind it never free a node under a reader.
ReclaimSafe == aba \/ \A t \in Threads : held[t] \cap freed \subseteq overtaken

\* The context of a thread in its critical section is in the slot where a scan of
\* try_gc looks for it, however threads that register and exit race for the free
\* slots: free_slot_pop gives no slot to two threads unless its head has been
\* popped and pushed again, over another slot, since it was read.
OwnSlot ==
    \/ aba
    \/ \A t \in Threads : in_critical[t] => g_contexts[slot_index[t]] = t

\* In how many lists of retired nodes, or on how many deletes' hands, n is.
Copies(n) ==
    Cardinality({t \in Threads : n \in unlinked[t]})
    + Cardinality({x \in Threads \X EpochSlots : n \in pending[x[1]][x[2]]})
    + Cardinality({e \in EpochSlots : n \in g_retired[e]})
    + Cardinality({t \in Threads : n \in garbage[t]})

\* No node is leaked or freed twice: through hand-over, collection and
\* reclamation it is linked, freed, or in exactly one list.
EveryNodeOnce ==
    /\ linked \cap freed = {}
    /\ \A n \in Nodes : Copies(n) = IF n \in linked \cup freed THEN 0 ELSE 1

Returns(t) == target[t] # 0 /\ target'[t] = 0

\* "ebr_sync - block until all previously retired nodes are freed" (epoch.h:57),
\* for a caller that no other thread has been registered beside since the call
\* began (the others have exited, or are yet to come): the three epochs it waits
\* for take it over every list and stack that holds a retired node.
SyncFreesAll == [][\A t \in Threads : Returns(t) /\ alone[t] => due[t] \subseteq freed]_vars

\* What that line of epoch.h says, whoever else is registered.  It does not
\* hold: what another thread has retired waits in a list that only that thread
\* empties.
SyncBlocks == [][\A t \in Threads : Returns(t) => due[t] \subseteq freed]_vars
=============================================================================
